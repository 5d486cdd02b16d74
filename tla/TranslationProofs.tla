------------------------- MODULE TranslationProofs -------------------------
(***************************************************************************)
(* What is said on its way through the gateway, for every set of exchanges *)
(* and every sequence of hooks: what the codecs and the hooks make has the *)
(* types of pipeline/model.go, nothing is refused without a cause, the     *)
(* copies of a response's text agree, notes arrive, secrets stay, the      *)
(* client is told what the backend said and the backend asked what the     *)
(* client asked, in turns that keep to its protocol if the client's do.    *)
(*                                                                         *)
(* The model's recursive functions are functions of a number, and what     *)
(* they make is proved by induction over it (FromZeroOn): that there is    *)
(* such a function at all, for as many steps as there are, and then what   *)
(* each step keeps.                                                        *)
(***************************************************************************)
EXTENDS Translation, WellFoundedInduction, FiniteSetTheorems, TLAPS

(* Induction over the naturals, for a set of them.                         *)
LEMMA FromZeroOn ==
    ASSUME NEW T, 0 \in T, \A n \in Nat : n \in T => n + 1 \in T
    PROVE  \A n \in Nat : n \in T
<1> DEFINE R == OpToRel(<, Nat)
           Rest == Nat \ T
<1>1. IsWellFoundedOn(R, Nat)
  BY NatLessThanWellFounded
<1>2. \A y, z \in Nat : y < z => <<y, z>> \in R
  BY DEF OpToRel
<1> HIDE DEF R
<1> SUFFICES ASSUME Rest # {} PROVE FALSE
  OBVIOUS
<1>3. Rest \subseteq Nat
  OBVIOUS
<1> HIDE DEF Rest
<1>4. \E x \in Rest : \A y \in Rest : ~ (<<y, x>> \in R)
  BY <1>1, <1>3, WFMin
<1>5. PICK x \in Rest : \A y \in Rest : ~ (<<y, x>> \in R)
  BY <1>4
<1>6. x \in Nat /\ x \notin T
  BY DEF Rest
<1>7. x # 0
  BY <1>6
<1>8. x - 1 \in Nat /\ x - 1 < x /\ x = (x - 1) + 1
  BY <1>6, <1>7
<1>9. x - 1 \in T
  BY <1>2, <1>5, <1>6, <1>8 DEF Rest
<1> QED
  BY <1>6, <1>8, <1>9

-----------------------------------------------------------------------------
(* FlattenSeq, by what it does at each step.                               *)

(* f[n] is what the first n sequences of s make, for n up to k.            *)
Flattens(s, k, f) ==
    f = [n \in 1..k |-> IF n = 1 THEN s[n] ELSE f[n - 1] \o s[n]]

LEMMA FlattensStepwise ==
    ASSUME NEW s, NEW k \in Nat, NEW f, Flattens(s, k, f)
    PROVE  \E g : Flattens(s, k + 1, g)
<1> DEFINE Last1 == IF k = 0 THEN s[1] ELSE f[k] \o s[k + 1]
           g == [n \in 1..(k + 1) |-> IF n = k + 1 THEN Last1 ELSE f[n]]
           Of(n) == IF n = 1 THEN s[n] ELSE g[n - 1] \o s[n]
<1>1. ASSUME NEW n \in 1..(k + 1) PROVE g[n] = Of(n)
  <2>1. CASE n = k + 1
    <3>1. g[n] = Last1 /\ (n = 1 <=> k = 0) /\ n - 1 = k
      BY <2>1
    <3>2. k # 0 => g[k] = f[k]
      OBVIOUS
    <3> QED
      BY <2>1, <3>1, <3>2
  <2>2. CASE n # k + 1
    <3>1. n \in 1..k /\ (n # 1 => n - 1 \in 1..(k + 1) /\ n - 1 # k + 1)
      BY <2>2
    <3>2. g[n] = f[n] /\ (n # 1 => g[n - 1] = f[n - 1])
      BY <2>2, <3>1
    <3>3. f[n] = IF n = 1 THEN s[n] ELSE f[n - 1] \o s[n]
      BY <3>1 DEF Flattens
    <3> QED
      BY <3>2, <3>3
  <2> QED
    BY <2>1, <2>2
<1>2. g = [n \in 1..(k + 1) |-> g[n]]
  OBVIOUS
<1>3. g = [n \in 1..(k + 1) |-> Of(n)]
  <2> HIDE DEF g
  <2> QED
    BY <1>1, <1>2
<1>4. Flattens(s, k + 1, g)
  <2> HIDE DEF g
  <2> QED
    BY <1>3 DEF Flattens
<1> QED
  BY <1>4

LEMMA FlattenIs ==
    ASSUME NEW s, Len(s) \in Nat, Len(s) # 0
    PROVE  \E f : Flattens(s, Len(s), f) /\ FlattenSeq(s) = f[Len(s)]
<1> DEFINE T == {k \in Nat : \E f : Flattens(s, k, f)}
<1>1. 0 \in T
  <2> DEFINE f == [n \in 1..0 |-> n]
  <2>1. f = [n \in 1..0 |-> IF n = 1 THEN s[n] ELSE f[n - 1] \o s[n]]
    OBVIOUS
  <2>2. Flattens(s, 0, f)
    BY <2>1 DEF Flattens
  <2> QED
    BY <2>2
<1>2. ASSUME NEW k \in Nat, k \in T PROVE k + 1 \in T
  BY <1>2, FlattensStepwise
<1>3. Len(s) \in T
  <2> HIDE DEF T
  <2> QED
    BY <1>1, <1>2, FromZeroOn
<1> DEFINE f == CHOOSE f : Flattens(s, Len(s), f)
<1>4. Flattens(s, Len(s), f)
  BY <1>3
<1>5. FlattenSeq(s) = f[Len(s)]
  BY DEF FlattenSeq, Flattens
<1> QED
  BY <1>4, <1>5

(* The same from nothing on, for sequences of sequences.                   *)
Steps(s, f) ==
    /\ f[0] = <<>>
    /\ \A n \in 1..Len(s) : f[n] = f[n - 1] \o s[n]

LEMMA FlattenSteps ==
    ASSUME NEW S, NEW s \in Seq(Seq(S))
    PROVE  \E f : /\ Steps(s, f) /\ FlattenSeq(s) = f[Len(s)]
                  /\ \A n \in 0..Len(s) : f[n] \in Seq(S)
<1>0. Len(s) \in Nat
  OBVIOUS
<1>1. CASE Len(s) = 0
  <2> DEFINE f == [n \in {0} |-> <<>>]
  <2>1. Steps(s, f) /\ f[0] \in Seq(S)
    BY <1>1 DEF Steps
  <2>2. FlattenSeq(s) = f[0]
    BY <1>1 DEF FlattenSeq
  <2> HIDE DEF f
  <2> QED
    BY <1>1, <2>1, <2>2
<1>2. CASE Len(s) # 0
  <2>1. PICK g : Flattens(s, Len(s), g) /\ FlattenSeq(s) = g[Len(s)]
    BY <1>0, <1>2, FlattenIs
  <2> DEFINE f == [n \in 0..Len(s) |-> IF n = 0 THEN <<>> ELSE g[n]]
  <2>2. /\ f[0] = <<>>
        /\ \A n \in 1..Len(s) : f[n] = g[n]
        /\ f[Len(s)] = g[Len(s)]
    BY <1>0, <1>2
  <2> HIDE DEF f
  <2>3. g[1] = s[1]
    BY <1>0, <1>2, <2>1 DEF Flattens
  <2>4. \A n \in 1..Len(s) : n # 1 => n - 1 \in 1..Len(s) /\ g[n] = g[n - 1] \o s[n]
    <3> SUFFICES ASSUME NEW n \in 1..Len(s), n # 1
                 PROVE  n - 1 \in 1..Len(s) /\ g[n] = g[n - 1] \o s[n]
      OBVIOUS
    <3>1. n - 1 \in 1..Len(s)
      BY <1>0
    <3>2. g[n] = g[n - 1] \o s[n]
      BY <2>1 DEF Flattens
    <3> QED
      BY <3>1, <3>2
  <2>5. s[1] = <<>> \o s[1]
    BY <1>2
  <2>6. \A n \in 1..Len(s) : f[n] = f[n - 1] \o s[n]
    <3> SUFFICES ASSUME NEW n \in 1..Len(s) PROVE f[n] = f[n - 1] \o s[n]
      OBVIOUS
    <3>1. CASE n = 1
      <4>1. n - 1 = 0
        BY <3>1
      <4> QED
        BY <2>2, <2>3, <2>5, <3>1, <4>1
    <3>2. CASE n # 1
      BY <2>2, <2>4, <3>2
    <3> QED
      BY <3>1, <3>2
  <2> DEFINE T == {n \in Nat : n \in 0..Len(s) => f[n] \in Seq(S)}
  <2>7. 0 \in T
    <3>1. f[0] \in Seq(S)
      BY <2>2
    <3> QED
      BY <3>1
  <2>8. ASSUME NEW n \in Nat, n \in T PROVE n + 1 \in T
    <3> SUFFICES ASSUME n + 1 \in 0..Len(s) PROVE f[n + 1] \in Seq(S)
      OBVIOUS
    <3>1. n + 1 \in 1..Len(s) /\ (n + 1) - 1 = n /\ n \in 0..Len(s)
      BY <1>0
    <3>2. f[n + 1] = f[n] \o s[n + 1]
      BY <2>6, <3>1
    <3>3. s[n + 1] \in Seq(S)
      BY <3>1
    <3> QED
      BY <2>8, <3>1, <3>2, <3>3
  <2>9. \A n \in Nat : n \in T
    <3> HIDE DEF T
    <3> QED
      BY <2>7, <2>8, FromZeroOn
  <2>10. \A n \in 0..Len(s) : f[n] \in Seq(S)
    BY <2>9
  <2>11. Steps(s, f)
    BY <2>2, <2>6 DEF Steps
  <2>12. FlattenSeq(s) = f[Len(s)]
    BY <2>1, <2>2
  <2> QED
    BY <2>10, <2>11, <2>12, Zenon
<1> QED
  BY <1>1, <1>2

LEMMA FlattenType ==
    ASSUME NEW S, NEW s \in Seq(Seq(S))
    PROVE  FlattenSeq(s) \in Seq(S)
<1>1. Len(s) \in 0..Len(s)
  OBVIOUS
<1> QED
  BY <1>1, FlattenSteps

(* What FlattenSeq makes is known from whatever makes the same steps.      *)
LEMMA FlattenBy ==
    ASSUME NEW S, NEW s \in Seq(Seq(S)), NEW g, Steps(s, g)
    PROVE  FlattenSeq(s) = g[Len(s)]
<1>1. PICK f : Steps(s, f) /\ FlattenSeq(s) = f[Len(s)]
  BY FlattenSteps
<1> DEFINE T == {n \in Nat : n \in 0..Len(s) => f[n] = g[n]}
<1>2. 0 \in T
  BY <1>1 DEF Steps
<1>3. ASSUME NEW n \in Nat, n \in T PROVE n + 1 \in T
  <2> SUFFICES ASSUME n + 1 \in 0..Len(s) PROVE f[n + 1] = g[n + 1]
    OBVIOUS
  <2>1. n + 1 \in 1..Len(s) /\ (n + 1) - 1 = n /\ n \in 0..Len(s)
    OBVIOUS
  <2>2. f[n + 1] = f[n] \o s[n + 1] /\ g[n + 1] = g[n] \o s[n + 1]
    BY <1>1, <2>1 DEF Steps
  <2> QED
    BY <1>3, <2>1, <2>2
<1>4. Len(s) \in T
  <2> HIDE DEF T
  <2> QED
    BY <1>2, <1>3, FromZeroOn
<1> QED
  BY <1>1, <1>4

LEMMA SeqOnDomain ==
    ASSUME NEW A, NEW s \in Seq(A), NEW B, NEW f \in [DOMAIN s -> B]
    PROVE  f \in Seq(B) /\ Len(f) = Len(s) /\ DOMAIN f = 1..Len(s)
<1>1. Len(s) \in Nat /\ DOMAIN s = 1..Len(s)
  OBVIOUS
<1>2. f \in [1..Len(s) -> B]
  BY <1>1
<1> HIDE <1>1
<1> QED
  BY <1>1, <1>2

(* Sequences of one each.                                                  *)
LEMMA FlattenOnes ==
    ASSUME NEW S, NEW s \in Seq(S)
    PROVE  FlattenSeq([n \in DOMAIN s |-> <<s[n]>>]) = s
<1> DEFINE ones == [n \in DOMAIN s |-> <<s[n]>>]
           g == [n \in 0..Len(s) |-> SubSeq(s, 1, n)]
<1>1. ones \in [DOMAIN s -> Seq(S)]
  OBVIOUS
<1>2. Len(ones) = Len(s) /\ ones \in Seq(Seq(S)) /\ Len(s) \in Nat
  <2> HIDE DEF ones
  <2> QED
    BY <1>1, SeqOnDomain
<1>3. g[0] = <<>> /\ g[Len(s)] = s
  OBVIOUS
<1>4. ASSUME NEW n \in 1..Len(s) PROVE g[n] = g[n - 1] \o ones[n]
  <2>1. g[n] = SubSeq(s, 1, n) /\ g[n - 1] = SubSeq(s, 1, n - 1) /\ ones[n] = <<s[n]>>
    OBVIOUS
  <2>2. SubSeq(s, 1, n) = SubSeq(s, 1, n - 1) \o <<s[n]>>
    OBVIOUS
  <2> QED
    BY <2>1, <2>2
<1> HIDE DEF ones, g
<1>5. Steps(ones, g)
  BY <1>2, <1>3, <1>4 DEF Steps
<1>6. FlattenSeq(ones) = g[Len(s)]
  BY <1>2, <1>5, FlattenBy
<1> QED
  BY <1>3, <1>6 DEF ones

(* Nothing, several times.                                                 *)
LEMMA FlattenNone ==
    ASSUME NEW S, NEW s \in Seq(Seq(S)), \A n \in 1..Len(s) : s[n] = <<>>
    PROVE  FlattenSeq(s) = <<>>
<1> DEFINE g == [n \in 0..Len(s) |-> <<>>]
<1>1. g[0] = <<>> /\ g[Len(s)] = <<>>
  OBVIOUS
<1>2. <<>> \o <<>> = <<>>
  OBVIOUS
<1>3. \A n \in 1..Len(s) : g[n] = <<>> /\ g[n - 1] = <<>>
  OBVIOUS
<1> HIDE DEF g
<1>4. Steps(s, g)
  BY <1>1, <1>2, <1>3 DEF Steps
<1> QED
  BY <1>1, <1>4, FlattenBy

LEMMA FlattenConcat ==
    ASSUME NEW S, NEW s \in Seq(Seq(S)), NEW t \in Seq(Seq(S))
    PROVE  FlattenSeq(s \o t) = FlattenSeq(s) \o FlattenSeq(t)
<1>1. PICK f : /\ Steps(s, f) /\ FlattenSeq(s) = f[Len(s)]
               /\ \A n \in 0..Len(s) : f[n] \in Seq(S)
  BY FlattenSteps
<1>2. PICK h : /\ Steps(t, h) /\ FlattenSeq(t) = h[Len(t)]
               /\ \A n \in 0..Len(t) : h[n] \in Seq(S)
  BY FlattenSteps
<1> DEFINE st == s \o t
           g == [n \in 0..(Len(s) + Len(t)) |->
                    IF n <= Len(s) THEN f[n] ELSE f[Len(s)] \o h[n - Len(s)]]
<1>3. /\ st \in Seq(Seq(S)) /\ Len(st) = Len(s) + Len(t)
      /\ Len(s) \in Nat /\ Len(t) \in Nat
      /\ \A n \in 1..Len(s) : st[n] = s[n]
      /\ \A n \in 1..Len(t) : st[Len(s) + n] = t[n]
      /\ \A n \in 1..Len(t) : t[n] \in Seq(S)
  OBVIOUS
<1>4. f[Len(s)] \in Seq(S) /\ h[0] = <<>> /\ f[0] = <<>>
  BY <1>1, <1>2, <1>3 DEF Steps
<1>5. f[Len(s)] \o h[0] = f[Len(s)]
  BY <1>4
<1> HIDE DEF st
<1>6. \A n \in 0..Len(s) : g[n] = f[n]
  BY <1>3
<1>7. \A n \in 0..Len(t) : g[Len(s) + n] = f[Len(s)] \o h[n]
  <2> SUFFICES ASSUME NEW n \in 0..Len(t)
               PROVE  g[Len(s) + n] = f[Len(s)] \o h[n]
    OBVIOUS
  <2>1. /\ Len(s) + n \in 0..(Len(s) + Len(t)) /\ (Len(s) + n) - Len(s) = n
        /\ Len(s) + n <= Len(s) => n = 0
        /\ Len(s) \in 0..Len(s)
    <3>1. \A a, b \in Nat : \A i \in 0..b :
             /\ a + i \in 0..(a + b) /\ (a + i) - a = i
             /\ (a + i <= a => i = 0) /\ a \in 0..a /\ a + 0 = a
      OBVIOUS
    <3> QED
      BY <1>3, <3>1
  <2>2. CASE n = 0
    <3>1. g[Len(s)] = f[Len(s)] /\ Len(s) + n = Len(s)
      BY <1>3, <1>6, <2>1, <2>2
    <3> QED
      BY <1>5, <2>2, <3>1
  <2>3. CASE n # 0
    <3>1. ~(Len(s) + n <= Len(s))
      BY <2>1, <2>3
    <3>2. g[Len(s) + n] = f[Len(s)] \o h[(Len(s) + n) - Len(s)]
      BY <2>1, <3>1
    <3> QED
      BY <2>1, <3>2, Zenon
  <2> QED
    BY <2>2, <2>3
<1> HIDE DEF g
<1>8. ASSUME NEW n \in 1..Len(st) PROVE g[n] = g[n - 1] \o st[n]
  <2>1. CASE n <= Len(s)
    <3>1. n \in 1..Len(s) /\ n \in 0..Len(s) /\ n - 1 \in 0..Len(s)
      BY <1>3, <2>1
    <3> QED
      BY <1>1, <1>3, <1>6, <3>1 DEF Steps
  <2>2. CASE n > Len(s)
    <3> DEFINE k == n - Len(s)
    <3>1. /\ k \in 1..Len(t) /\ k \in 0..Len(t) /\ k - 1 \in 0..Len(t)
          /\ n = Len(s) + k /\ n - 1 = Len(s) + (k - 1)
      BY <1>3, <2>2
    <3> HIDE DEF k
    <3>2. g[n] = f[Len(s)] \o h[k] /\ g[n - 1] = f[Len(s)] \o h[k - 1]
      BY <1>7, <3>1
    <3>3. h[k] = h[k - 1] \o t[k] /\ st[n] = t[k]
      BY <1>2, <1>3, <3>1 DEF Steps
    <3>4. h[k - 1] \in Seq(S) /\ t[k] \in Seq(S)
      BY <1>2, <1>3, <3>1
    <3>5. \A x, y, z \in Seq(S) : x \o (y \o z) = (x \o y) \o z
      OBVIOUS
    <3>6. f[Len(s)] \o (h[k - 1] \o t[k]) = (f[Len(s)] \o h[k - 1]) \o t[k]
      BY <1>4, <3>4, <3>5
    <3> QED
      BY <3>2, <3>3, <3>6, Zenon
  <2> QED
    BY <1>3, <2>1, <2>2
<1>9. g[0] = <<>> /\ g[Len(st)] = f[Len(s)] \o h[Len(t)]
  <2>1. 0 \in 0..Len(s) /\ Len(t) \in 0..Len(t)
    BY <1>3
  <2> QED
    BY <1>3, <1>4, <1>6, <1>7, <2>1
<1>10. Steps(st, g)
  BY <1>8, <1>9 DEF Steps
<1>11. FlattenSeq(st) = g[Len(st)]
  BY <1>3, <1>10, FlattenBy
<1> QED
  BY <1>1, <1>2, <1>9, <1>11 DEF st

(* What is made of the text from n on, by what is made of later ends of it.*)
Rewritten(text, old, new, f, n) ==
    IF n > Len(text) THEN <<>>
    ELSE IF IsAt(text, n, old) THEN new \o f[n + Len(old)]
    ELSE <<text[n]>> \o f[n + 1]

RewrittenFrom(text, old, new, low, f) ==
    f = [n \in low..(Len(text) + Len(old) + 1) |-> Rewritten(text, old, new, f, n)]

LEMMA RewrittenStepwise ==
    ASSUME NEW text, Len(text) \in Nat, NEW old, Len(old) \in Nat, Len(old) # 0, NEW new,
           NEW low \in Nat, low <= Len(text) + Len(old) + 1,
           NEW f, RewrittenFrom(text, old, new, low + 1, f)
    PROVE  \E g : RewrittenFrom(text, old, new, low, g)
<1> DEFINE end == Len(text) + Len(old) + 1
           first == Rewritten(text, old, new, f, low)
           g == [n \in low..end |-> IF n = low THEN first ELSE f[n]]
<1>1. \A n \in (low + 1)..end : n \in low..end /\ n # low
  OBVIOUS
<1>2. \A n \in (low + 1)..end : g[n] = f[n]
  BY <1>1
<1>3. g[low] = first
  OBVIOUS
<1> HIDE DEF g
<1>4. ASSUME NEW n \in low..end, n <= Len(text)
      PROVE  n + Len(old) \in (low + 1)..end /\ n + 1 \in (low + 1)..end
  BY <1>4
<1>5. ASSUME NEW n \in low..end
      PROVE  Rewritten(text, old, new, g, n) = Rewritten(text, old, new, f, n)
  <2>1. CASE n > Len(text)
    BY <2>1 DEF Rewritten
  <2>2. CASE n <= Len(text)
    <3>1. g[n + Len(old)] = f[n + Len(old)] /\ g[n + 1] = f[n + 1]
      BY <1>2, <1>4, <2>2
    <3> QED
      BY <3>1 DEF Rewritten
  <2> QED
    BY <2>1, <2>2
<1>6. ASSUME NEW n \in low..end PROVE g[n] = Rewritten(text, old, new, g, n)
  <2>1. CASE n = low
    BY <1>3, <1>5, <2>1
  <2>2. CASE n # low
    <3>1. n \in (low + 1)..end
      BY <2>2
    <3>2. f[n] = Rewritten(text, old, new, f, n)
      BY <3>1 DEF RewrittenFrom
    <3> QED
      BY <1>2, <1>5, <3>1, <3>2
  <2> QED
    BY <2>1, <2>2
<1>7. g = [n \in low..end |-> g[n]]
  BY DEF g
<1>8. g = [n \in low..end |-> Rewritten(text, old, new, g, n)]
  BY <1>6, <1>7
<1> QED
  BY <1>8 DEF RewrittenFrom

LEMMA ReplacedIs ==
    ASSUME NEW text, Len(text) \in Nat, NEW old, Len(old) \in Nat, Len(old) # 0, NEW new
    PROVE  \E f : RewrittenFrom(text, old, new, 1, f) /\ Replaced(text, old, new) = f[1]
<1> DEFINE end == Len(text) + Len(old) + 1
           T == {k \in Nat : k <= end =>
                    \E f : RewrittenFrom(text, old, new, end + 1 - k, f)}
<1>1. 0 \in T
  <2> DEFINE f == [n \in (end + 1)..end |-> n]
  <2>1. f = [n \in (end + 1)..end |-> Rewritten(text, old, new, f, n)]
    OBVIOUS
  <2>2. end + 1 - 0 = end + 1
    OBVIOUS
  <2>3. RewrittenFrom(text, old, new, end + 1, f)
    BY <2>1 DEF RewrittenFrom
  <2> QED
    BY <2>2, <2>3
<1>2. ASSUME NEW k \in Nat, k \in T PROVE k + 1 \in T
  <2> SUFFICES ASSUME k + 1 <= end
               PROVE  \E g : RewrittenFrom(text, old, new, end + 1 - (k + 1), g)
    OBVIOUS
  <2> DEFINE low == end - k
  <2>1. /\ low \in Nat /\ low <= end
        /\ low + 1 = end + 1 - k /\ low = end + 1 - (k + 1) /\ k <= end
    OBVIOUS
  <2>2. PICK f : RewrittenFrom(text, old, new, low + 1, f)
    BY <1>2, <2>1
  <2>3. \E g : RewrittenFrom(text, old, new, low, g)
    <3> HIDE DEF low
    <3> QED
      BY <2>1, <2>2, RewrittenStepwise
  <2> QED
    BY <2>1, <2>3
<1>3. end \in T
  <2>1. end \in Nat
    OBVIOUS
  <2> HIDE DEF T, end
  <2> QED
    BY <1>1, <1>2, <2>1, FromZeroOn
<1>4. end + 1 - end = 1 /\ end <= end
  OBVIOUS
<1>5. \E f : RewrittenFrom(text, old, new, 1, f)
  BY <1>3, <1>4
<1> DEFINE f == CHOOSE f : RewrittenFrom(text, old, new, 1, f)
<1>6. RewrittenFrom(text, old, new, 1, f)
  BY <1>5
<1>7. Replaced(text, old, new) = f[1]
  <2>1. old # <<>>
    OBVIOUS
  <2> QED
    BY <2>1, Zenon DEF Replaced, RewrittenFrom, Rewritten
<1> QED
  BY <1>6, <1>7

(* At each place one of the two happens, and at the end nothing is left.   *)
Rewrites(text, old, new, f) ==
    /\ f[Len(text) + 1] = <<>>
    /\ \A n \in 1..Len(text) :
          /\ IsAt(text, n, old) => /\ n + Len(old) \in 1..(Len(text) + 1)
                                  /\ f[n] = new \o f[n + Len(old)]
          /\ ~IsAt(text, n, old) => f[n] = <<text[n]>> \o f[n + 1]

LEMMA ReplacedSteps ==
    ASSUME NEW S, NEW text \in Seq(S), NEW old \in Seq(S), old # <<>>, NEW new
    PROVE  \E f : Rewrites(text, old, new, f) /\ Replaced(text, old, new) = f[1]
<1>1. Len(text) \in Nat /\ Len(old) \in Nat /\ Len(old) # 0
  OBVIOUS
<1>2. PICK f : RewrittenFrom(text, old, new, 1, f) /\ Replaced(text, old, new) = f[1]
  BY <1>1, ReplacedIs
<1>3. \A n \in 1..(Len(text) + Len(old) + 1) : f[n] = Rewritten(text, old, new, f, n)
  BY <1>2 DEF RewrittenFrom
<1>4. f[Len(text) + 1] = <<>>
  <2>1. \A a, b \in Nat : a + 1 \in 1..(a + b + 1) /\ a + 1 > a
    OBVIOUS
  <2>2. Len(text) + 1 \in 1..(Len(text) + Len(old) + 1) /\ Len(text) + 1 > Len(text)
    BY <1>1, <2>1
  <2> QED
    BY <1>3, <2>2 DEF Rewritten
<1>5. ASSUME NEW n \in 1..Len(text)
      PROVE  /\ IsAt(text, n, old) => /\ n + Len(old) \in 1..(Len(text) + 1)
                                     /\ f[n] = new \o f[n + Len(old)]
             /\ ~IsAt(text, n, old) => f[n] = <<text[n]>> \o f[n + 1]
  <2>1. \A a, b \in Nat : \A i \in 1..a :
           /\ i \in 1..(a + b + 1) /\ ~(i > a)
           /\ i + b - 1 <= a => i + b \in 1..(a + 1)
    OBVIOUS
  <2>2. /\ n \in 1..(Len(text) + Len(old) + 1) /\ ~(n > Len(text))
        /\ n + Len(old) - 1 <= Len(text) => n + Len(old) \in 1..(Len(text) + 1)
    BY <1>1, <2>1
  <2>3. f[n] = IF IsAt(text, n, old) THEN new \o f[n + Len(old)]
               ELSE <<text[n]>> \o f[n + 1]
    BY <1>3, <2>2 DEF Rewritten
  <2>4. IsAt(text, n, old) => n + Len(old) \in 1..(Len(text) + 1)
    BY <2>2 DEF IsAt
  <2> QED
    BY <2>3, <2>4
<1>6. Rewrites(text, old, new, f)
  BY <1>4, <1>5 DEF Rewrites
<1> QED
  BY <1>2, <1>6

(* What holds of the ends of the text from the last one back to the whole  *)
(* holds of the whole.                                                     *)
LEMMA FromTheEnd ==
    ASSUME NEW L \in Nat, NEW T, L + 1 \in T,
           \A n \in 1..L : (\A m \in (n + 1)..(L + 1) : m \in T) => n \in T
    PROVE  \A n \in 1..(L + 1) : n \in T
<1> DEFINE U == {k \in Nat : \A m \in 1..(L + 1) : m >= L + 1 - k => m \in T}
<1>1. 0 \in U
  <2>1. \A m \in 1..(L + 1) : m >= L + 1 - 0 => m = L + 1
    OBVIOUS
  <2> QED
    BY <2>1
<1>2. ASSUME NEW k \in Nat, k \in U PROVE k + 1 \in U
  <2> SUFFICES ASSUME NEW m \in 1..(L + 1), m >= L + 1 - (k + 1)
               PROVE  m \in T
    OBVIOUS
  <2>1. CASE m >= L + 1 - k
    BY <1>2, <2>1
  <2>2. CASE m < L + 1 - k
    <3>1. m \in 1..L /\ \A i \in (m + 1)..(L + 1) : i \in 1..(L + 1) /\ i >= L + 1 - k
      BY <2>2
    <3>2. \A i \in (m + 1)..(L + 1) : i \in T
      BY <1>2, <3>1
    <3> QED
      BY <3>1, <3>2
  <2> QED
    BY <2>1, <2>2
<1>3. L \in U
  <2> HIDE DEF U
  <2> QED
    BY <1>1, <1>2, FromZeroOn
<1>4. \A m \in 1..(L + 1) : m >= L + 1 - L
  OBVIOUS
<1> QED
  BY <1>3, <1>4

LEMMA RewritesType ==
    ASSUME NEW S, NEW text \in Seq(S), NEW old \in Seq(S), NEW new \in Seq(S), old # <<>>,
           NEW f, Rewrites(text, old, new, f)
    PROVE  \A n \in 1..(Len(text) + 1) : f[n] \in Seq(S)
<1> DEFINE T == {n \in 1..(Len(text) + 1) : f[n] \in Seq(S)}
           L == Len(text)
<1>1. L \in Nat /\ L + 1 \in 1..(L + 1) /\ Len(old) \in Nat /\ Len(old) # 0
  OBVIOUS
<1>2. L + 1 \in T
  <2>1. f[L + 1] = <<>>
    BY DEF Rewrites
  <2>2. f[L + 1] \in Seq(S)
    BY <2>1
  <2> QED
    BY <1>1, <2>2
<1>3. ASSUME NEW n \in 1..L, \A m \in (n + 1)..(L + 1) : m \in T
      PROVE  n \in T
  <2>1. n \in 1..(L + 1) /\ n + 1 \in (n + 1)..(L + 1)
    BY <1>1
  <2>2. CASE IsAt(text, n, old)
    <3>1. n + Len(old) \in (n + 1)..(L + 1) /\ f[n] = new \o f[n + Len(old)]
      <4>1. n + Len(old) \in 1..(L + 1) /\ f[n] = new \o f[n + Len(old)]
        BY <2>2 DEF Rewrites
      <4> HIDE DEF L
      <4> QED
        BY <1>1, <4>1
    <3>2. f[n + Len(old)] \in Seq(S)
      BY <1>3, <3>1
    <3>3. f[n] \in Seq(S)
      BY <3>1, <3>2
    <3> QED
      BY <2>1, <3>3
  <2>3. CASE ~IsAt(text, n, old)
    <3>1. f[n] = <<text[n]>> \o f[n + 1]
      BY <2>3 DEF Rewrites
    <3>2. f[n + 1] \in Seq(S) /\ <<text[n]>> \in Seq(S)
      BY <1>3, <2>1
    <3>3. f[n] \in Seq(S)
      BY <3>1, <3>2
    <3> QED
      BY <2>1, <3>3
  <2> QED
    BY <2>2, <2>3
<1>4. \A n \in 1..(L + 1) : n \in T
  <2> HIDE DEF T, L
  <2> QED
    BY <1>1, <1>2, <1>3, FromTheEnd
<1> QED
  BY <1>4

LEMMA ReplacedType ==
    ASSUME NEW text \in Text, NEW old \in Text, NEW new \in Text
    PROVE  Replaced(text, old, new) \in Text
<1> DEFINE S == Symbol
<1>0. text \in Seq(S) /\ old \in Seq(S) /\ new \in Seq(S) /\ Text = Seq(S)
  BY DEF Text
<1> HIDE DEF S
<1>1. CASE old = <<>>
  <2> DEFINE pieces == [n \in DOMAIN text |-> <<text[n]>> \o new]
  <2>1. \A n \in DOMAIN text : <<text[n]>> \o new \in Seq(S)
    BY <1>0
  <2>2. pieces \in [DOMAIN text -> Seq(S)]
    BY <2>1
  <2>3. pieces \in Seq(Seq(S))
    <3> HIDE DEF pieces
    <3> QED
      BY <1>0, <2>2, SeqOnDomain
  <2>4. FlattenSeq(pieces) \in Seq(S)
    BY <2>3, FlattenType
  <2>5. Replaced(text, old, new) = new \o FlattenSeq(pieces)
    BY <1>1 DEF Replaced, Everywhere
  <2> QED
    BY <1>0, <2>4, <2>5
<1>2. CASE old # <<>>
  <2>1. PICK f : Rewrites(text, old, new, f) /\ Replaced(text, old, new) = f[1]
    BY <1>0, <1>2, ReplacedSteps
  <2>2. \A n \in 1..(Len(text) + 1) : f[n] \in Seq(S)
    BY <1>0, <1>2, <2>1, RewritesType
  <2>3. 1 \in 1..(Len(text) + 1)
    BY <1>0
  <2> QED
    BY <1>0, <2>1, <2>2, <2>3
<1> QED
  BY <1>1, <1>2

(* The symbols of w from k on are at place n of the text.                  *)
HasAt(text, n, w, k) ==
    \A i \in k..Len(w) : n + (i - k) \in 1..Len(text) /\ text[n + (i - k)] = w[i]

LEMMA HasAtIs ==
    ASSUME NEW S, NEW text \in Seq(S), NEW w \in Seq(S), w # <<>>, NEW n \in Nat, n > 0
    PROVE  IsAt(text, n, w) <=> HasAt(text, n, w, 1)
<1>1. Len(text) \in Nat /\ Len(w) \in Nat /\ Len(w) # 0
  OBVIOUS
<1>2. ASSUME IsAt(text, n, w) PROVE HasAt(text, n, w, 1)
  <2> SUFFICES ASSUME NEW i \in 1..Len(w)
               PROVE  n + (i - 1) \in 1..Len(text) /\ text[n + (i - 1)] = w[i]
    BY DEF HasAt
  <2>1. n + Len(w) - 1 <= Len(text) /\ SubSeq(text, n, n + Len(w) - 1) = w
    BY <1>2 DEF IsAt
  <2>2. n + (i - 1) \in 1..Len(text)
    BY <1>1, <2>1
  <2>3. SubSeq(text, n, n + Len(w) - 1)[i] = text[n + i - 1]
    BY <1>1, <2>1
  <2>4. n + i - 1 = n + (i - 1)
    BY <1>1
  <2> QED
    BY <2>1, <2>2, <2>3, <2>4
<1>3. ASSUME HasAt(text, n, w, 1) PROVE IsAt(text, n, w)
  <2>1. Len(w) \in 1..Len(w) /\ n + (Len(w) - 1) = n + Len(w) - 1
    BY <1>1
  <2>2. n + (Len(w) - 1) \in 1..Len(text)
    BY <1>3, <2>1 DEF HasAt
  <2>3. n + Len(w) - 1 <= Len(text)
    BY <1>1, <2>1, <2>2
  <2> DEFINE q == SubSeq(text, n, n + Len(w) - 1)
  <2>4. q \in Seq(S) /\ Len(q) = Len(w)
    BY <1>1, <2>3
  <2>5. ASSUME NEW i \in 1..Len(w) PROVE q[i] = w[i]
    <3>1. q[i] = text[n + i - 1]
      BY <1>1, <2>3
    <3>2. n + i - 1 = n + (i - 1)
      BY <1>1
    <3>3. text[n + (i - 1)] = w[i]
      BY <1>3 DEF HasAt
    <3> QED
      BY <3>1, <3>2, <3>3
  <2> HIDE DEF q
  <2>6. q = w
    BY <2>4, <2>5
  <2> QED
    BY <2>3, <2>6 DEF IsAt, q
<1> QED
  BY <1>2, <1>3

(* No symbol of w is one of new.                                           *)
IsApart(w, new) == \A n \in DOMAIN w : \A k \in DOMAIN new : w[n] # new[k]

Rewriting(S, text, old, new, w, f) ==
    /\ text \in Seq(S) /\ old \in Seq(S) /\ new \in Seq(S) /\ w \in Seq(S)
    /\ old # <<>> /\ new # <<>> /\ w # <<>>
    /\ IsApart(w, new)
    /\ Rewrites(text, old, new, f)

(* Where a rewritten end starts with w, or the end of w, the text has it   *)
(* as well, and it is nothing that is replaced.                            *)
LEMMA StartIsKept ==
    ASSUME NEW S, NEW text, NEW old, NEW new, NEW w, NEW f,
           Rewriting(S, text, old, new, w, f)
    PROVE  \A n \in 1..(Len(text) + 1) : \A k \in 1..Len(w) :
              HasAt(f[n], 1, w, k) =>
                 n <= Len(text) /\ ~IsAt(text, n, old) /\ HasAt(text, n, w, k)
<1> USE DEF Rewriting
<1> DEFINE L == Len(text)
           Kept(n) == \A k \in 1..Len(w) : HasAt(f[n], 1, w, k) =>
                         n <= L /\ ~IsAt(text, n, old) /\ HasAt(text, n, w, k)
           T == {n \in 1..(L + 1) : Kept(n)}
<1>1. /\ L \in Nat /\ Len(w) \in Nat /\ Len(old) \in Nat /\ Len(old) # 0
      /\ Len(new) \in Nat /\ Len(new) # 0
  OBVIOUS
<1>2. \A n \in 1..(L + 1) : f[n] \in Seq(S)
  BY RewritesType
<1>3. ASSUME NEW n \in 1..(L + 1), NEW k \in 1..Len(w), HasAt(f[n], 1, w, k)
      PROVE  1 \in 1..Len(f[n]) /\ f[n][1] = w[k]
  <2>1. k \in k..Len(w) /\ 1 + (k - k) = 1
    BY <1>1
  <2> QED
    BY <1>3, <2>1 DEF HasAt
<1>4. L + 1 \in T
  <2>1. L + 1 \in 1..(L + 1)
    BY <1>1
  <2>2. f[L + 1] = <<>>
    BY DEF Rewrites
  <2>3. Len(f[L + 1]) = 0
    BY <2>2
  <2>4. \A k \in 1..Len(w) : ~HasAt(f[L + 1], 1, w, k)
    BY <1>3, <2>1, <2>3
  <2> QED
    BY <2>1, <2>4
<1>5. ASSUME NEW n \in 1..L, \A m \in (n + 1)..(L + 1) : m \in T
      PROVE  n \in T
  <2>1. n \in 1..(L + 1) /\ n + 1 \in (n + 1)..(L + 1) /\ n + 1 \in 1..(L + 1) /\ n <= L
    BY <1>1
  <2> SUFFICES ASSUME NEW k \in 1..Len(w), HasAt(f[n], 1, w, k)
               PROVE  n <= L /\ ~IsAt(text, n, old) /\ HasAt(text, n, w, k)
    BY <2>1
  <2>2. f[n][1] = w[k] /\ k \in DOMAIN w
    BY <1>3, <2>1
  <2>3. ~IsAt(text, n, old)
    <3> SUFFICES ASSUME IsAt(text, n, old) PROVE FALSE
      OBVIOUS
    <3>1. n + Len(old) \in 1..(L + 1) /\ f[n] = new \o f[n + Len(old)]
      BY DEF Rewrites
    <3>2. f[n + Len(old)] \in Seq(S)
      BY <1>2, <3>1
    <3>3. f[n][1] = new[1] /\ 1 \in DOMAIN new
      BY <1>1, <3>1, <3>2
    <3> QED
      BY <2>2, <3>3 DEF IsApart
  <2>4. f[n] = <<text[n]>> \o f[n + 1]
    BY <2>3 DEF Rewrites
  <2>5. f[n + 1] \in Seq(S) /\ text[n] \in S
    BY <1>2, <2>1
  <2>6. /\ f[n][1] = text[n] /\ Len(f[n]) = Len(f[n + 1]) + 1 /\ Len(f[n + 1]) \in Nat
        /\ \A i \in 1..Len(f[n + 1]) : f[n][i + 1] = f[n + 1][i]
    BY <2>4, <2>5
  <2>7. HasAt(text, n, w, k)
    <3> SUFFICES ASSUME NEW i \in k..Len(w)
                 PROVE  n + (i - k) \in 1..L /\ text[n + (i - k)] = w[i]
      BY DEF HasAt
    <3>1. CASE i = k
      <4>1. n + (i - k) = n
        BY <3>1
      <4> QED
        BY <2>2, <2>6, <3>1, <4>1
    <3>2. CASE i # k
      <4>1. k + 1 \in 1..Len(w) /\ i \in (k + 1)..Len(w)
        BY <1>1, <3>2
      <4>2. HasAt(f[n + 1], 1, w, k + 1)
        <5> SUFFICES ASSUME NEW j \in (k + 1)..Len(w)
                     PROVE  /\ 1 + (j - (k + 1)) \in 1..Len(f[n + 1])
                            /\ f[n + 1][1 + (j - (k + 1))] = w[j]
          BY DEF HasAt
        <5>1. j \in k..Len(w) /\ 1 + (j - k) = (1 + (j - (k + 1))) + 1
              /\ 1 + (j - (k + 1)) \in Nat /\ 1 + (j - (k + 1)) > 0
          BY <1>1
        <5>2. 1 + (j - k) \in 1..Len(f[n]) /\ f[n][1 + (j - k)] = w[j]
          BY <5>1 DEF HasAt
        <5> DEFINE x == 1 + (j - (k + 1))
        <5>3. x \in 1..Len(f[n + 1])
          <6>1. \A a, b \in Nat : a + 1 \in 1..(b + 1) /\ a > 0 => a \in 1..b
            OBVIOUS
          <6> QED
            BY <2>6, <5>1, <5>2, <6>1
        <5> QED
          BY <2>6, <5>1, <5>2, <5>3
      <4>3. HasAt(text, n + 1, w, k + 1)
        BY <1>5, <2>1, <4>1, <4>2
      <4>4. (n + 1) + (i - (k + 1)) = n + (i - k)
        BY <1>1
      <4> QED
        BY <4>1, <4>3, <4>4 DEF HasAt
    <3> QED
      BY <3>1, <3>2
  <2> QED
    BY <2>1, <2>3, <2>7
<1>6. \A n \in 1..(L + 1) : n \in T
  <2> HIDE DEF T, L
  <2> QED
    BY <1>1, <1>4, <1>5, FromTheEnd
<1> QED
  BY <1>6

(* What is somewhere in a rewritten end starts one.                        *)
LEMMA InsideIsStart ==
    ASSUME NEW S, NEW text, NEW old, NEW new, NEW w, NEW f,
           Rewriting(S, text, old, new, w, f)
    PROVE  \A n \in 1..(Len(text) + 1) :
              (\E p \in 1..Len(f[n]) : HasAt(f[n], p, w, 1)) =>
                 \E m \in 1..(Len(text) + 1) : HasAt(f[m], 1, w, 1)
<1> USE DEF Rewriting
<1> DEFINE L == Len(text)
           Starts == \E m \in 1..(L + 1) : HasAt(f[m], 1, w, 1)
           T == {n \in 1..(L + 1) : (\E p \in 1..Len(f[n]) : HasAt(f[n], p, w, 1)) => Starts}
<1>1. /\ L \in Nat /\ Len(w) \in Nat /\ Len(w) # 0 /\ Len(old) \in Nat /\ Len(old) # 0
      /\ Len(new) \in Nat /\ Len(new) # 0
  OBVIOUS
<1>2. \A n \in 1..(L + 1) : f[n] \in Seq(S)
  BY RewritesType
<1>3. L + 1 \in T
  <2>1. L + 1 \in 1..(L + 1)
    BY <1>1
  <2>2. f[L + 1] = <<>>
    BY DEF Rewrites
  <2>3. 1..Len(f[L + 1]) = {}
    BY <2>2
  <2> QED
    BY <2>1, <2>3
(* w, being at p behind the first d symbols, is at p - d in the rest.      *)
<1>4. ASSUME NEW a \in Seq(S), NEW b \in Seq(S), NEW p \in 1..Len(a \o b), p > Len(a),
             HasAt(a \o b, p, w, 1)
      PROVE  p - Len(a) \in 1..Len(b) /\ HasAt(b, p - Len(a), w, 1)
  <2>1. /\ Len(a) \in Nat /\ Len(b) \in Nat /\ Len(a \o b) = Len(a) + Len(b)
        /\ \A i \in 1..Len(b) : (a \o b)[Len(a) + i] = b[i]
    OBVIOUS
  <2>2. p - Len(a) \in 1..Len(b)
    BY <1>4, <2>1
  <2>3. ASSUME NEW i \in 1..Len(w)
        PROVE  (p - Len(a)) + (i - 1) \in 1..Len(b) /\ b[(p - Len(a)) + (i - 1)] = w[i]
    <3>1. p + (i - 1) \in 1..Len(a \o b) /\ (a \o b)[p + (i - 1)] = w[i]
      BY <1>4 DEF HasAt
    <3> DEFINE x == (p - Len(a)) + (i - 1)
    <3>2. x \in 1..Len(b) /\ p + (i - 1) = Len(a) + x
      BY <1>1, <1>4, <2>1, <3>1
    <3> HIDE DEF x
    <3> QED
      BY <2>1, <3>1, <3>2 DEF x
  <2> QED
    BY <2>2, <2>3 DEF HasAt
<1>5. ASSUME NEW n \in 1..L, \A m \in (n + 1)..(L + 1) : m \in T
      PROVE  n \in T
  <2>1. n \in 1..(L + 1) /\ n + 1 \in (n + 1)..(L + 1) /\ n + 1 \in 1..(L + 1)
    BY <1>1
  <2> SUFFICES ASSUME NEW p \in 1..Len(f[n]), HasAt(f[n], p, w, 1)
               PROVE  Starts
    BY <2>1
  <2>2. CASE IsAt(text, n, old)
    <3> DEFINE m == n + Len(old)
    <3>1. m \in 1..(L + 1) /\ f[n] = new \o f[m]
      BY <2>2 DEF Rewrites
    <3>2. m \in (n + 1)..(L + 1)
      BY <1>1, <3>1
    <3> HIDE DEF m
    <3>3. f[m] \in Seq(S)
      BY <1>2, <3>1
    <3>4. CASE p <= Len(new)
      <4>1. f[n][p] = new[p] /\ p \in DOMAIN new
        BY <1>1, <3>1, <3>3, <3>4
      <4>2. 1 \in 1..Len(w) /\ p + (1 - 1) = p /\ 1 \in DOMAIN w
        BY <1>1
      <4>3. f[n][p] = w[1]
        BY <4>2 DEF HasAt
      <4> QED
        BY <4>1, <4>2, <4>3 DEF IsApart
    <3>5. CASE p > Len(new)
      BY <1>4, <1>5, <3>1, <3>2, <3>3, <3>5
    <3> QED
      BY <1>1, <3>4, <3>5
  <2>3. CASE ~IsAt(text, n, old)
    <3>1. f[n] = <<text[n]>> \o f[n + 1]
      BY <2>3 DEF Rewrites
    <3>2. f[n + 1] \in Seq(S) /\ <<text[n]>> \in Seq(S) /\ Len(<<text[n]>>) = 1
      BY <1>2, <2>1
    <3>3. CASE p = 1
      BY <2>1, <3>3
    <3>4. CASE p # 1
      <4>1. p > Len(<<text[n]>>)
        BY <3>2, <3>4
      <4> QED
        BY <1>4, <1>5, <2>1, <3>1, <3>2, <4>1
    <3> QED
      BY <3>3, <3>4
  <2> QED
    BY <2>2, <2>3
<1>6. \A n \in 1..(L + 1) : n \in T
  <2> HIDE DEF T, L
  <2> QED
    BY <1>1, <1>3, <1>5, FromTheEnd
<1> QED
  BY <1>6

(* A replacement leaves nothing of what it replaces, and brings nothing    *)
(* that was not there and shares no symbol with what it inserts.           *)
LEMMA ReplacedHasNone ==
    ASSUME NEW text \in Text, NEW old \in Text, NEW new \in Text, NEW w \in Text,
           old # <<>>, new # <<>>, w # <<>>, IsApart(w, new),
           w = old \/ ~Occurs(w, text)
    PROVE  ~Occurs(w, Replaced(text, old, new))
<1> DEFINE S == Symbol
<1>0. text \in Seq(S) /\ old \in Seq(S) /\ new \in Seq(S) /\ w \in Seq(S)
  BY DEF Text
<1> HIDE DEF S
<1>1. PICK f : Rewrites(text, old, new, f) /\ Replaced(text, old, new) = f[1]
  BY <1>0, ReplacedSteps
<1>2. Rewriting(S, text, old, new, w, f)
  BY <1>0, <1>1 DEF Rewriting
<1>3. Len(text) \in Nat /\ 1 \in 1..(Len(text) + 1) /\ Len(w) \in Nat /\ 1 \in 1..Len(w)
  BY <1>0
<1>4. f[1] \in Seq(S)
  BY <1>0, <1>1, <1>3, RewritesType
<1> SUFFICES ASSUME Occurs(w, f[1]) PROVE FALSE
  BY <1>1
<1>5. PICK p \in 1..Len(f[1]) : IsAt(f[1], p, w)
  BY <1>4 DEF Occurs
<1>6. HasAt(f[1], p, w, 1)
  BY <1>0, <1>4, <1>5, HasAtIs
<1>7. PICK m \in 1..(Len(text) + 1) : HasAt(f[m], 1, w, 1)
  BY <1>2, <1>3, <1>5, <1>6, InsideIsStart
<1>8. m <= Len(text) /\ ~IsAt(text, m, old) /\ HasAt(text, m, w, 1)
  BY <1>2, <1>3, <1>7, StartIsKept
<1>9. IsAt(text, m, w)
  BY <1>0, <1>3, <1>8, HasAtIs
<1>10. m \in DOMAIN text
  BY <1>0, <1>3, <1>8
<1> QED
  BY <1>8, <1>9, <1>10 DEF Occurs

(* The texts after the first n replacements of the order, for n up to k.   *)
Replaces(text, order, k, f) ==
    f = [n \in 0..k |-> IF n = 0 THEN text
                        ELSE Replaced(f[n - 1], order[n].old, order[n].new)]

LEMMA ReplacesStepwise ==
    ASSUME NEW text, NEW order, NEW k \in Nat, NEW f, Replaces(text, order, k, f)
    PROVE  \E g : Replaces(text, order, k + 1, g)
<1> DEFINE Last1 == Replaced(f[k], order[k + 1].old, order[k + 1].new)
           g == [n \in 0..(k + 1) |-> IF n = k + 1 THEN Last1 ELSE f[n]]
           Of(n) == IF n = 0 THEN text
                    ELSE Replaced(g[n - 1], order[n].old, order[n].new)
<1>1. ASSUME NEW n \in 0..(k + 1) PROVE g[n] = Of(n)
  <2>1. CASE n = k + 1
    <3>1. n # 0 /\ n - 1 = k /\ k \in 0..(k + 1) /\ k # k + 1
      BY <2>1
    <3>2. g[n - 1] = f[k] /\ g[n] = Last1
      BY <2>1, <3>1
    <3> QED
      BY <2>1, <3>1, <3>2
  <2>2. CASE n # k + 1
    <3>1. n \in 0..k /\ (n # 0 => n - 1 \in 0..(k + 1) /\ n - 1 # k + 1)
      BY <2>2
    <3>2. g[n] = f[n] /\ (n # 0 => g[n - 1] = f[n - 1])
      BY <2>2, <3>1
    <3>3. f[n] = IF n = 0 THEN text ELSE Replaced(f[n - 1], order[n].old, order[n].new)
      BY <3>1 DEF Replaces
    <3> QED
      BY <3>2, <3>3
  <2> QED
    BY <2>1, <2>2
<1>2. g = [n \in 0..(k + 1) |-> g[n]]
  OBVIOUS
<1>3. g = [n \in 0..(k + 1) |-> Of(n)]
  <2> HIDE DEF g
  <2> QED
    BY <1>1, <1>2
<1>4. Replaces(text, order, k + 1, g)
  <2> HIDE DEF g
  <2> QED
    BY <1>3 DEF Replaces
<1> QED
  BY <1>4

LEMMA ReplaceInOrderIs ==
    ASSUME NEW text, NEW order, Len(order) \in Nat
    PROVE  \E f : /\ f[0] = text
                  /\ \A n \in 1..Len(order) :
                        f[n] = Replaced(f[n - 1], order[n].old, order[n].new)
                  /\ ReplaceInOrder(text, order) = f[Len(order)]
<1> DEFINE T == {k \in Nat : \E f : Replaces(text, order, k, f)}
<1>1. 0 \in T
  <2> DEFINE f == [n \in 0..0 |-> text]
  <2>1. f = [n \in 0..0 |-> IF n = 0 THEN text
                            ELSE Replaced(f[n - 1], order[n].old, order[n].new)]
    OBVIOUS
  <2>2. Replaces(text, order, 0, f)
    BY <2>1 DEF Replaces
  <2> QED
    BY <2>2
<1>2. ASSUME NEW k \in Nat, k \in T PROVE k + 1 \in T
  BY <1>2, ReplacesStepwise
<1>3. Len(order) \in T
  <2> HIDE DEF T
  <2> QED
    BY <1>1, <1>2, FromZeroOn
<1> DEFINE f == CHOOSE f : Replaces(text, order, Len(order), f)
<1>4. Replaces(text, order, Len(order), f)
  BY <1>3
<1>5. ReplaceInOrder(text, order) = f[Len(order)]
  BY DEF ReplaceInOrder, Replaces
<1> HIDE DEF f
<1>6. f[0] = text
  BY <1>4 DEF Replaces
<1>7. \A n \in 1..Len(order) : n # 0 /\ n \in 0..Len(order)
  OBVIOUS
<1>8. \A n \in 1..Len(order) : f[n] = Replaced(f[n - 1], order[n].old, order[n].new)
  BY <1>4, <1>7 DEF Replaces
<1> QED
  BY <1>5, <1>6, <1>8

(* What holds of a text and outlives each replacement holds afterwards.    *)
LEMMA ReplaceInOrderType ==
    ASSUME NEW text \in Text, NEW order \in Seq(Replacement)
    PROVE  ReplaceInOrder(text, order) \in Text
<1>0. Len(order) \in Nat
  OBVIOUS
<1>1. PICK f : /\ f[0] = text
               /\ \A n \in 1..Len(order) :
                     f[n] = Replaced(f[n - 1], order[n].old, order[n].new)
               /\ ReplaceInOrder(text, order) = f[Len(order)]
  BY <1>0, ReplaceInOrderIs
<1> DEFINE T == {n \in Nat : n \in 0..Len(order) => f[n] \in Text}
<1>2. 0 \in T
  BY <1>1
<1>3. ASSUME NEW n \in Nat, n \in T PROVE n + 1 \in T
  <2> SUFFICES ASSUME n + 1 \in 0..Len(order) PROVE f[n + 1] \in Text
    OBVIOUS
  <2>1. n + 1 \in 1..Len(order) /\ (n + 1) - 1 = n /\ n \in 0..Len(order)
    BY <1>0
  <2>2. order[n + 1].old \in Text /\ order[n + 1].new \in Text
    <3>1. order[n + 1] \in Replacement
      BY <2>1
    <3> QED
      BY <3>1 DEF Replacement
  <2>3. f[n] \in Text /\ f[n + 1] = Replaced(f[n], order[n + 1].old, order[n + 1].new)
    BY <1>1, <1>3, <2>1
  <2> QED
    BY <2>2, <2>3, ReplacedType
<1>4. Len(order) \in T
  <2> HIDE DEF T
  <2> QED
    BY <1>0, <1>2, <1>3, FromZeroOn
<1> QED
  BY <1>0, <1>1, <1>4

LEMMA OrdersType ==
    ASSUME NEW replacements, replacements \subseteq Replacement, IsFiniteSet(replacements),
           NEW order \in Orders(replacements)
    PROVE  /\ order \in Seq(Replacement)
           /\ \A r \in replacements : \E n \in 1..Len(order) : order[n] = r
<1> DEFINE D == 1..Cardinality(replacements)
<1>1. Cardinality(replacements) \in Nat
  BY FS_CardinalityType
<1>2. order \in [D -> replacements] /\ \A i, j \in D : i # j => order[i] # order[j]
  BY DEF Orders, SetToSeqs
<1>3. Len(order) = Cardinality(replacements) /\ order \in Seq(Replacement)
  <2>1. order \in [1..Cardinality(replacements) -> Replacement]
    BY <1>2
  <2> QED
    BY <1>1, <2>1
<1>4. Cardinality(D) = Cardinality(replacements)
  BY <1>1, FS_Interval
<1>5. order \in Injection(D, replacements)
  BY <1>2 DEF Injection, IsInjective
<1>6. order \in Surjection(D, replacements)
  BY <1>4, <1>5, FS_Injection
<1>7. \A r \in replacements : \E n \in D : order[n] = r
  BY <1>6 DEF Surjection
<1> QED
  BY <1>3, <1>7

(* Replacements that are apart leave none of what they replace.            *)
LEMMA NoneIsLeft ==
    ASSUME NEW replacements, replacements \subseteq Replacement,
           IsFiniteSet(replacements), AreApart(replacements),
           NEW order \in Orders(replacements), NEW text \in Text
    PROVE  \A r \in replacements : ~Occurs(r.old, ReplaceInOrder(text, order))
<1>1. /\ order \in Seq(Replacement)
      /\ \A r \in replacements : \E n \in 1..Len(order) : order[n] = r
  BY OrdersType
<1>0. Len(order) \in Nat
  BY <1>1
<1>2. PICK f : /\ f[0] = text
               /\ \A n \in 1..Len(order) :
                     f[n] = Replaced(f[n - 1], order[n].old, order[n].new)
               /\ ReplaceInOrder(text, order) = f[Len(order)]
  BY <1>0, ReplaceInOrderIs
<1>3. \A n \in 1..Len(order) : order[n] \in replacements
  <2>1. order \in [1..Cardinality(replacements) -> replacements]
    BY DEF Orders, SetToSeqs
  <2>2. DOMAIN order = 1..Len(order)
    BY <1>1
  <2>3. \A n \in DOMAIN order : order[n] \in replacements
    BY <2>1
  <2> QED
    BY <2>2, <2>3
<1> DEFINE Gone(m, t) == ~Occurs(order[m].old, t)
           T == {n \in Nat : n \in 0..Len(order) =>
                     f[n] \in Text /\ \A m \in 1..n : Gone(m, f[n])}
<1>4. 0 \in T
  BY <1>2
<1>5. ASSUME NEW n \in Nat, n \in T PROVE n + 1 \in T
  <2> SUFFICES ASSUME n + 1 \in 0..Len(order)
               PROVE  f[n + 1] \in Text /\ \A m \in 1..(n + 1) : Gone(m, f[n + 1])
    OBVIOUS
  <2>1. n + 1 \in 1..Len(order) /\ (n + 1) - 1 = n /\ n \in 0..Len(order)
    BY <1>0
  <2>2. order[n + 1] \in Replacement /\ order[n + 1] \in replacements
    BY <1>1, <1>3, <2>1
  <2>3. order[n + 1].old \in Text /\ order[n + 1].new \in Text
    BY <2>2 DEF Replacement
  <2>4. f[n] \in Text /\ f[n + 1] = Replaced(f[n], order[n + 1].old, order[n + 1].new)
        /\ \A m \in 1..n : Gone(m, f[n])
    BY <1>2, <1>5, <2>1
  <2>5. f[n + 1] \in Text
    BY <2>3, <2>4, ReplacedType
  <2>6. ASSUME NEW m \in 1..(n + 1) PROVE Gone(m, f[n + 1])
    <3> DEFINE w == order[m].old
               q == order[n + 1]
    <3>1. m \in 1..Len(order) /\ (m = n + 1 \/ m \in 1..n)
      BY <2>1, <1>0
    <3>2. order[m] \in replacements /\ order[m] \in Replacement
      BY <1>1, <1>3, <3>1
    <3>3. w \in Text
      BY <3>2 DEF Replacement
    <3>4. /\ w # <<>> /\ q.old # <<>> /\ q.new # <<>>
          /\ \A i \in DOMAIN w : \A k \in DOMAIN q.new : w[i] # q.new[k]
      BY <2>2, <3>2 DEF AreApart
    <3>5. w = q.old \/ ~Occurs(w, f[n])
      BY <2>4, <3>1
    <3>6. ~Occurs(w, Replaced(f[n], q.old, q.new))
      <4>1. f[n] \in Text /\ q.old \in Text /\ q.new \in Text
        BY <2>3, <2>4
      <4> HIDE DEF w, q
      <4> QED
        BY <3>3, <3>4, <3>5, <4>1, ReplacedHasNone DEF IsApart
    <3> QED
      BY <2>4, <3>6
  <2> QED
    BY <2>5, <2>6
<1>6. Len(order) \in T
  <2> HIDE DEF T
  <2> QED
    BY <1>0, <1>4, <1>5, FromZeroOn
<1>7. \A m \in 1..Len(order) : Gone(m, ReplaceInOrder(text, order))
  BY <1>0, <1>2, <1>6
<1> QED
  BY <1>1, <1>7

LEMMA FlattenOnDomain ==
    ASSUME NEW A, NEW s \in Seq(A), NEW B, NEW f \in [DOMAIN s -> Seq(B)]
    PROVE  FlattenSeq(f) \in Seq(B)
<1>1. f \in Seq(Seq(B))
  BY SeqOnDomain
<1> QED
  BY <1>1, FlattenType

LEMMA OthersType ==
    ASSUME NEW A, NEW s \in Seq(A)
    PROVE  Those(s, IsNotSystem) \in Seq({m \in A : m.role # "system"})
<1> DEFINE B == {m \in A : m.role # "system"}
           f == [n \in DOMAIN s |-> IF IsNotSystem(s[n]) THEN <<s[n]>> ELSE <<>>]
<1>1. ASSUME NEW n \in DOMAIN s
      PROVE  (IF IsNotSystem(s[n]) THEN <<s[n]>> ELSE <<>>) \in Seq(B)
  <2>1. s[n] \in A
    OBVIOUS
  <2>2. IsNotSystem(s[n]) => s[n] \in B
    BY <2>1 DEF IsNotSystem, IsSystem
  <2> HIDE DEF B
  <2> QED
    BY <2>2
<1>2. f \in [DOMAIN s -> Seq(B)]
  <2> HIDE DEF B
  <2> QED
    BY <1>1
<1>3. FlattenSeq(f) \in Seq(B)
  <2> HIDE DEF B, f
  <2> QED
    BY <1>2, FlattenOnDomain
<1> QED
  BY <1>3 DEF Those

LEMMA OfTypeType ==
    ASSUME NEW A, NEW s \in Seq(A), NEW type
    PROVE  OfType(type, s) \in Seq({b \in A : b.type = type})
<1> DEFINE B == {b \in A : b.type = type}
           f == [n \in DOMAIN s |-> IF s[n].type = type THEN <<s[n]>> ELSE <<>>]
<1>1. ASSUME NEW n \in DOMAIN s
      PROVE  (IF s[n].type = type THEN <<s[n]>> ELSE <<>>) \in Seq(B)
  <2>1. s[n] \in A
    OBVIOUS
  <2>2. s[n].type = type => s[n] \in B
    BY <2>1
  <2> HIDE DEF B
  <2> QED
    BY <2>2
<1>2. f \in [DOMAIN s -> Seq(B)]
  <2> HIDE DEF B
  <2> QED
    BY <1>1
<1>3. FlattenSeq(f) \in Seq(B)
  <2> HIDE DEF B, f
  <2> QED
    BY <1>2, FlattenOnDomain
<1> QED
  BY <1>3 DEF OfType, Those

LEMMA JoinedTextType ==
    ASSUME NEW blocks \in Seq(Block)
    PROVE  JoinedText(blocks) \in Text
<1> DEFINE texts == OfType("text", blocks)
           S == Symbol
<1>1. texts \in Seq({b \in Block : b.type = "text"})
  BY OfTypeType
<1>2. [n \in DOMAIN texts |-> texts[n].text] \in [DOMAIN texts -> Seq(S)]
  <2> SUFFICES ASSUME NEW n \in DOMAIN texts PROVE texts[n].text \in Seq(S)
    OBVIOUS
  <2>1. texts[n] \in Block
    BY <1>1
  <2> QED
    BY <2>1 DEF Block, Text
<1>3. FlattenSeq([n \in DOMAIN texts |-> texts[n].text]) \in Seq(S)
  <2> HIDE DEF texts, S
  <2> QED
    BY <1>1, <1>2, FlattenOnDomain
<1> QED
  BY <1>3 DEF JoinedText, Text

LEMMA SystemOfType ==
    ASSUME NEW messages \in Seq(OpenAIMessage)
    PROVE  SystemOf(messages) \in Text
<1> DEFINE B == {m \in OpenAIMessage : m.content # Null}
           Speaks(m) == IsSystem(m) /\ m.content # Null
           f == [n \in DOMAIN messages |->
                    IF Speaks(messages[n]) THEN <<messages[n]>> ELSE <<>>]
           systems == Those(messages, Speaks)
<1>1. ASSUME NEW n \in DOMAIN messages
      PROVE  (IF Speaks(messages[n]) THEN <<messages[n]>> ELSE <<>>) \in Seq(B)
  <2>1. messages[n] \in OpenAIMessage
    OBVIOUS
  <2>2. Speaks(messages[n]) => messages[n] \in B
    BY <2>1
  <2> HIDE DEF B, Speaks
  <2> QED
    BY <2>2
<1>2. f \in [DOMAIN messages -> Seq(B)]
  <2> HIDE DEF B, Speaks
  <2> QED
    BY <1>1
<1>3. FlattenSeq(f) \in Seq(B)
  <2> HIDE DEF B, f
  <2> QED
    BY <1>2, FlattenOnDomain
<1>4. systems \in Seq(B)
  BY <1>3 DEF Those
<1>5. systems # <<>> => Last(systems) \in B
  <2> HIDE DEF B, systems
  <2> QED
    BY <1>4 DEF Last
<1>6. systems # <<>> => Last(systems).content \in Text
  <2> HIDE DEF systems
  <2> QED
    BY <1>5 DEF OpenAIMessage
<1>7. <<>> \in Text
  BY DEF Text
<1> QED
  BY <1>6, <1>7 DEF SystemOf

LEMMA ParsedType ==
    ASSUME NEW c \in Content
    PROVE  ParsedBlocks(c) \in Seq(Block) /\ c.text \in Text
BY DEF Content, ParsedBlocks

LEMMA ParseSystemPromptType ==
    ASSUME NEW c \in Content
    PROVE  ParseSystemPrompt(c) \in Text
<1> DEFINE blocks == ParsedBlocks(c)
           Says(b) == b.type = "text" /\ b.text # <<>>
           S == Symbol
           f == [n \in DOMAIN blocks |-> IF Says(blocks[n]) THEN <<blocks[n]>> ELSE <<>>]
           parts == Those(blocks, Says)
           Part(n) == IF n = 1 THEN parts[n].text ELSE <<"newline">> \o parts[n].text
           g == [n \in DOMAIN parts |-> Part(n)]
<1>1. blocks \in Seq(Block) /\ c.text \in Seq(S)
  BY ParsedType DEF Text
<1>2. f \in [DOMAIN blocks -> Seq(Block)]
  <2> SUFFICES ASSUME NEW n \in DOMAIN blocks
               PROVE  (IF Says(blocks[n]) THEN <<blocks[n]>> ELSE <<>>) \in Seq(Block)
    OBVIOUS
  <2>1. blocks[n] \in Block
    BY <1>1
  <2> HIDE DEF Says, blocks
  <2> QED
    BY <2>1
<1>3. FlattenSeq(f) \in Seq(Block)
  <2> HIDE DEF f, blocks
  <2> QED
    BY <1>1, <1>2, FlattenOnDomain
<1>4. parts \in Seq(Block)
  BY <1>3 DEF Those
<1>5. g \in [DOMAIN parts -> Seq(S)]
  <2> SUFFICES ASSUME NEW n \in DOMAIN parts PROVE Part(n) \in Seq(S)
    OBVIOUS
  <2>1. parts[n] \in Block
    <3> HIDE DEF parts
    <3> QED
      BY <1>4
  <2>2. parts[n].text \in Seq(S)
    <3> HIDE DEF parts
    <3> QED
      BY <2>1 DEF Block, Text
  <2>3. <<"newline">> \in Seq(S)
    <3>1. "newline" \in S
      BY DEF Symbol
    <3> HIDE DEF S
    <3> QED
      BY <3>1
  <2> HIDE DEF parts, S
  <2> QED
    BY <2>2, <2>3
<1>6. FlattenSeq(g) \in Seq(S)
  <2> HIDE DEF g, parts, S
  <2> QED
    BY <1>4, <1>5, FlattenOnDomain
<1>7. c.text \o FlattenSeq(g) \in Seq(S)
  <2> HIDE DEF g, S
  <2> QED
    BY <1>1, <1>6
<1>8. ParseSystemPrompt(c) = c.text \o FlattenSeq(g)
  BY DEF ParseSystemPrompt
<1> QED
  BY <1>7, <1>8 DEF Text

(* A decoded request is one of pipeline/model.go.                          *)
LEMMA OpenAIChoiceType ==
    ASSUME NEW c
    PROVE  DecodeOpenAIChoice(c) \in ToolChoice
BY DEF DecodeOpenAIChoice, ToolChoice

LEMMA AnthropicChoiceType ==
    ASSUME NEW c
    PROVE  DecodeAnthropicChoice(c) \in ToolChoice
BY DEF DecodeAnthropicChoice, ToolChoice

LEMMA OpenAIMessagesType ==
    ASSUME NEW messages \in Seq(OpenAIMessage)
    PROVE  DecodeOpenAIMessages(messages) \in Seq(Message)
<1> DEFINE others == Those(messages, IsNotSystem)
           A == {m \in OpenAIMessage : m.role # "system"}
<1>1. others \in Seq(A)
  BY OthersType
<1>2. ASSUME NEW n \in DOMAIN others PROVE DecodeMessage(others[n]) \in Message
  <2>1. others[n] \in A
    <3> HIDE DEF A, others
    <3> QED
      BY <1>1
  <2> HIDE DEF others
  <2>2. others[n] \in OpenAIMessage /\ others[n].role # "system"
    BY <2>1
  <2>3. /\ others[n].role \in Roles /\ others[n].content \in Text \cup {Null}
        /\ others[n].calls \in Seq(ToolCall) /\ others[n].answers \in Nat
    BY <2>2 DEF OpenAIMessage
  <2>4. <<>> \in Text
    BY DEF Text
  <2>5. OrEmpty(others[n].content) \in Text
    BY <2>3, <2>4 DEF OrEmpty
  <2> QED
    BY <2>3, <2>5 DEF DecodeMessage, Message
<1>3. [n \in DOMAIN others |-> DecodeMessage(others[n])] \in [DOMAIN others -> Message]
  BY <1>2
<1>4. [n \in DOMAIN others |-> DecodeMessage(others[n])] \in Seq(Message)
  <2> HIDE DEF others, A
  <2> QED
    BY <1>1, <1>3, SeqOnDomain
<1> QED
  BY <1>4 DEF DecodeOpenAIMessages

LEMMA PlainType ==
    ASSUME NEW kind \in EndpointKinds
    PROVE  PlainRequest(kind) \in NormalizedRequest
<1>1. <<>> \in Text
  BY DEF Text
<1>2. <<>> \in Seq(Message) /\ <<>> \in Seq(STRING) /\ <<>> \in Seq(Nat)
  OBVIOUS
<1> QED
  BY <1>1, <1>2 DEF PlainRequest, NormalizedRequest, ToolChoice

LEMMA ChatRequestType ==
    ASSUME NEW b \in ChatRequest
    PROVE  DecodeChatRequest(b) \in NormalizedRequest
<1>1. b.messages \in Seq(OpenAIMessage) /\ b.maxTokens \in Seq(Nat)
      /\ b.temperature \in Seq(Nat) /\ b.tools \in Seq(STRING)
  BY DEF ChatRequest
<1>2. SystemOf(b.messages) \in Text
  BY <1>1, SystemOfType
<1>3. DecodeOpenAIMessages(b.messages) \in Seq(Message)
  BY <1>1, OpenAIMessagesType
<1>4. DecodeOpenAIChoice(b.choice) \in ToolChoice
  BY OpenAIChoiceType
<1>5. PlainRequest("chat") \in NormalizedRequest
  BY PlainType DEF EndpointKinds
<1> QED
  BY <1>1, <1>2, <1>3, <1>4, <1>5 DEF DecodeChatRequest, NormalizedRequest

LEMMA CompletionRequestType ==
    ASSUME NEW b \in CompletionRequest
    PROVE  DecodeCompletionRequest(b) \in NormalizedRequest
<1>1. b.prompt \in Seq(Text) /\ b.maxTokens \in Seq(Nat)
      /\ b.temperature \in Seq(Nat) /\ b.n \in Seq(Nat)
      /\ (b.form = "raw" => Len(b.prompt) = 1)
  BY DEF CompletionRequest
<1> DEFINE messages == IF b.form = "raw" THEN <<>>
                       ELSE [n \in DOMAIN b.prompt |-> Saying("user", b.prompt[n])]
           raw == IF b.form = "raw" THEN b.prompt[1] ELSE <<>>
<1>2. messages \in Seq(Message)
  <2>1. ASSUME NEW n \in DOMAIN b.prompt PROVE Saying("user", b.prompt[n]) \in Message
    <3>1. b.prompt[n] \in Text
      BY <1>1
    <3>2. <<>> \in Seq(ToolCall)
      OBVIOUS
    <3> QED
      BY <3>1, <3>2 DEF Saying, Message, Roles
  <2>2. [n \in DOMAIN b.prompt |-> Saying("user", b.prompt[n])]
           \in [DOMAIN b.prompt -> Message]
    BY <2>1
  <2>3. [n \in DOMAIN b.prompt |-> Saying("user", b.prompt[n])] \in Seq(Message)
    BY <1>1, <2>2, SeqOnDomain
  <2> QED
    BY <2>3
<1>3. raw \in Text
  <2>1. b.form = "raw" => b.prompt[1] \in Text
    BY <1>1
  <2>2. <<>> \in Text
    BY DEF Text
  <2> QED
    BY <2>1, <2>2
<1>4. PlainRequest("completion") \in NormalizedRequest
  BY PlainType DEF EndpointKinds
<1> QED
  BY <1>1, <1>2, <1>3, <1>4 DEF DecodeCompletionRequest, NormalizedRequest

(* Messages whose calls have arguments, and those where they may have none.*)
Whole == {m \in Message : ~IsBroken(m.calls)}
Decoded(may) == {m \in Message : IsBroken(m.calls) => may}

LEMMA WholeIsDecoded ==
    ASSUME NEW may
    PROVE  Whole \subseteq Decoded(may)
BY DEF Whole, Decoded

LEMMA CallsInType ==
    ASSUME NEW blocks \in Seq(Block)
    PROVE  /\ CallsIn(blocks) \in Seq(ToolCall)
           /\ IsBroken(CallsIn(blocks)) => IsBroken(OfType("tool_use", blocks))
           /\ CallIds(CallsIn(blocks))
                 = [n \in DOMAIN OfType("tool_use", blocks) |-> OfType("tool_use", blocks)[n].id]
<1> DEFINE uses == OfType("tool_use", blocks)
           calls == [n \in DOMAIN uses |-> [id |-> uses[n].id, args |-> uses[n].args]]
<1>1. uses \in Seq({b \in Block : b.type = "tool_use"})
  BY OfTypeType
<1>2. CallsIn(blocks) = calls
  BY DEF CallsIn
<1> HIDE DEF uses
<1>3. ASSUME NEW n \in DOMAIN uses
      PROVE  [id |-> uses[n].id, args |-> uses[n].args] \in ToolCall
  <2>1. uses[n] \in Block
    BY <1>1
  <2> QED
    BY <2>1 DEF Block, ToolCall
<1>4. calls \in [DOMAIN uses -> ToolCall]
  BY <1>3
<1>5. calls \in Seq(ToolCall)
  BY <1>1, <1>4, SeqOnDomain
<1>6. IsBroken(calls) => IsBroken(uses)
  BY DEF IsBroken
<1>7. CallIds(calls) = [n \in DOMAIN uses |-> uses[n].id]
  BY DEF CallIds
<1> QED
  BY <1>2, <1>5, <1>6, <1>7 DEF uses

LEMMA SayingWhole ==
    ASSUME NEW role \in Roles, NEW text \in Text
    PROVE  Saying(role, text) \in Whole
<1>1. <<>> \in Seq(ToolCall) /\ ~IsBroken(<<>>)
  BY DEF IsBroken
<1> QED
  BY <1>1 DEF Saying, Whole, Message

LEMMA AnsweringWhole ==
    ASSUME NEW id \in Nat, NEW text \in Text
    PROVE  Answering(id, text) \in Whole
<1>1. <<>> \in Seq(ToolCall) /\ ~IsBroken(<<>>)
  BY DEF IsBroken
<1> QED
  BY <1>1 DEF Answering, Whole, Message, Roles

LEMMA DecodeAssistantType ==
    ASSUME NEW blocks \in Seq(Block)
    PROVE  DecodeAssistant(blocks) \in Seq(Decoded(IsBroken(OfType("tool_use", blocks))))
<1>1. /\ CallsIn(blocks) \in Seq(ToolCall)
      /\ IsBroken(CallsIn(blocks)) => IsBroken(OfType("tool_use", blocks))
  BY CallsInType
<1>2. JoinedText(blocks) \in Text
  BY JoinedTextType
<1>3. Calling(JoinedText(blocks), CallsIn(blocks))
         \in Decoded(IsBroken(OfType("tool_use", blocks)))
  BY <1>1, <1>2 DEF Calling, Decoded, Message, Roles
<1> QED
  BY <1>3 DEF DecodeAssistant

LEMMA DecodeUserType ==
    ASSUME NEW blocks \in Seq(Block)
    PROVE  DecodeUser(blocks) \in Seq(Whole)
<1> DEFINE results == OfType("tool_result", blocks)
           answers == [n \in DOMAIN results |->
                          Answering(results[n].id, results[n].text)]
           said == IF OfType("text", blocks) = <<>> THEN <<>>
                   ELSE <<Saying("user", JoinedText(blocks))>>
<1>1. results \in Seq({b \in Block : b.type = "tool_result"})
  BY OfTypeType
<1>2. answers \in Seq(Whole)
  <2> HIDE DEF results
  <2>1. ASSUME NEW n \in DOMAIN results
        PROVE  Answering(results[n].id, results[n].text) \in Whole
    <3>1. results[n] \in Block
      BY <1>1
    <3>2. results[n].id \in Nat /\ results[n].text \in Text
      BY <3>1 DEF Block
    <3> QED
      BY <3>2, AnsweringWhole
  <2>2. answers \in [DOMAIN results -> Whole]
    BY <2>1
  <2> QED
    BY <1>1, <2>2, SeqOnDomain
<1>3. said \in Seq(Whole)
  <2>1. Saying("user", JoinedText(blocks)) \in Whole
    BY JoinedTextType, SayingWhole DEF Roles
  <2> QED
    BY <2>1
<1>4. answers \o said \in Seq(Whole)
  <2> HIDE DEF answers, said
  <2> QED
    BY <1>2, <1>3
<1> QED
  BY <1>4 DEF DecodeUser

AnthropicMessage == [role: {"user", "assistant"}, content: Content]

(* A message has a call without arguments only if its body has one.        *)
BareIn(m) == IsBroken(OfType("tool_use", m.content.blocks))

LEMMA AnthropicMessageType ==
    ASSUME NEW m \in AnthropicMessage
    PROVE  DecodeAnthropicMessage(m) \in Seq(Decoded(BareIn(m)))
<1> DEFINE blocks == ParsedBlocks(m.content)
           D == Decoded(BareIn(m))
<1>1. m.role \in {"user", "assistant"} /\ m.content \in Content
  BY DEF AnthropicMessage
<1>2. blocks \in Seq(Block) /\ m.content.text \in Text
  BY <1>1, ParsedType
<1>w. Whole \subseteq D
  BY WholeIsDecoded
<1>3. CASE blocks = <<>>
  <2>1. Saying(m.role, m.content.text) \in Whole
    BY <1>1, <1>2, SayingWhole DEF Roles
  <2>2. DecodeAnthropicMessage(m) = <<Saying(m.role, m.content.text)>>
    BY <1>3 DEF DecodeAnthropicMessage
  <2>3. Saying(m.role, m.content.text) \in D
    BY <1>w, <2>1
  <2> HIDE DEF D
  <2>4. <<Saying(m.role, m.content.text)>> \in Seq(D)
    BY <2>3
  <2> QED
    BY <2>2, <2>4 DEF D
<1>4. CASE blocks # <<>> /\ m.role = "assistant"
  <2>1. DecodeAnthropicMessage(m) = DecodeAssistant(blocks)
    BY <1>4 DEF DecodeAnthropicMessage
  <2>2. blocks = m.content.blocks
    BY <1>4 DEF ParsedBlocks
  <2> QED
    BY <1>2, <2>1, <2>2, DecodeAssistantType DEF BareIn
<1>5. CASE blocks # <<>> /\ m.role = "user"
  <2>1. DecodeAnthropicMessage(m) = DecodeUser(blocks)
    BY <1>5 DEF DecodeAnthropicMessage
  <2>2. DecodeUser(blocks) \in Seq(Whole)
    BY <1>2, DecodeUserType
  <2> HIDE DEF D
  <2>3. DecodeUser(blocks) \in Seq(D)
    BY <1>w, <2>2
  <2> QED
    BY <2>1, <2>3 DEF D
<1> QED
  BY <1>1, <1>3, <1>4, <1>5

LEMMA AnthropicMessagesType ==
    ASSUME NEW messages \in Seq(AnthropicMessage)
    PROVE  FlattenSeq([n \in DOMAIN messages |-> DecodeAnthropicMessage(messages[n])])
              \in Seq(Decoded(\E n \in DOMAIN messages : BareIn(messages[n])))
<1> DEFINE f == [n \in DOMAIN messages |-> DecodeAnthropicMessage(messages[n])]
           D == Decoded(\E n \in DOMAIN messages : BareIn(messages[n]))
<1>1. ASSUME NEW n \in DOMAIN messages
      PROVE  DecodeAnthropicMessage(messages[n]) \in Seq(D)
  <2>1. messages[n] \in AnthropicMessage
    OBVIOUS
  <2>2. DecodeAnthropicMessage(messages[n]) \in Seq(Decoded(BareIn(messages[n])))
    BY <2>1, AnthropicMessageType
  <2>3. Decoded(BareIn(messages[n])) \subseteq D
    BY DEF Decoded
  <2> HIDE DEF D
  <2> QED
    BY <2>2, <2>3
<1> HIDE DEF D
<1>2. f \in [DOMAIN messages -> Seq(D)]
  BY <1>1
<1> HIDE DEF f
<1>3. FlattenSeq(f) \in Seq(D)
  BY <1>2, FlattenOnDomain
<1> QED
  BY <1>3 DEF f, D

LEMMA MessagesRequestType ==
    ASSUME NEW b \in MessagesRequest
    PROVE  /\ DecodeMessagesRequest(b) \in NormalizedRequest
           /\ DecodeMessagesRequest(b).messages \in Seq(Decoded(AsksBroken("anthropic", b)))
           /\ DecodeMessagesRequest(b).choice # "none"
<1> DEFINE messages == FlattenSeq([n \in DOMAIN b.messages |->
                                      DecodeAnthropicMessage(b.messages[n])])
           limit == IF b.maxTokens = <<>> THEN <<0>> ELSE b.maxTokens
           system == ParseSystemPrompt(b.system)
           choice == DecodeAnthropicChoice(b.choice)
<1>1. b.messages \in Seq(AnthropicMessage) /\ b.system \in Content
      /\ b.maxTokens \in Seq(Nat) /\ b.tools \in Seq(STRING)
  BY DEF MessagesRequest, AnthropicMessage
<1>2. messages \in Seq(Decoded(AsksBroken("anthropic", b)))
  <2>1. AsksBroken("anthropic", b) = (\E n \in DOMAIN b.messages : BareIn(b.messages[n]))
    BY DEF AsksBroken, BareIn
  <2> QED
    BY <1>1, <2>1, AnthropicMessagesType
<1>3. messages \in Seq(Message)
  <2> HIDE DEF messages
  <2>1. Decoded(AsksBroken("anthropic", b)) \subseteq Message
    BY DEF Decoded
  <2> QED
    BY <1>2, <2>1
<1>4. limit \in Seq(Nat)
  BY <1>1
<1>5. system \in Text
  BY <1>1, ParseSystemPromptType
<1>6. choice \in ToolChoice /\ choice # "none"
  BY AnthropicChoiceType DEF DecodeAnthropicChoice
<1>7. PlainRequest("chat") \in NormalizedRequest
  BY PlainType DEF EndpointKinds
<1>8. DecodeMessagesRequest(b) =
        [PlainRequest("chat") EXCEPT
            !.system = system, !.messages = messages, !.maxTokens = limit,
            !.tools = b.tools, !.choice = choice]
  BY DEF DecodeMessagesRequest
<1> HIDE DEF messages, limit, system, choice
<1>9. DecodeMessagesRequest(b) \in NormalizedRequest
  BY <1>1, <1>3, <1>4, <1>5, <1>6, <1>7, <1>8 DEF NormalizedRequest
<1>10. /\ DecodeMessagesRequest(b).messages = messages
       /\ DecodeMessagesRequest(b).choice = choice
  BY <1>7, <1>8 DEF NormalizedRequest
<1> QED
  BY <1>2, <1>6, <1>9, <1>10

-----------------------------------------------------------------------------
(* A decoded answer is a response of pipeline/model.go.                    *)
LEMMA NoResponseType == NoResponse \in NormalizedResponse
<1>1. <<>> \in Text /\ <<>> \in Seq(ToolCall) /\ <<>> \in Seq(Choice)
  BY DEF Text
<1>2. "" \in Reason
  BY DEF Reason
<1> QED
  BY <1>1, <1>2 DEF NoResponse, NormalizedResponse

LEMMA ChatResponseType ==
    ASSUME NEW b \in ChatResponse
    PROVE  DecodeChatResponse(b) \in NormalizedResponse
<1> DEFINE C == [content: Text \cup {Null}, calls: Seq(ToolCall), reason: Reason]
<1>1. b.choices \in Seq(C)
  BY DEF ChatResponse
<1>2. CASE b.choices = <<>>
  BY <1>2, NoResponseType DEF DecodeChatResponse, NoResponse
<1>3. CASE b.choices # <<>>
  <2>1. Head(b.choices) \in C
    <3> HIDE DEF C
    <3> QED
      BY <1>1, <1>3
  <2>2. /\ Head(b.choices).content \in Text \cup {Null}
        /\ Head(b.choices).calls \in Seq(ToolCall)
        /\ Head(b.choices).reason \in Reason
    BY <2>1
  <2>3. <<>> \in Text /\ <<>> \in Seq(Choice)
    BY DEF Text
  <2>4. OrEmpty(Head(b.choices).content) \in Text
    BY <2>2, <2>3 DEF OrEmpty
  <2> QED
    BY <1>3, <2>2, <2>3, <2>4 DEF DecodeChatResponse, NormalizedResponse
<1> QED
  BY <1>2, <1>3

LEMMA CompletionResponseType ==
    ASSUME NEW b \in CompletionResponse
    PROVE  DecodeCompletionResponse(b) \in NormalizedResponse
<1>1. b.choices \in Seq(Choice)
  BY DEF CompletionResponse
<1>2. b.choices # <<>> => b.choices[1] \in Choice
  BY <1>1
<1>3. b.choices # <<>> => b.choices[1].text \in Text /\ b.choices[1].reason \in Reason
  BY <1>2 DEF Choice
<1>4. <<>> \in Text /\ <<>> \in Seq(ToolCall) /\ "" \in Reason
  BY DEF Text, Reason
<1> QED
  BY <1>1, <1>3, <1>4 DEF DecodeCompletionResponse, NormalizedResponse

LEMMA MessagesResponseType ==
    ASSUME NEW b \in MessagesResponse
    PROVE  /\ DecodeMessagesResponse(b) \in NormalizedResponse
           /\ IsBroken(DecodeMessagesResponse(b).calls) => AnswersBroken("anthropic", b)
<1> DEFINE calls == CallsIn(b.blocks)
<1>1. b.blocks \in Seq(Block) /\ b.reason \in Reason
  BY DEF MessagesResponse
<1>2. calls \in Seq(ToolCall) /\ (IsBroken(calls) => AnswersBroken("anthropic", b))
  BY <1>1, CallsInType DEF AnswersBroken
<1>3. JoinedText(b.blocks) \in Text
  BY <1>1, JoinedTextType
<1>4. Maps!MapStopReason(b.reason) \in Reason
  BY <1>1 DEF Reason, Maps!MapStopReason
<1>5. <<>> \in Seq(Choice)
  OBVIOUS
<1>6. DecodeMessagesResponse(b) =
        [content |-> JoinedText(b.blocks), reason |-> Maps!MapStopReason(b.reason),
         calls |-> calls, choices |-> <<>>]
  BY DEF DecodeMessagesResponse
<1> HIDE DEF calls
<1> QED
  BY <1>2, <1>3, <1>4, <1>5, <1>6 DEF NormalizedResponse

(* The texts that have none of what the modifications replace.             *)
CleanTexts(rs) ==
    {t \in Text : AreApart(rs) => \A r \in rs : ~Occurs(r.old, t)}

LEMMA NothingIsClean ==
    ASSUME NEW rs
    PROVE  <<>> \in CleanTexts(rs)
<1>1. <<>> \in Text
  BY DEF Text
<1>2. \A old : ~Occurs(old, <<>>)
  BY DEF Occurs
<1> QED
  BY <1>1, <1>2 DEF CleanTexts

LEMMA ModifiedIsClean ==
    ASSUME NEW rs \in Modifications, NEW order \in Orders(rs), NEW text \in Text
    PROVE  ReplaceInOrder(text, order) \in CleanTexts(rs)
<1>1. rs \subseteq Replacement /\ IsFiniteSet(rs)
  BY DEF Modifications
<1>2. order \in Seq(Replacement)
  BY <1>1, OrdersType
<1>3. ReplaceInOrder(text, order) \in Text
  BY <1>2, ReplaceInOrderType
<1>4. AreApart(rs) => \A r \in rs : ~Occurs(r.old, ReplaceInOrder(text, order))
  BY <1>1, NoneIsLeft
<1> QED
  BY <1>3, <1>4 DEF CleanTexts

LEMMA CleanAreTexts == \A rs : CleanTexts(rs) \subseteq Text
BY DEF CleanTexts

SameMessage(m, q) ==
    m.role = q.role /\ m.calls = q.calls /\ m.answers = q.answers

(* A request is another one but for its texts.                             *)
SameRequest(r, q) ==
    /\ r.kind = q.kind /\ r.maxTokens = q.maxTokens /\ r.temperature = q.temperature
    /\ r.n = q.n /\ r.tools = q.tools /\ r.choice = q.choice /\ r.raw = q.raw
    /\ DOMAIN r.messages = DOMAIN q.messages
    /\ \A n \in DOMAIN r.messages : SameMessage(r.messages[n], q.messages[n])

SaysOnly(r, texts) ==
    /\ r.system \in texts
    /\ \A n \in DOMAIN r.messages : r.messages[n].content \in texts

LEMMA MessageEdited ==
    ASSUME NEW m \in Message, NEW text \in Text
    PROVE  /\ [m EXCEPT !.content = text] \in Message
           /\ SameMessage([m EXCEPT !.content = text], m)
           /\ [m EXCEPT !.content = text].content = text
BY DEF Message, SameMessage

LEMMA EditRequestType ==
    ASSUME NEW r \in NormalizedRequest, NEW target, NEW rs \in Modifications,
           NEW orders \in [0..Len(r.messages) -> Orders(rs)]
    PROVE  /\ EditRequest(r, target, orders) \in NormalizedRequest
           /\ SameRequest(EditRequest(r, target, orders), r)
           /\ target = "all" => SaysOnly(EditRequest(r, target, orders), CleanTexts(rs))
<1> DEFINE ms == r.messages
           system == IF target \in {"system", "all"}
                     THEN ReplaceInOrder(r.system, orders[0]) ELSE r.system
           M(n) == EditMessage(ms[n], target, orders[n])
           messages == [n \in DOMAIN ms |-> M(n)]
           e == EditRequest(r, target, orders)
<1>1. ms \in Seq(Message) /\ r.system \in Text
  BY DEF NormalizedRequest
<1>2. system \in Text /\ (target = "all" => system \in CleanTexts(rs))
  <2>1. orders[0] \in Orders(rs)
    <3>1. 0 \in 0..Len(ms)
      BY <1>1
    <3> QED
      BY <3>1
  <2>2. ReplaceInOrder(r.system, orders[0]) \in CleanTexts(rs)
    BY <1>1, <2>1, ModifiedIsClean
  <2> QED
    BY <1>1, <2>2, CleanAreTexts
<1>3. ASSUME NEW n \in DOMAIN ms
      PROVE  /\ M(n) \in Message /\ SameMessage(M(n), ms[n])
             /\ target = "all" => M(n).content \in CleanTexts(rs)
  <2>1. ms[n] \in Message /\ n \in 0..Len(ms)
    BY <1>1
  <2>2. ms[n].content \in Text
    BY <2>1 DEF Message
  <2>3. ReplaceInOrder(ms[n].content, orders[n]) \in CleanTexts(rs)
    <3>1. orders[n] \in Orders(rs)
      BY <2>1
    <3> QED
      BY <2>2, <3>1, ModifiedIsClean
  <2>4. CASE Edits(target, ms[n])
    <3>1. ReplaceInOrder(ms[n].content, orders[n]) \in Text
      BY <2>3, CleanAreTexts
    <3>2. /\ M(n) \in Message /\ SameMessage(M(n), ms[n])
          /\ M(n).content = ReplaceInOrder(ms[n].content, orders[n])
      BY <2>1, <2>4, <3>1, MessageEdited DEF EditMessage
    <3> QED
      BY <2>3, <3>2
  <2>5. CASE ~Edits(target, ms[n])
    <3>1. target # "all"
      BY <2>5 DEF Edits
    <3>2. M(n) = ms[n]
      BY <2>5 DEF EditMessage
    <3> QED
      BY <2>1, <3>1, <3>2 DEF SameMessage
  <2> QED
    BY <2>4, <2>5
<1>4. messages \in Seq(Message) /\ DOMAIN messages = DOMAIN ms
  <2>1. messages \in [DOMAIN ms -> Message]
    BY <1>3
  <2> HIDE DEF messages
  <2>2. messages \in Seq(Message)
    BY <1>1, <2>1, SeqOnDomain
  <2> QED
    BY <2>1, <2>2
<1>5. e = [r EXCEPT !.system = system, !.messages = messages]
  BY DEF EditRequest
<1>6. \A n \in DOMAIN ms : messages[n] = M(n)
  OBVIOUS
<1> HIDE DEF e, system, messages, M
<1>7. e \in NormalizedRequest
  BY <1>2, <1>4, <1>5 DEF NormalizedRequest
<1>8. /\ e.kind = r.kind /\ e.maxTokens = r.maxTokens /\ e.temperature = r.temperature
      /\ e.n = r.n /\ e.tools = r.tools /\ e.choice = r.choice /\ e.raw = r.raw
      /\ e.system = system /\ e.messages = messages
  BY <1>5 DEF NormalizedRequest
<1>9. SameRequest(e, r)
  BY <1>3, <1>4, <1>6, <1>8 DEF SameRequest
<1>10. target = "all" => SaysOnly(e, CleanTexts(rs))
  BY <1>2, <1>3, <1>4, <1>6, <1>8 DEF SaysOnly
<1> QED
  BY <1>7, <1>9, <1>10 DEF e

LEMMA SameRequestAgain ==
    ASSUME NEW r, NEW s, NEW q, SameRequest(r, s), SameRequest(s, q)
    PROVE  SameRequest(r, q)
BY DEF SameRequest, SameMessage

-----------------------------------------------------------------------------
(* A response is another one but for its texts.                            *)
SameResponse(r, q) ==
    /\ r.reason = q.reason /\ r.calls = q.calls
    /\ DOMAIN r.choices = DOMAIN q.choices
    /\ \A n \in DOMAIN r.choices : r.choices[n].reason = q.choices[n].reason

RepliesOnly(r, texts) ==
    /\ r.content \in texts
    /\ \A n \in DOMAIN r.choices : r.choices[n].text \in texts

LEMMA ChoiceEdited ==
    ASSUME NEW c \in Choice, NEW text \in Text
    PROVE  /\ [c EXCEPT !.text = text] \in Choice
           /\ [c EXCEPT !.text = text].text = text
           /\ [c EXCEPT !.text = text].reason = c.reason
BY DEF Choice

LEMMA EditResponseType ==
    ASSUME NEW r \in NormalizedResponse, NEW rs \in Modifications,
           NEW order \in Orders(rs)
    PROVE  /\ EditResponse(r, order) \in NormalizedResponse
           /\ SameResponse(EditResponse(r, order), r)
           /\ RepliesOnly(EditResponse(r, order), CleanTexts(rs))
<1> DEFINE cs == r.choices
           content == ReplaceInOrder(r.content, order)
           C(n) == EditChoice(cs[n], order)
           choices == [n \in DOMAIN cs |-> C(n)]
           e == EditResponse(r, order)
<1>1. cs \in Seq(Choice) /\ r.content \in Text
  BY DEF NormalizedResponse
<1>2. content \in CleanTexts(rs) /\ content \in Text
  BY <1>1, ModifiedIsClean, CleanAreTexts
<1>3. ASSUME NEW n \in DOMAIN cs
      PROVE  /\ C(n) \in Choice /\ C(n).reason = cs[n].reason
             /\ C(n).text \in CleanTexts(rs)
  <2>1. cs[n] \in Choice
    BY <1>1
  <2>2. cs[n].text \in Text
    BY <2>1 DEF Choice
  <2>3. ReplaceInOrder(cs[n].text, order) \in CleanTexts(rs)
    BY <2>2, ModifiedIsClean
  <2>4. ReplaceInOrder(cs[n].text, order) \in Text
    BY <2>3, CleanAreTexts
  <2> QED
    BY <2>1, <2>3, <2>4, ChoiceEdited DEF EditChoice
<1>4. choices \in Seq(Choice) /\ DOMAIN choices = DOMAIN cs
  <2>1. choices \in [DOMAIN cs -> Choice]
    BY <1>3
  <2> HIDE DEF choices
  <2>2. choices \in Seq(Choice)
    BY <1>1, <2>1, SeqOnDomain
  <2> QED
    BY <2>1, <2>2
<1>5. e = [r EXCEPT !.content = content, !.choices = choices]
  BY DEF EditResponse
<1>6. \A n \in DOMAIN cs : choices[n] = C(n)
  OBVIOUS
<1> HIDE DEF e, content, choices, C
<1>7. e \in NormalizedResponse
  BY <1>2, <1>4, <1>5 DEF NormalizedResponse
<1>8. /\ e.reason = r.reason /\ e.calls = r.calls /\ e.content = content
      /\ e.choices = choices
  BY <1>5 DEF NormalizedResponse
<1>9. SameResponse(e, r)
  BY <1>3, <1>4, <1>6, <1>8 DEF SameResponse
<1>10. RepliesOnly(e, CleanTexts(rs))
  BY <1>2, <1>3, <1>4, <1>6, <1>8 DEF RepliesOnly
<1> QED
  BY <1>7, <1>9, <1>10 DEF e

LEMMA NoteType == Note \in Text
<1>1. "note" \in Symbol
  BY DEF Symbol
<1> QED
  BY <1>1 DEF Note, Text

LEMMA LongerText ==
    ASSUME NEW text \in Text
    PROVE  /\ text \o Note \in Text /\ Len(text \o Note) = Len(text) + 1
           /\ text \o Note # <<>> /\ Last(text \o Note) = Note[1]
<1>1. text \in Seq(Symbol) /\ "note" \in Symbol
  BY DEF Text, Symbol
<1> DEFINE t == text \o <<"note">>
<1>2. /\ t \in Seq(Symbol) /\ Len(t) = Len(text) + 1 /\ t[Len(text) + 1] = "note"
  BY <1>1
<1>3. t # <<>> /\ Len(text) \in Nat
  BY <1>1, <1>2
<1>4. text \o Note = t /\ Note[1] = "note"
  BY DEF Note
<1> QED
  BY <1>2, <1>3, <1>4 DEF Text, Last

LEMMA NoteInContentType ==
    ASSUME NEW r \in NormalizedResponse
    PROVE  /\ NoteInContent(r) \in NormalizedResponse
           /\ SameResponse(NoteInContent(r), r)
           /\ NoteInContent(r).choices = r.choices
           /\ NoteInContent(r).content = r.content \o Note
<1>1. r.content \in Text
  BY DEF NormalizedResponse
<1>2. r.content \o Note \in Text
  BY <1>1, LongerText
<1> QED
  BY <1>2 DEF NoteInContent, NormalizedResponse, SameResponse

(* A response with another text in its n-th choice.                        *)
LEMMA ChoiceSet ==
    ASSUME NEW r \in NormalizedResponse, NEW n \in DOMAIN r.choices, NEW text \in Text
    PROVE  /\ [r EXCEPT !.choices[n].text = text] \in NormalizedResponse
           /\ SameResponse([r EXCEPT !.choices[n].text = text], r)
           /\ [r EXCEPT !.choices[n].text = text].content = r.content
           /\ [r EXCEPT !.choices[n].text = text].choices[n].text = text
           /\ \A k \in DOMAIN r.choices : k # n =>
                 [r EXCEPT !.choices[n].text = text].choices[k] = r.choices[k]
<1> DEFINE c == [r.choices[n] EXCEPT !.text = text]
           choices == [r.choices EXCEPT ![n] = c]
           e == [r EXCEPT !.choices[n].text = text]
<1>1. r.choices \in Seq(Choice)
  BY DEF NormalizedResponse
<1>2. r.choices[n] \in Choice
  BY <1>1
<1>3. c \in Choice /\ c.reason = r.choices[n].reason /\ c.text = text
  BY <1>2, ChoiceEdited
<1>4. e = [r EXCEPT !.choices = choices]
  OBVIOUS
<1> HIDE DEF c
<1>5. /\ choices \in Seq(Choice) /\ DOMAIN choices = DOMAIN r.choices
      /\ choices[n] = c /\ \A k \in DOMAIN r.choices : k # n => choices[k] = r.choices[k]
  BY <1>1, <1>3
<1> HIDE DEF choices, e
<1>6. e \in NormalizedResponse
  BY <1>4, <1>5 DEF NormalizedResponse
<1>7. e.choices = choices /\ e.content = r.content /\ e.reason = r.reason
      /\ e.calls = r.calls
  BY <1>4 DEF NormalizedResponse
<1>8. SameResponse(e, r)
  BY <1>3, <1>5, <1>7 DEF SameResponse
<1> QED
  BY <1>3, <1>5, <1>6, <1>7, <1>8 DEF e

(* Reconciling the copies makes no text.                                   *)
LEMMA SyncedType ==
    ASSUME NEW r \in NormalizedResponse, NEW d \in NormalizedResponse
    PROVE  /\ Synced(r, d) \in NormalizedResponse
           /\ SameResponse(Synced(r, d), r)
           /\ \A texts : RepliesOnly(r, texts) => RepliesOnly(Synced(r, d), texts)
<1>1. r.choices \in Seq(Choice) /\ r.content \in Text
  BY DEF NormalizedResponse
<1>2. SameResponse(r, r)
  BY DEF SameResponse
<1>3. CASE Synced(r, d) = r
  BY <1>2, <1>3
<1>4. CASE r.choices # <<>> /\ Synced(r, d) = [r EXCEPT !.content = r.choices[1].text]
  <2> DEFINE text == r.choices[1].text
             e == [r EXCEPT !.content = text]
  <2>1. 1 \in DOMAIN r.choices /\ r.choices[1] \in Choice
    BY <1>1, <1>4
  <2>2. text \in Text
    BY <2>1 DEF Choice
  <2> HIDE DEF text
  <2>3. e \in NormalizedResponse
    BY <2>2 DEF NormalizedResponse
  <2>4. e.choices = r.choices /\ e.content = text /\ e.reason = r.reason
        /\ e.calls = r.calls
    BY DEF NormalizedResponse
  <2>5. SameResponse(e, r)
    BY <2>4 DEF SameResponse
  <2>6. \A texts : RepliesOnly(r, texts) => RepliesOnly(e, texts)
    BY <2>1, <2>4 DEF RepliesOnly, text
  <2>7. Synced(r, d) = e
    BY <1>4 DEF text
  <2> QED
    BY <2>3, <2>5, <2>6, <2>7
<1>5. CASE r.choices # <<>> /\ Synced(r, d) = [r EXCEPT !.choices[1].text = r.content]
  <2> DEFINE e == [r EXCEPT !.choices[1].text = r.content]
  <2>1. 1 \in DOMAIN r.choices
    BY <1>1, <1>5
  <2>2. /\ e \in NormalizedResponse /\ SameResponse(e, r) /\ e.content = r.content
        /\ e.choices[1].text = r.content
        /\ \A k \in DOMAIN r.choices : k # 1 => e.choices[k] = r.choices[k]
    BY <1>1, <2>1, ChoiceSet
  <2> HIDE DEF e
  <2>3. DOMAIN e.choices = DOMAIN r.choices
    BY <2>2 DEF SameResponse
  <2>4. \A texts : RepliesOnly(r, texts) => RepliesOnly(e, texts)
    BY <2>2, <2>3 DEF RepliesOnly
  <2>5. Synced(r, d) = e
    BY <1>5 DEF e
  <2> QED
    BY <2>2, <2>4, <2>5
<1>6. \/ Synced(r, d) = r
      \/ r.choices # <<>> /\ Synced(r, d) = [r EXCEPT !.content = r.choices[1].text]
      \/ r.choices # <<>> /\ Synced(r, d) = [r EXCEPT !.choices[1].text = r.content]
  BY DEF Synced
<1> QED
  BY <1>3, <1>4, <1>5, <1>6

LEMMA SameResponseAgain ==
    ASSUME NEW r, NEW s, NEW q, SameResponse(r, s), SameResponse(s, q)
    PROVE  SameResponse(r, q)
BY DEF SameResponse

-----------------------------------------------------------------------------
(* What the client's body and the backend's answer are decoded to.         *)
Asked(x) ==
    CASE x.kind = "completion" -> DecodeCompletionRequest(x.body)
      [] x.kind # "completion" /\ x.client = "openai" -> DecodeChatRequest(x.body)
      [] OTHER -> DecodeMessagesRequest(x.body)

Told(x) ==
    CASE x.kind = "completion" -> DecodeCompletionResponse(x.answer)
      [] x.kind # "completion" /\ x.backend = "openai" -> DecodeChatResponse(x.answer)
      [] OTHER -> DecodeMessagesResponse(x.answer)

LEMMA ExchangeType ==
    ASSUME NEW x \in Exchanges
    PROVE  /\ x.kind \in {"chat", "completion"}
           /\ x.client \in {"openai", "anthropic"} /\ x.backend \in {"openai", "anthropic"}
           /\ x.kind = "completion" =>
                 /\ x.client = "openai" /\ x.backend = "openai"
                 /\ x.body \in CompletionRequest /\ x.answer \in CompletionResponse
           /\ x.kind = "chat" /\ x.client = "openai" => x.body \in ChatRequest
           /\ x.kind = "chat" /\ x.client = "anthropic" => x.body \in MessagesRequest
           /\ x.kind = "chat" /\ x.backend = "openai" => x.answer \in ChatResponse
           /\ x.kind = "chat" /\ x.backend = "anthropic" => x.answer \in MessagesResponse
           /\ x.pre \in Seq(PreHook) /\ x.post \in Seq(PostHook)
BY TranslationAssumption DEF Protocols

LEMMA AskedType ==
    ASSUME NEW x \in Exchanges
    PROVE  Asked(x) \in NormalizedRequest
<1>1. CASE x.kind = "completion"
  BY <1>1, ExchangeType, CompletionRequestType DEF Asked
<1>2. CASE x.kind = "chat" /\ x.client = "openai"
  BY <1>2, ExchangeType, ChatRequestType DEF Asked
<1>3. CASE x.kind = "chat" /\ x.client = "anthropic"
  BY <1>3, ExchangeType, MessagesRequestType DEF Asked
<1> QED
  BY <1>1, <1>2, <1>3, ExchangeType

LEMMA ToldType ==
    ASSUME NEW x \in Exchanges
    PROVE  Told(x) \in NormalizedResponse
<1>1. CASE x.kind = "completion"
  BY <1>1, ExchangeType, CompletionResponseType DEF Told
<1>2. CASE x.kind = "chat" /\ x.backend = "openai"
  BY <1>2, ExchangeType, ChatResponseType DEF Told
<1>3. CASE x.kind = "chat" /\ x.backend = "anthropic"
  BY <1>3, ExchangeType, MessagesResponseType DEF Told
<1> QED
  BY <1>1, <1>2, <1>3, ExchangeType

-----------------------------------------------------------------------------
(* The types, and how far the hooks of the stage have run.                 *)
TypeInv ==
    /\ exchange \in Exchanges
    /\ request \in NormalizedRequest
    /\ response \in NormalizedResponse /\ before \in NormalizedResponse
    /\ phase \in {"body", "pre", "sent", "post", "encode", "answered", "refused"}
    /\ ran \in Nat
    /\ phase \in {"body", "sent"} => ran = 0
    /\ phase \in {"pre", "refused"} => ran <= Len(pre) \/ ran <= Len(post)
    /\ phase = "pre" => ran <= Len(pre)
    /\ phase \in {"post", "encode", "answered"} => ran <= Len(post)

(* A request differs from the client's in its texts only, and a modifier   *)
(* set upon everything has just left none of what it replaces.             *)
RequestInv ==
    /\ phase # "body" => SameRequest(request, Asked(exchange))
    /\ phase = "pre" /\ ran > 0 /\ pre[ran].target = "all" =>
          SaysOnly(request, CleanTexts(pre[ran].replacements))

(* The same of the response; without hooks it is the backend's.            *)
ResponseInv ==
    /\ phase \in {"post", "encode"} =>
          /\ SameResponse(response, Told(exchange))
          /\ post = <<>> => response = Told(exchange)
    /\ phase = "post" => before = Told(exchange)
    /\ phase \in {"post", "encode"} /\ ran > 0 /\ post[ran].edits = "all" =>
          RepliesOnly(response, CleanTexts(post[ran].replacements))
    /\ phase = "encode" => ran = Len(post)

(* Nothing is said before it is decided.                                   *)
SilenceInv ==
    /\ forwarded # NoBody => phase \notin {"body", "pre"}
    /\ reply # NoBody => phase = "answered"

ExchangeInv == TypeInv /\ RequestInv /\ ResponseInv /\ SilenceInv

LEMMA ExchangeInit == Init => ExchangeInv
<1> SUFFICES ASSUME Init PROVE ExchangeInv
  OBVIOUS
<1>1. /\ exchange \in Exchanges /\ phase = "body" /\ ran = 0
      /\ request = PlainRequest("chat") /\ response = NoResponse /\ before = NoResponse
      /\ forwarded = NoBody /\ reply = NoBody
  BY DEF Init
<1>2. PlainRequest("chat") \in NormalizedRequest
  BY PlainType DEF EndpointKinds
<1>3. TypeInv
  BY <1>1, <1>2, NoResponseType DEF TypeInv
<1>4. RequestInv /\ ResponseInv /\ SilenceInv
  BY <1>1 DEF RequestInv, ResponseInv, SilenceInv
<1> QED
  BY <1>3, <1>4 DEF ExchangeInv

LEMMA DecodeRequestKeeps ==
    ASSUME ExchangeInv, DecodeRequest
    PROVE  ExchangeInv'
<1>1. /\ phase = "body" /\ phase' = "pre" /\ exchange \in Exchanges /\ ran = 0
      /\ UNCHANGED <<exchange, ran, forwarded, response, before, reply>>
      /\ request' = Asked(exchange)
  BY DEF DecodeRequest, ExchangeInv, TypeInv, Asked, IsCompletion
<1>2. request' \in NormalizedRequest
  BY <1>1, AskedType
<1>3. pre \in Seq(PreHook) /\ post \in Seq(PostHook)
  BY <1>1, ExchangeType DEF pre, post
<1>4. TypeInv'
  BY <1>1, <1>2, <1>3 DEF ExchangeInv, TypeInv, pre, post
<1>5. SameRequest(request', request')
  BY DEF SameRequest, SameMessage
<1>6. RequestInv'
  BY <1>1, <1>5 DEF RequestInv
<1>7. ResponseInv'
  BY <1>1 DEF ResponseInv
<1>8. SilenceInv'
  BY <1>1 DEF ExchangeInv, SilenceInv
<1> QED
  BY <1>4, <1>6, <1>7, <1>8 DEF ExchangeInv

LEMMA PreRequestHookKeeps ==
    ASSUME ExchangeInv, PreRequestHook
    PROVE  ExchangeInv'
<1> DEFINE h == pre[ran + 1]
<1>1. /\ phase = "pre" /\ phase' = "pre" /\ exchange \in Exchanges /\ ran \in Nat
      /\ ran < Len(pre) /\ ran' = ran + 1
      /\ UNCHANGED <<exchange, forwarded, response, before, reply>>
      /\ request \in NormalizedRequest
  BY DEF PreRequestHook, ExchangeInv, TypeInv
<1>2. pre \in Seq(PreHook) /\ post \in Seq(PostHook) /\ pre' = pre /\ post' = post
  BY <1>1, ExchangeType DEF pre, post
<1>3. h \in PreHook
  BY <1>1, <1>2
<1>4. h.replacements \in Modifications
  BY <1>3 DEF PreHook
<1>5. PICK orders \in [0..Len(request.messages) -> Orders(h.replacements)] :
         request' = EditRequest(request, h.target, orders)
  BY DEF PreRequestHook
<1>6. /\ request' \in NormalizedRequest /\ SameRequest(request', request)
      /\ h.target = "all" => SaysOnly(request', CleanTexts(h.replacements))
  <2> HIDE DEF h
  <2> QED
    BY <1>1, <1>4, <1>5, EditRequestType
<1>7. TypeInv'
  BY <1>1, <1>2, <1>6 DEF ExchangeInv, TypeInv
<1>8. SameRequest(request, Asked(exchange))
  BY <1>1 DEF ExchangeInv, RequestInv
<1>9. SameRequest(request', Asked(exchange))
  BY <1>6, <1>8, SameRequestAgain
<1>10. RequestInv'
  BY <1>1, <1>2, <1>6, <1>9 DEF RequestInv
<1>11. ResponseInv'
  BY <1>1 DEF ResponseInv
<1>12. SilenceInv'
  BY <1>1 DEF ExchangeInv, SilenceInv
<1> QED
  BY <1>7, <1>10, <1>11, <1>12 DEF ExchangeInv

LEMMA SendingKeeps ==
    ASSUME ExchangeInv, RefuseRequest \/ Send
    PROVE  ExchangeInv'
<1>1. /\ phase = "pre" /\ exchange \in Exchanges /\ ran \in Nat /\ ran = Len(pre)
      /\ UNCHANGED <<exchange, request, response, before, reply>>
      /\ \/ phase' = "refused" /\ UNCHANGED <<ran, forwarded>>
         \/ phase' = "sent" /\ ran' = 0
  BY DEF RefuseRequest, Send, ExchangeInv, TypeInv
<1>2. pre \in Seq(PreHook) /\ post \in Seq(PostHook) /\ pre' = pre /\ post' = post
  BY <1>1, ExchangeType DEF pre, post
<1>3. TypeInv'
  BY <1>1, <1>2 DEF ExchangeInv, TypeInv
<1>4. RequestInv'
  BY <1>1 DEF ExchangeInv, RequestInv
<1>5. ResponseInv'
  BY <1>1 DEF ResponseInv
<1>6. SilenceInv'
  BY <1>1 DEF ExchangeInv, SilenceInv
<1> QED
  BY <1>3, <1>4, <1>5, <1>6 DEF ExchangeInv

LEMMA ReceiveKeeps ==
    ASSUME ExchangeInv, Receive
    PROVE  ExchangeInv'
<1>1. /\ phase = "sent" /\ phase' = "post" /\ exchange \in Exchanges /\ ran = 0
      /\ UNCHANGED <<exchange, ran, request, forwarded, reply>>
      /\ response' = Told(exchange) /\ before' = response'
  BY DEF Receive, ExchangeInv, TypeInv, Told, IsCompletion
<1>2. response' \in NormalizedResponse
  BY <1>1, ToldType
<1>3. pre \in Seq(PreHook) /\ post \in Seq(PostHook) /\ pre' = pre /\ post' = post
  BY <1>1, ExchangeType DEF pre, post
<1>4. TypeInv'
  BY <1>1, <1>2, <1>3 DEF ExchangeInv, TypeInv
<1>5. RequestInv'
  BY <1>1 DEF ExchangeInv, RequestInv
<1>6. SameResponse(response', response')
  BY DEF SameResponse
<1>7. ResponseInv'
  BY <1>1, <1>6 DEF ResponseInv
<1>8. SilenceInv'
  BY <1>1 DEF ExchangeInv, SilenceInv
<1> QED
  BY <1>4, <1>5, <1>7, <1>8 DEF ExchangeInv

(* What one hook makes of a response.                                      *)
LEMMA HookEdits ==
    ASSUME ExchangeInv, PostResponseHook
    PROVE  /\ response' \in NormalizedResponse /\ SameResponse(response', response)
           /\ post[ran + 1] \in PostHook
           /\ post[ran + 1].edits = "all" =>
                 RepliesOnly(response', CleanTexts(post[ran + 1].replacements))
           /\ post[ran + 1].edits = "content" => response' = NoteInContent(response)
           /\ post[ran + 1].edits = "choice" =>
                 \/ response.choices = <<>> /\ response' = response
                 \/ \E n \in DOMAIN response.choices :
                       response' = NoteInChoice(response, n)
<1> DEFINE h == post[ran + 1]
<1>1. /\ exchange \in Exchanges /\ ran \in Nat /\ ran < Len(post)
      /\ response \in NormalizedResponse
  BY DEF PostResponseHook, ExchangeInv, TypeInv
<1>2. post \in Seq(PostHook)
  BY <1>1, ExchangeType DEF post
<1>3. h \in PostHook
  BY <1>1, <1>2
<1>4. h.replacements \in Modifications /\ h.edits \in {"all", "content", "choice"}
  BY <1>3 DEF PostHook
<1>5. CASE h.edits = "all"
  <2>1. PICK order \in Orders(h.replacements) : response' = EditResponse(response, order)
    BY <1>5 DEF PostResponseHook
  <2> HIDE DEF h
  <2>2. /\ response' \in NormalizedResponse /\ SameResponse(response', response)
        /\ RepliesOnly(response', CleanTexts(h.replacements))
    BY <1>1, <1>4, <2>1, EditResponseType
  <2> QED
    BY <1>3, <1>5, <2>2 DEF h
<1>6. CASE h.edits = "content"
  <2>1. response' = NoteInContent(response)
    BY <1>6 DEF PostResponseHook
  <2>2. response' \in NormalizedResponse /\ SameResponse(response', response)
    BY <1>1, <2>1, NoteInContentType
  <2> QED
    BY <1>3, <1>6, <2>1, <2>2
<1>7. CASE h.edits = "choice"
  <2>1. \/ response.choices = <<>> /\ response' = response
        \/ \E n \in DOMAIN response.choices : response' = NoteInChoice(response, n)
    BY <1>7 DEF PostResponseHook
  <2>2. CASE response' = response
    <3>1. SameResponse(response', response)
      BY <2>2 DEF SameResponse
    <3> QED
      BY <1>1, <1>3, <1>7, <2>1, <2>2, <3>1
  <2>3. CASE \E n \in DOMAIN response.choices : response' = NoteInChoice(response, n)
    <3>1. PICK n \in DOMAIN response.choices : response' = NoteInChoice(response, n)
      BY <2>3
    <3> DEFINE text == response.choices[n].text \o Note
    <3>2. response.choices[n] \in Choice
      BY <1>1, <3>1 DEF NormalizedResponse
    <3>3. response.choices[n].text \in Text
      BY <3>2 DEF Choice
    <3>4. text \in Text
      BY <3>3, LongerText
    <3>5. response' = [response EXCEPT !.choices[n].text = text]
      BY <3>1 DEF NoteInChoice
    <3> HIDE DEF text
    <3>6. response' \in NormalizedResponse /\ SameResponse(response', response)
      BY <1>1, <3>1, <3>4, <3>5, ChoiceSet
    <3> QED
      BY <1>3, <1>7, <2>1, <3>6
  <2> QED
    BY <2>1, <2>2, <2>3
<1> QED
  BY <1>4, <1>5, <1>6, <1>7

LEMMA PostResponseHookKeeps ==
    ASSUME ExchangeInv, PostResponseHook
    PROVE  ExchangeInv'
<1>1. /\ phase = "post" /\ phase' = "post" /\ exchange \in Exchanges /\ ran \in Nat
      /\ ran < Len(post) /\ ran' = ran + 1
      /\ UNCHANGED <<exchange, request, forwarded, before, reply>>
  BY DEF PostResponseHook, ExchangeInv, TypeInv
<1>2. pre \in Seq(PreHook) /\ post \in Seq(PostHook) /\ pre' = pre /\ post' = post
  BY <1>1, ExchangeType DEF pre, post
<1>3. /\ response' \in NormalizedResponse /\ SameResponse(response', response)
      /\ post[ran + 1].edits = "all" =>
            RepliesOnly(response', CleanTexts(post[ran + 1].replacements))
  BY HookEdits
<1>4. TypeInv'
  BY <1>1, <1>2, <1>3 DEF ExchangeInv, TypeInv
<1>5. RequestInv'
  BY <1>1 DEF ExchangeInv, RequestInv
<1>6. SameResponse(response, Told(exchange)) /\ before = Told(exchange)
  BY <1>1 DEF ExchangeInv, ResponseInv
<1>7. SameResponse(response', Told(exchange))
  BY <1>3, <1>6, SameResponseAgain
<1>8. post # <<>>
  BY <1>1, <1>2
<1>9. ResponseInv'
  BY <1>1, <1>2, <1>3, <1>6, <1>7, <1>8 DEF ResponseInv
<1>10. SilenceInv'
  BY <1>1 DEF ExchangeInv, SilenceInv
<1> QED
  BY <1>4, <1>5, <1>9, <1>10 DEF ExchangeInv

LEMMA SyncKeeps ==
    ASSUME ExchangeInv, Sync
    PROVE  ExchangeInv'
<1>1. /\ phase = "post" /\ phase' = "encode" /\ exchange \in Exchanges /\ ran \in Nat
      /\ ran = Len(post)
      /\ UNCHANGED <<exchange, ran, request, forwarded, before, reply>>
      /\ response' = IF post = <<>> THEN response ELSE Synced(response, before)
      /\ response \in NormalizedResponse /\ before \in NormalizedResponse
  BY DEF Sync, ExchangeInv, TypeInv
<1>2. pre \in Seq(PreHook) /\ post \in Seq(PostHook) /\ pre' = pre /\ post' = post
  BY <1>1, ExchangeType DEF pre, post
<1>3. /\ response' \in NormalizedResponse /\ SameResponse(response', response)
      /\ \A texts : RepliesOnly(response, texts) => RepliesOnly(response', texts)
  <2>1. CASE post = <<>>
    BY <1>1, <2>1 DEF SameResponse
  <2>2. CASE post # <<>>
    BY <1>1, <2>2, SyncedType
  <2> QED
    BY <2>1, <2>2
<1>4. TypeInv'
  BY <1>1, <1>2, <1>3 DEF ExchangeInv, TypeInv
<1>5. RequestInv'
  BY <1>1 DEF ExchangeInv, RequestInv
<1>6. /\ SameResponse(response, Told(exchange))
      /\ post = <<>> => response = Told(exchange)
      /\ ran > 0 /\ post[ran].edits = "all" =>
            RepliesOnly(response, CleanTexts(post[ran].replacements))
  BY <1>1 DEF ExchangeInv, ResponseInv
<1>7. SameResponse(response', Told(exchange))
  BY <1>3, <1>6, SameResponseAgain
<1>8. ResponseInv'
  BY <1>1, <1>2, <1>3, <1>6, <1>7 DEF ResponseInv
<1>9. SilenceInv'
  BY <1>1 DEF ExchangeInv, SilenceInv
<1> QED
  BY <1>4, <1>5, <1>8, <1>9 DEF ExchangeInv

LEMMA ReplyingKeeps ==
    ASSUME ExchangeInv, RefuseReply \/ Reply
    PROVE  ExchangeInv'
<1>1. /\ phase = "encode" /\ exchange \in Exchanges
      /\ UNCHANGED <<exchange, ran, request, forwarded, response, before>>
      /\ \/ phase' = "refused" /\ UNCHANGED reply
         \/ phase' = "answered"
  BY DEF RefuseReply, Reply, ExchangeInv, TypeInv
<1>2. TypeInv'
  BY <1>1 DEF ExchangeInv, TypeInv, pre, post
<1>3. RequestInv'
  BY <1>1 DEF ExchangeInv, RequestInv
<1>4. ResponseInv'
  BY <1>1 DEF ResponseInv
<1>5. SilenceInv'
  BY <1>1 DEF ExchangeInv, SilenceInv
<1> QED
  BY <1>2, <1>3, <1>4, <1>5 DEF ExchangeInv

LEMMA ExchangeStays ==
    ASSUME ExchangeInv, UNCHANGED vars
    PROVE  ExchangeInv'
BY DEF vars, ExchangeInv, TypeInv, RequestInv, ResponseInv, SilenceInv, pre, post

LEMMA ExchangeNext == ExchangeInv /\ [Next]_vars => ExchangeInv'
<1> SUFFICES ASSUME ExchangeInv, [Next]_vars PROVE ExchangeInv'
  OBVIOUS
<1>1. CASE DecodeRequest
  BY <1>1, DecodeRequestKeeps
<1>2. CASE PreRequestHook
  BY <1>2, PreRequestHookKeeps
<1>3. CASE RefuseRequest \/ Send
  BY <1>3, SendingKeeps
<1>4. CASE Receive
  BY <1>4, ReceiveKeeps
<1>5. CASE PostResponseHook
  BY <1>5, PostResponseHookKeeps
<1>6. CASE Sync
  BY <1>6, SyncKeeps
<1>7. CASE RefuseReply \/ Reply
  BY <1>7, ReplyingKeeps
<1>8. CASE UNCHANGED vars
  BY <1>8, ExchangeStays
<1> QED
  BY <1>1, <1>2, <1>3, <1>4, <1>5, <1>6, <1>7, <1>8 DEF Next, Terminated

LEMMA ExchangeInvariant == Spec => []ExchangeInv
BY ExchangeInit, ExchangeNext, PTL DEF Spec

(* A request and a response are always ones of pipeline/model.go, and no   *)
(* hook is run that is not there.                                          *)
THEOREM TypeCorrect == Spec => []TypeOK
<1>1. ASSUME ExchangeInv PROVE TypeOK
  <2>1. /\ exchange \in Exchanges /\ ran \in Nat /\ request \in NormalizedRequest
        /\ response \in NormalizedResponse /\ before \in NormalizedResponse
        /\ phase \in {"body", "pre", "sent", "post", "encode", "answered", "refused"}
    BY <1>1 DEF ExchangeInv, TypeInv
  <2>2. Len(pre) \in Nat /\ Len(post) \in Nat
    BY <2>1, ExchangeType DEF pre, post
  <2>3. ran = 0 \/ ran <= Len(pre) \/ ran <= Len(post)
    BY <1>1, <2>1 DEF ExchangeInv, TypeInv
  <2>4. ran \in 0..(Len(pre) + Len(post))
    BY <2>1, <2>2, <2>3
  <2> QED
    BY <2>1, <2>4 DEF TypeOK
<1> QED
  BY <1>1, ExchangeInvariant, PTL

LEMMA OthersAreSome ==
    ASSUME NEW A, NEW s \in Seq(A), NEW n \in DOMAIN Those(s, IsNotSystem)
    PROVE  \E k \in DOMAIN s : s[k] = Those(s, IsNotSystem)[n]
<1> DEFINE R == {s[k] : k \in DOMAIN s}
           others == Those(s, IsNotSystem)
<1>1. s \in Seq(R)
  <2>1. s \in [1..Len(s) -> R] /\ Len(s) \in Nat
    OBVIOUS
  <2> QED
    BY <2>1
<1>2. others \in Seq({m \in R : m.role # "system"})
  <2> HIDE DEF R
  <2> QED
    BY <1>1, OthersType
<1>3. others[n] \in R
  <2> HIDE DEF R, others
  <2>1. n \in DOMAIN others
    BY DEF others
  <2> QED
    BY <1>2, <2>1
<1> QED
  BY <1>3

(* A decoded request is broken where the body is.                          *)
LEMMA BrokenBody ==
    ASSUME NEW x \in Exchanges, x.kind = "chat",
           NEW n \in DOMAIN Asked(x).messages, IsBroken(Asked(x).messages[n].calls)
    PROVE  AsksBroken(x.client, x.body)
<1>1. CASE x.client = "anthropic"
  <2> DEFINE D == Decoded(AsksBroken("anthropic", x.body))
  <2>1. x.body \in MessagesRequest /\ Asked(x) = DecodeMessagesRequest(x.body)
    BY <1>1, ExchangeType DEF Asked
  <2>2. Asked(x).messages \in Seq(D)
    BY <2>1, MessagesRequestType
  <2>3. Asked(x).messages[n] \in D
    <3> HIDE DEF D
    <3> QED
      BY <2>2
  <2> QED
    BY <1>1, <2>3 DEF Decoded
<1>2. CASE x.client = "openai"
  <2> DEFINE b == x.body
             others == Those(b.messages, IsNotSystem)
  <2>1. b \in ChatRequest /\ Asked(x) = DecodeChatRequest(b)
    BY <1>2, ExchangeType DEF Asked
  <2>2. b.messages \in Seq(OpenAIMessage)
    BY <2>1 DEF ChatRequest
  <2>3. Asked(x).messages = DecodeOpenAIMessages(b.messages)
    BY <2>1, PlainType DEF DecodeChatRequest, NormalizedRequest, PlainRequest
  <2>4. DecodeOpenAIMessages(b.messages) =
           [k \in DOMAIN others |-> DecodeMessage(others[k])]
    BY DEF DecodeOpenAIMessages
  <2> HIDE DEF others
  <2>5. n \in DOMAIN others /\ Asked(x).messages[n] = DecodeMessage(others[n])
    BY <2>3, <2>4
  <2>6. Asked(x).messages[n].calls = others[n].calls
    BY <2>5 DEF DecodeMessage
  <2>7. \E k \in DOMAIN b.messages : b.messages[k] = others[n]
    BY <2>2, <2>5, OthersAreSome DEF others
  <2> QED
    BY <1>2, <2>6, <2>7 DEF AsksBroken
<1> QED
  BY <1>1, <1>2, ExchangeType

LEMMA ChosenNone ==
    ASSUME NEW x \in Exchanges, x.kind = "chat", Asked(x).choice = "none"
    PROVE  x.body.choice = "none"
<1>1. CASE x.client = "anthropic"
  BY <1>1, ExchangeType, MessagesRequestType DEF Asked
<1>2. CASE x.client = "openai"
  <2>1. Asked(x) = DecodeChatRequest(x.body)
    BY <1>2, ExchangeType DEF Asked
  <2>2. Asked(x).choice = DecodeOpenAIChoice(x.body.choice)
    BY <2>1 DEF DecodeChatRequest, PlainRequest
  <2> QED
    BY <2>2 DEF DecodeOpenAIChoice
<1> QED
  BY <1>1, <1>2, ExchangeType

LEMMA BrokenAnswer ==
    ASSUME NEW x \in Exchanges, x.kind = "chat", IsBroken(Told(x).calls)
    PROVE  AnswersBroken(x.backend, x.answer)
<1>1. CASE x.backend = "anthropic"
  BY <1>1, ExchangeType, MessagesResponseType DEF Told
<1>2. CASE x.backend = "openai"
  <2> DEFINE choices == x.answer.choices
  <2>1. Told(x) = DecodeChatResponse(x.answer) /\ x.answer \in ChatResponse
    BY <1>2, ExchangeType DEF Told
  <2>2. choices # <<>>
    <3>1. x.answer.choices = <<>> => DecodeChatResponse(x.answer) = NoResponse
      BY DEF DecodeChatResponse, NoResponse
    <3>3. NoResponse.calls = <<>>
      BY DEF NoResponse
    <3>2. ~IsBroken(<<>>)
      BY DEF IsBroken
    <3> QED
      BY <2>1, <3>1, <3>2, <3>3
  <2>3. Told(x).calls = Head(choices).calls
    BY <2>1, <2>2 DEF DecodeChatResponse
  <2>4. 1 \in DOMAIN choices /\ Head(choices) = choices[1]
    BY <2>1, <2>2 DEF ChatResponse
  <2> QED
    BY <1>2, <2>3, <2>4 DEF AnswersBroken
<1> QED
  BY <1>1, <1>2, ExchangeType

(* No client is refused but for arguments that are not JSON and for the    *)
(* choice to use no tool, and that only where they would have to be said   *)
(* in Anthropic's protocol.                                                *)
THEOREM RefusalsHaveACause == Spec => []RefusedForCause
<1>1. Init => RefusedForCause
  BY DEF Init, RefusedForCause
<1>2. ExchangeInv /\ RefusedForCause /\ [Next]_vars => RefusedForCause'
  <2> SUFFICES ASSUME ExchangeInv, RefusedForCause, [Next]_vars PROVE RefusedForCause'
    OBVIOUS
  <2>0. exchange \in Exchanges
    BY DEF ExchangeInv, TypeInv
  <2>1. CASE RefuseRequest
    <3>1. /\ phase = "pre" /\ exchange' = exchange /\ exchange.backend = "anthropic"
          /\ CannotEncodeRequest(request)
      BY <2>1 DEF RefuseRequest, CannotSend
    <3>2. exchange.kind = "chat"
      BY <2>0, <3>1, ExchangeType
    <3>3. SameRequest(request, Asked(exchange))
      BY <3>1 DEF ExchangeInv, RequestInv
    <3>4. CASE request.choice = "none"
      <4>1. exchange.body.choice = "none"
        BY <2>0, <3>2, <3>3, <3>4, ChosenNone DEF SameRequest
      <4> QED
        BY <3>1, <4>1 DEF RefusedForCause
    <3>5. CASE \E n \in DOMAIN request.messages : IsBroken(request.messages[n].calls)
      <4>1. PICK n \in DOMAIN request.messages : IsBroken(request.messages[n].calls)
        BY <3>5
      <4>2. n \in DOMAIN Asked(exchange).messages
            /\ IsBroken(Asked(exchange).messages[n].calls)
        BY <3>3, <4>1 DEF SameRequest, SameMessage
      <4>3. AsksBroken(exchange.client, exchange.body)
        BY <2>0, <3>2, <4>2, BrokenBody
      <4> QED
        BY <3>1, <4>3 DEF RefusedForCause
    <3> QED
      BY <3>1, <3>4, <3>5 DEF CannotEncodeRequest
  <2>2. CASE RefuseReply
    <3>1. /\ phase = "encode" /\ exchange' = exchange /\ exchange.client = "anthropic"
          /\ IsBroken(response.calls)
      BY <2>2 DEF RefuseReply, CannotReply
    <3>2. exchange.kind = "chat"
      BY <2>0, <3>1, ExchangeType
    <3>3. response.calls = Told(exchange).calls
      BY <3>1 DEF ExchangeInv, ResponseInv, SameResponse
    <3>4. AnswersBroken(exchange.backend, exchange.answer)
      BY <2>0, <3>1, <3>2, <3>3, BrokenAnswer
    <3> QED
      BY <3>1, <3>4 DEF RefusedForCause
  <2>3. CASE UNCHANGED vars
    BY <2>3 DEF RefusedForCause, vars
  <2>4. CASE phase' # "refused"
    BY <2>4 DEF RefusedForCause
  <2>5. CASE DecodeRequest \/ PreRequestHook \/ Send \/ Receive \/ PostResponseHook
                 \/ Sync \/ Reply
    <3>1. phase' # "refused"
      BY <2>5 DEF DecodeRequest, PreRequestHook, Send, Receive, PostResponseHook,
                  Sync, Reply
    <3> QED
      BY <2>4, <3>1
  <2> QED
    BY <2>1, <2>2, <2>3, <2>5 DEF Next, Terminated
<1> QED
  BY <1>1, <1>2, ExchangeInvariant, PTL DEF Spec

OnlyEdit(copy) == \A n \in DOMAIN post : post[n].edits = copy

IsNoted(text) == text # <<>> /\ Last(text) = Note[1]

(* The choice at n has a note that it had not before the hooks.            *)
IsNewlyNoted(n) ==
    /\ n \in DOMAIN response.choices /\ IsNoted(response.choices[n].text)
    /\ Len(response.choices[n].text) > Len(before.choices[n].text)

(* While hooks edit one copy of the text, the other stays; that the edited *)
(* copy is longer than it was is what makes the reconciliation notice it.  *)
NoteInv ==
    /\ phase = "post" /\ OnlyEdit("content") =>
          /\ response.choices = before.choices
          /\ ran > 0 => /\ IsNoted(response.content)
                        /\ Len(response.content) > Len(before.content)
          /\ ran = 0 => response.content = before.content
    /\ phase = "post" /\ OnlyEdit("choice") =>
          /\ response.content = before.content
          /\ \A n \in DOMAIN response.choices :
                Len(response.choices[n].text) >= Len(before.choices[n].text)
          /\ ran > 0 /\ response.choices # <<>> => \E n \in Nat : IsNewlyNoted(n)
    /\ phase = "encode" /\ post # <<>> /\ OnlyEdit("content") =>
          /\ IsNoted(response.content)
          /\ response.choices # <<>> => IsNoted(response.choices[1].text)
    /\ phase = "encode" /\ post # <<>> /\ OnlyEdit("choice") /\ response.choices # <<>> =>
          \E n \in DOMAIN response.choices : IsNoted(response.choices[n].text)

LEMMA TextOfChoice ==
    ASSUME NEW r \in NormalizedResponse, NEW n \in DOMAIN r.choices
    PROVE  r.choices[n].text \in Text /\ Len(r.choices[n].text) \in Nat
<1>1. r.choices \in Seq(Choice)
  BY DEF NormalizedResponse
<1>2. r.choices[n] \in Choice
  BY <1>1
<1> QED
  BY <1>2 DEF Choice, Text

LEMMA LongerAgain ==
    ASSUME NEW a \in Nat, NEW b \in Nat, NEW c, c = a + 1
    PROVE  c > a /\ (a >= b => c > b /\ c >= b) /\ (a > b => c > b)
OBVIOUS

LEMMA ReceiveNotes ==
    ASSUME ExchangeInv, Receive
    PROVE  NoteInv'
<1>1. phase' = "post" /\ response' = before' /\ ran' = 0
  BY DEF Receive, ExchangeInv, TypeInv
<1>2. before' \in NormalizedResponse
  BY ReceiveKeeps DEF ExchangeInv, TypeInv
<1>3. \A n \in DOMAIN before'.choices :
         before'.choices[n].text \in Text /\ Len(before'.choices[n].text) \in Nat
  BY <1>2, TextOfChoice
<1>4. \A n \in DOMAIN before'.choices :
         Len(before'.choices[n].text) >= Len(before'.choices[n].text)
  BY <1>3
<1> QED
  BY <1>1, <1>4 DEF NoteInv

LEMMA HookNotes ==
    ASSUME ExchangeInv, NoteInv, PostResponseHook
    PROVE  NoteInv'
<1> DEFINE h == post[ran + 1]
<1>1. /\ phase = "post" /\ phase' = "post" /\ ran \in Nat /\ ran < Len(post)
      /\ ran' = ran + 1 /\ exchange' = exchange /\ before' = before
      /\ exchange \in Exchanges
      /\ response \in NormalizedResponse /\ before \in NormalizedResponse
  BY DEF PostResponseHook, ExchangeInv, TypeInv
<1>2. post' = post /\ ran + 1 \in DOMAIN post
  BY <1>1, ExchangeType DEF post
<1>3. ran' > 0 /\ ran' # 0
  BY <1>1
<1>4. SameResponse(response, before)
  BY <1>1 DEF ExchangeInv, ResponseInv
<1>5. ASSUME OnlyEdit("content")
      PROVE  /\ response'.choices = before.choices
             /\ IsNoted(response'.content)
             /\ Len(response'.content) > Len(before.content)
  <2>1. response' = NoteInContent(response)
    BY <1>2, <1>5, HookEdits DEF OnlyEdit
  <2>2. /\ response'.choices = response.choices
        /\ response'.content = response.content \o Note
    BY <1>1, <2>1, NoteInContentType
  <2>3. response.choices = before.choices
        /\ (Len(response.content) > Len(before.content)
            \/ response.content = before.content)
    BY <1>1, <1>5 DEF NoteInv
  <2>4. response.content \in Text /\ before.content \in Text
    BY <1>1 DEF NormalizedResponse
  <2>5. Len(response.content) \in Nat /\ Len(before.content) \in Nat
    BY <2>4 DEF Text
  <2>6. /\ Len(response'.content) = Len(response.content) + 1
        /\ IsNoted(response'.content)
    BY <2>2, <2>4, LongerText DEF IsNoted
  <2>7. Len(response'.content) > Len(before.content)
    BY <2>3, <2>5, <2>6
  <2> QED
    BY <2>2, <2>3, <2>6, <2>7
<1>6. ASSUME OnlyEdit("choice")
      PROVE  /\ response'.content = before.content
             /\ \A n \in DOMAIN response'.choices :
                   Len(response'.choices[n].text) >= Len(before.choices[n].text)
             /\ response'.choices # <<>> =>
                   \E n \in Nat :
                      /\ n \in DOMAIN response'.choices
                      /\ IsNoted(response'.choices[n].text)
                      /\ Len(response'.choices[n].text) > Len(before.choices[n].text)
  <2>1. \/ response.choices = <<>> /\ response' = response
        \/ \E n \in DOMAIN response.choices : response' = NoteInChoice(response, n)
    BY <1>2, <1>6, HookEdits DEF OnlyEdit
  <2>2. /\ response.content = before.content
        /\ \A n \in DOMAIN response.choices :
              Len(response.choices[n].text) >= Len(before.choices[n].text)
    BY <1>1, <1>6 DEF NoteInv
  <2>3. CASE response.choices = <<>> /\ response' = response
    BY <2>2, <2>3
  <2>4. CASE \E n \in DOMAIN response.choices : response' = NoteInChoice(response, n)
    <3>1. PICK n \in DOMAIN response.choices : response' = NoteInChoice(response, n)
      BY <2>4
    <3> DEFINE text == response.choices[n].text \o Note
    <3>2. response.choices[n].text \in Text /\ Len(response.choices[n].text) \in Nat
      BY <1>1, <3>1, TextOfChoice
    <3>3. n \in DOMAIN before.choices
      BY <1>4, <3>1 DEF SameResponse
    <3>4. Len(before.choices[n].text) \in Nat
      BY <1>1, <3>3, TextOfChoice
    <3>5. text \in Text /\ Len(text) = Len(response.choices[n].text) + 1 /\ IsNoted(text)
      BY <3>2, LongerText DEF IsNoted
    <3>6. Len(text) > Len(before.choices[n].text)
          /\ Len(text) >= Len(before.choices[n].text)
      <4>1. Len(response.choices[n].text) >= Len(before.choices[n].text)
        BY <2>2, <3>1
      <4> QED
        BY <3>2, <3>4, <3>5, <4>1, LongerAgain
    <3>7. response' = [response EXCEPT !.choices[n].text = text]
      BY <3>1 DEF NoteInChoice
    <3> HIDE DEF text
    <3>8. /\ SameResponse(response', response)
          /\ response'.content = response.content
          /\ response'.choices[n].text = text
          /\ \A k \in DOMAIN response.choices : k # n =>
                response'.choices[k] = response.choices[k]
      BY <1>1, <3>1, <3>5, <3>7, ChoiceSet
    <3>9. DOMAIN response'.choices = DOMAIN response.choices
      BY <3>8 DEF SameResponse
    <3>10. n \in Nat
      BY <1>1, <3>1 DEF NormalizedResponse
    <3>11. \A k \in DOMAIN response'.choices :
              Len(response'.choices[k].text) >= Len(before.choices[k].text)
      BY <2>2, <3>6, <3>8, <3>9
    <3> QED
      BY <2>2, <3>1, <3>5, <3>6, <3>8, <3>9, <3>10, <3>11
  <2> QED
    BY <2>1, <2>3, <2>4
<1>7. (OnlyEdit("content"))' => OnlyEdit("content")
  BY <1>2 DEF OnlyEdit
<1>8. (OnlyEdit("choice"))' => OnlyEdit("choice")
  BY <1>2 DEF OnlyEdit
<1> QED
  BY <1>1, <1>3, <1>5, <1>6, <1>7, <1>8 DEF NoteInv, IsNewlyNoted

LEMMA SyncNotes ==
    ASSUME ExchangeInv, NoteInv, Sync
    PROVE  NoteInv'
<1>1. /\ phase = "post" /\ phase' = "encode" /\ ran = Len(post) /\ exchange' = exchange
      /\ response' = IF post = <<>> THEN response ELSE Synced(response, before)
      /\ exchange \in Exchanges
      /\ response \in NormalizedResponse /\ before \in NormalizedResponse
  BY DEF Sync, ExchangeInv, TypeInv
<1>2. post' = post /\ post \in Seq(PostHook)
  BY <1>1, ExchangeType DEF post
<1>3. SameResponse(response, before)
  BY <1>1 DEF ExchangeInv, ResponseInv
<1> SUFFICES ASSUME post # <<>> PROVE NoteInv'
  BY <1>1, <1>2 DEF NoteInv
<1>4. ran > 0 /\ response' = Synced(response, before)
  BY <1>1, <1>2
<1>5. ASSUME OnlyEdit("content")
      PROVE  /\ IsNoted(response'.content)
             /\ response'.choices # <<>> => IsNoted(response'.choices[1].text)
  <2>1. /\ response.choices = before.choices /\ IsNoted(response.content)
        /\ Len(response.content) > Len(before.content)
    BY <1>1, <1>4, <1>5 DEF NoteInv
  <2>2. response.content \in Text /\ before.content \in Text
    BY <1>1 DEF NormalizedResponse
  <2>3. response.content # before.content
    <3>1. Len(response.content) \in Nat /\ Len(before.content) \in Nat
      BY <2>2 DEF Text
    <3>2. \A a, b \in Nat : a > b => a # b
      OBVIOUS
    <3> QED
      BY <2>1, <3>1, <3>2
  <2>4. ~ChoicesChanged(response, before)
    BY <2>1 DEF ChoicesChanged
  <2>5. CASE response.choices = <<>>
    BY <1>4, <2>1, <2>5 DEF Synced
  <2>6. CASE response.choices # <<>>
    <3> DEFINE e == [response EXCEPT !.choices[1].text = response.content]
    <3>1. response' = e
      BY <1>4, <2>3, <2>4, <2>6 DEF Synced
    <3>2. 1 \in DOMAIN response.choices
      BY <1>1, <2>6 DEF NormalizedResponse
    <3>3. e.content = response.content /\ e.choices[1].text = response.content
      BY <1>1, <2>2, <3>2, ChoiceSet
    <3> HIDE DEF e
    <3> QED
      BY <2>1, <3>1, <3>3
  <2> QED
    BY <2>5, <2>6
<1>6. ASSUME OnlyEdit("choice"), response'.choices # <<>>
      PROVE  \E n \in DOMAIN response'.choices : IsNoted(response'.choices[n].text)
  <2>1. DOMAIN response'.choices = DOMAIN response.choices
    BY <1>1, <1>4, SyncedType DEF SameResponse
  <2>2. response.choices # <<>>
    BY <1>4, <1>6 DEF Synced
  <2>3. PICK n \in Nat : IsNewlyNoted(n)
    BY <1>1, <1>4, <1>6, <2>2 DEF NoteInv
  <2>4. n \in DOMAIN response.choices /\ n \in DOMAIN before.choices
    BY <1>3, <2>3 DEF IsNewlyNoted, SameResponse
  <2>5. response.choices[n].text # before.choices[n].text
    <3>1. Len(response.choices[n].text) \in Nat /\ Len(before.choices[n].text) \in Nat
      BY <1>1, <2>4, TextOfChoice
    <3>2. \A a, b \in Nat : a > b => a # b
      OBVIOUS
    <3> QED
      BY <2>3, <3>1, <3>2 DEF IsNewlyNoted
  <2>6. ChoicesChanged(response, before)
    BY <2>4, <2>5 DEF ChoicesChanged
  <2>7. response' = [response EXCEPT !.content = response.choices[1].text]
    BY <1>4, <2>2, <2>6 DEF Synced
  <2>8. response'.choices = response.choices
    BY <1>1, <2>7 DEF NormalizedResponse
  <2> QED
    BY <2>3, <2>4, <2>8 DEF IsNewlyNoted
<1>7. (OnlyEdit("content"))' => OnlyEdit("content")
  BY <1>2 DEF OnlyEdit
<1>8. (OnlyEdit("choice"))' => OnlyEdit("choice")
  BY <1>2 DEF OnlyEdit
<1> QED
  BY <1>1, <1>5, <1>6, <1>7, <1>8 DEF NoteInv

LEMMA NoteInit == Init => NoteInv
BY DEF Init, NoteInv

LEMMA NoteNext == ExchangeInv /\ NoteInv /\ [Next]_vars => NoteInv'
<1> SUFFICES ASSUME ExchangeInv, NoteInv, [Next]_vars PROVE NoteInv'
  OBVIOUS
<1>1. CASE Receive
  BY <1>1, ReceiveNotes
<1>2. CASE PostResponseHook
  BY <1>2, HookNotes
<1>3. CASE Sync
  BY <1>3, SyncNotes
<1>4. CASE DecodeRequest \/ PreRequestHook \/ RefuseRequest \/ Send \/ RefuseReply \/ Reply
  <2>1. phase' \notin {"post", "encode"}
    BY <1>4 DEF DecodeRequest, PreRequestHook, RefuseRequest, Send, RefuseReply, Reply
  <2> QED
    BY <2>1 DEF NoteInv
<1>5. CASE UNCHANGED vars
  BY <1>5 DEF vars, NoteInv, OnlyEdit, IsNewlyNoted, post
<1> QED
  BY <1>1, <1>2, <1>3, <1>4, <1>5 DEF Next, Terminated

LEMMA NoteInvariant == Spec => []NoteInv
BY NoteInit, NoteNext, ExchangeInvariant, PTL DEF Spec

(* What a completion says is what the response says.                       *)
LEMMA CompletionSays ==
    ASSUME NEW r \in NormalizedResponse
    PROVE  /\ r.choices = <<>> =>
                 EncodeCompletionResponse(r).choices
                    = <<[text |-> r.content, reason |-> OrStop(r.reason)]>>
           /\ r.choices # <<>> =>
                 /\ EncodeCompletionResponse(r).choices \in Seq(Choice)
                 /\ DOMAIN EncodeCompletionResponse(r).choices = DOMAIN r.choices
                 /\ \A n \in DOMAIN r.choices :
                      /\ EncodeCompletionResponse(r).choices[n].text = r.choices[n].text
                      /\ EncodeCompletionResponse(r).choices[n].reason
                            = OrStop(r.choices[n].reason)
<1>1. r.choices \in Seq(Choice)
  BY DEF NormalizedResponse
<1>2. ASSUME r.choices # <<>>
      PROVE  /\ EncodeCompletionResponse(r).choices \in Seq(Choice)
             /\ DOMAIN EncodeCompletionResponse(r).choices = DOMAIN r.choices
             /\ \A n \in DOMAIN r.choices :
                   /\ EncodeCompletionResponse(r).choices[n].text = r.choices[n].text
                   /\ EncodeCompletionResponse(r).choices[n].reason
                         = OrStop(r.choices[n].reason)
  <2> DEFINE C(n) == [r.choices[n] EXCEPT !.reason = OrStop(@)]
             cs == [n \in DOMAIN r.choices |-> C(n)]
  <2>1. EncodeCompletionResponse(r).choices = cs
    BY <1>2 DEF EncodeCompletionResponse
  <2>2. ASSUME NEW n \in DOMAIN r.choices
        PROVE  /\ C(n) \in Choice /\ C(n).text = r.choices[n].text
               /\ C(n).reason = OrStop(r.choices[n].reason)
    <3>1. r.choices[n] \in Choice
      BY <1>1
    <3>2. "stop" \in Reason
      BY DEF Reason
    <3> QED
      BY <3>1, <3>2 DEF Choice, OrStop
  <2>3. cs \in [DOMAIN r.choices -> Choice] /\ \A n \in DOMAIN r.choices : cs[n] = C(n)
    BY <2>2
  <2> HIDE DEF cs, C
  <2>4. cs \in Seq(Choice)
    BY <1>1, <2>3, SeqOnDomain
  <2> QED
    BY <2>1, <2>2, <2>3, <2>4
<1> QED
  BY <1>2 DEF EncodeCompletionResponse

(* Hooks that edit one copy of a completion's text see their note arrive.  *)
THEOREM EveryNoteArrives == Spec => []NotesArrive
<1>1. Init => NotesArrive
  BY DEF Init, NotesArrive
<1>2. ExchangeInv /\ NoteInv /\ NotesArrive /\ [Next]_vars => NotesArrive'
  <2> SUFFICES ASSUME ExchangeInv, NoteInv, NotesArrive, [Next]_vars PROVE NotesArrive'
    OBVIOUS
  <2>1. CASE Reply
    <3> SUFFICES ASSUME IsCompletion, post # <<>>
                 PROVE  /\ OnlyEdit("content") => EndsWithNote(reply'.choices[1])
                        /\ OnlyEdit("choice") /\ exchange.answer.choices # <<>> =>
                              \E c \in Range(reply'.choices) : EndsWithNote(c)
      BY <2>1 DEF Reply, NotesArrive, IsCompletion, post, OnlyEdit
    <3>1. /\ phase = "encode" /\ response \in NormalizedResponse
          /\ exchange \in Exchanges
          /\ reply' = EncodeCompletionResponse(response)
      BY <2>1 DEF Reply, ExchangeInv, TypeInv
    <3>2. ASSUME OnlyEdit("content") PROVE EndsWithNote(reply'.choices[1])
      <4>1. /\ IsNoted(response.content)
            /\ response.choices # <<>> => IsNoted(response.choices[1].text)
        BY <3>1, <3>2 DEF NoteInv
      <4>2. CASE response.choices = <<>>
        <5>1. reply'.choices
                 = <<[text |-> response.content, reason |-> OrStop(response.reason)]>>
          BY <3>1, <4>2, CompletionSays
        <5>2. reply'.choices[1].text = response.content
          BY <5>1
        <5> QED
          BY <4>1, <5>2 DEF EndsWithNote, IsNoted
      <4>3. CASE response.choices # <<>>
        <5>1. 1 \in DOMAIN response.choices
          BY <3>1, <4>3 DEF NormalizedResponse
        <5>2. reply'.choices[1].text = response.choices[1].text
          BY <3>1, <4>3, <5>1, CompletionSays
        <5> QED
          BY <4>1, <4>3, <5>2 DEF EndsWithNote, IsNoted
      <4> QED
        BY <4>2, <4>3
    <3>3. ASSUME OnlyEdit("choice"), exchange.answer.choices # <<>>
          PROVE  \E c \in Range(reply'.choices) : EndsWithNote(c)
      <4>1. Told(exchange).choices = exchange.answer.choices
        BY DEF Told, IsCompletion, DecodeCompletionResponse
      <4>2. DOMAIN response.choices = DOMAIN exchange.answer.choices
        BY <3>1, <4>1 DEF ExchangeInv, ResponseInv, SameResponse
      <4>3. exchange.answer.choices \in Seq(Choice)
        BY <3>1, ExchangeType DEF IsCompletion, CompletionResponse
      <4>4. 1 \in DOMAIN response.choices
        BY <3>3, <4>2, <4>3
      <4>5. response.choices # <<>>
        BY <4>4
      <4>6. PICK n \in DOMAIN response.choices : IsNoted(response.choices[n].text)
        BY <3>1, <3>3, <4>5 DEF NoteInv
      <4>7. /\ n \in DOMAIN reply'.choices
            /\ reply'.choices[n].text = response.choices[n].text
        BY <3>1, <4>5, <4>6, CompletionSays
      <4>8. EndsWithNote(reply'.choices[n])
        BY <4>6, <4>7 DEF EndsWithNote, IsNoted
      <4> QED
        BY <4>7, <4>8 DEF Range
    <3> QED
      BY <3>2, <3>3
  <2>3. CASE UNCHANGED <<exchange, reply>>
    BY <2>3 DEF NotesArrive, IsCompletion, post
  <2> QED
    BY <2>1, <2>3 DEF Next, Terminated, vars, DecodeRequest, PreRequestHook,
                      RefuseRequest, Send, Receive, PostResponseHook, Sync, RefuseReply
<1> QED
  BY <1>1, <1>2, ExchangeInvariant, NoteInvariant, PTL DEF Spec

LEMMA FlattenEmpty == FlattenSeq(<<>>) = <<>>
<1>1. <<>> \in Seq(Seq({}))
  OBVIOUS
<1>2. \A n \in 1..Len(<<>>) : <<>>[n] = <<>>
  OBVIOUS
<1> QED
  BY <1>1, <1>2, FlattenNone

LEMMA AfterNothing ==
    ASSUME NEW text \in Text
    PROVE  <<>> \o text = text /\ text \o <<>> = text
BY DEF Text

(* Blocks of another type are passed over.                                 *)
LEMMA NoneOfType ==
    ASSUME NEW blocks \in Seq(Block), NEW type,
           \A n \in DOMAIN blocks : blocks[n].type # type
    PROVE  OfType(type, blocks) = <<>>
<1> DEFINE f == [n \in DOMAIN blocks |->
                    IF blocks[n].type = type THEN <<blocks[n]>> ELSE <<>>]
<1>1. \A n \in DOMAIN blocks : f[n] = <<>>
  OBVIOUS
<1>2. f \in [DOMAIN blocks -> Seq({})] /\ DOMAIN f = DOMAIN blocks
  OBVIOUS
<1>3. OfType(type, blocks) = FlattenSeq(f)
  BY DEF OfType, Those
<1> HIDE DEF f
<1>4. f \in Seq(Seq({})) /\ DOMAIN f = 1..Len(f)
  BY <1>2, SeqOnDomain
<1>5. FlattenSeq(f) = <<>>
  BY <1>1, <1>2, <1>4, FlattenNone
<1> QED
  BY <1>3, <1>5

(* Blocks of the type are kept.                                            *)
LEMMA AllOfType ==
    ASSUME NEW blocks \in Seq(Block), NEW type,
           \A n \in DOMAIN blocks : blocks[n].type = type
    PROVE  OfType(type, blocks) = blocks
<1> DEFINE f == [n \in DOMAIN blocks |->
                    IF blocks[n].type = type THEN <<blocks[n]>> ELSE <<>>]
<1>1. f = [n \in DOMAIN blocks |-> <<blocks[n]>>]
  OBVIOUS
<1>2. OfType(type, blocks) = FlattenSeq(f)
  BY DEF OfType, Those
<1> HIDE DEF f
<1>3. FlattenSeq([n \in DOMAIN blocks |-> <<blocks[n]>>]) = blocks
  BY FlattenOnes
<1> QED
  BY <1>1, <1>2, <1>3

(* What FlattenSeq is given to keep the blocks of a type.                  *)
Sifted(type, s) == [n \in DOMAIN s |-> IF s[n].type = type THEN <<s[n]>> ELSE <<>>]

LEMMA SiftedIs ==
    ASSUME NEW A, NEW s \in Seq(A), NEW type
    PROVE  /\ Sifted(type, s) \in Seq(Seq(A)) /\ Len(Sifted(type, s)) = Len(s)
           /\ DOMAIN Sifted(type, s) = 1..Len(s)
           /\ \A n \in 1..Len(s) :
                 Sifted(type, s)[n] = IF s[n].type = type THEN <<s[n]>> ELSE <<>>
<1> DEFINE f == Sifted(type, s)
<1>1. \A n \in 1..Len(s) : f[n] = IF s[n].type = type THEN <<s[n]>> ELSE <<>>
  BY DEF Sifted
<1>2. f \in [DOMAIN s -> Seq(A)]
  BY DEF Sifted
<1> HIDE DEF f
<1>3. f \in Seq(Seq(A)) /\ Len(f) = Len(s) /\ DOMAIN f = 1..Len(s)
  BY <1>2, SeqOnDomain
<1> QED
  BY <1>1, <1>3 DEF f

LEMMA ConcatIs ==
    ASSUME NEW B, NEW f \in Seq(B), NEW g \in Seq(B), NEW u \in Seq(B),
           Len(u) = Len(f) + Len(g), \A n \in 1..Len(f) : u[n] = f[n],
           \A n \in 1..Len(g) : u[Len(f) + n] = g[n]
    PROVE  u = f \o g
<1>1. f \o g \in Seq(B) /\ Len(f \o g) = Len(u) /\ Len(f) \in Nat /\ Len(g) \in Nat
  OBVIOUS
<1>2. ASSUME NEW n \in 1..Len(u) PROVE u[n] = (f \o g)[n]
  <2>1. CASE n <= Len(f)
    BY <1>1, <2>1
  <2>2. CASE n > Len(f)
    <3>1. n - Len(f) \in 1..Len(g) /\ Len(f) + (n - Len(f)) = n
      BY <1>1, <2>2
    <3>2. (f \o g)[n] = g[n - Len(f)]
      BY <1>1, <2>2
    <3>3. u[Len(f) + (n - Len(f))] = g[n - Len(f)]
      BY <3>1
    <3> QED
      BY <3>1, <3>2, <3>3
  <2> QED
    BY <1>1, <2>1, <2>2
<1> QED
  BY <1>1, <1>2

LEMMA OfTypeConcat ==
    ASSUME NEW a \in Seq(Block), NEW b \in Seq(Block), NEW type
    PROVE  OfType(type, a \o b) = OfType(type, a) \o OfType(type, b)
<1>1. \A s : OfType(type, s) = FlattenSeq(Sifted(type, s))
  BY DEF OfType, Those, Sifted
<1>2. PICK c : c = a \o b
  OBVIOUS
<1>3. /\ c \in Seq(Block) /\ Len(c) = Len(a) + Len(b) /\ Len(a) \in Nat /\ Len(b) \in Nat
      /\ \A n \in 1..Len(a) : c[n] = a[n] /\ n \in 1..Len(c)
      /\ \A n \in 1..Len(b) : c[Len(a) + n] = b[n] /\ Len(a) + n \in 1..Len(c)
  BY <1>2
<1>4. PICK u : u = Sifted(type, c)
  OBVIOUS
<1>5. PICK f : f = Sifted(type, a)
  OBVIOUS
<1>6. PICK g : g = Sifted(type, b)
  OBVIOUS
<1>7. /\ u \in Seq(Seq(Block)) /\ Len(u) = Len(c)
      /\ \A n \in 1..Len(c) : u[n] = IF c[n].type = type THEN <<c[n]>> ELSE <<>>
  <2>1. c \in Seq(Block)
    BY <1>3
  <2> QED
    BY <1>4, <2>1, SiftedIs
<1>8. /\ f \in Seq(Seq(Block)) /\ Len(f) = Len(a)
      /\ \A n \in 1..Len(a) : f[n] = IF a[n].type = type THEN <<a[n]>> ELSE <<>>
  BY <1>5, SiftedIs
<1>9. /\ g \in Seq(Seq(Block)) /\ Len(g) = Len(b)
      /\ \A n \in 1..Len(b) : g[n] = IF b[n].type = type THEN <<b[n]>> ELSE <<>>
  BY <1>6, SiftedIs
<1>10. \A n \in 1..Len(f) : u[n] = f[n]
  BY <1>3, <1>7, <1>8
<1>11. ASSUME NEW n \in 1..Len(g)
       PROVE  u[Len(f) + n] = g[n]
  <2>1. n \in 1..Len(b) /\ Len(f) = Len(a)
    BY <1>8, <1>9
  <2>2. c[Len(a) + n] = b[n] /\ Len(a) + n \in 1..Len(c)
    BY <1>3, <2>1
  <2>3. g[n] = IF b[n].type = type THEN <<b[n]>> ELSE <<>>
    BY <1>9, <2>1
  <2>4. u[Len(a) + n]
           = IF c[Len(a) + n].type = type THEN <<c[Len(a) + n]>> ELSE <<>>
    BY <1>7, <2>2
  <2> QED
    BY <2>1, <2>2, <2>3, <2>4
<1>12. u = f \o g
  <2>1. Len(u) = Len(f) + Len(g)
    BY <1>3, <1>7, <1>8, <1>9
  <2>2. u \in Seq(Seq(Block)) /\ f \in Seq(Seq(Block)) /\ g \in Seq(Seq(Block))
    BY <1>7, <1>8, <1>9
  <2> QED
    BY <1>10, <1>11, <2>1, <2>2, ConcatIs, Zenon
<1>13. FlattenSeq(f \o g) = FlattenSeq(f) \o FlattenSeq(g)
  BY <1>8, <1>9, FlattenConcat
<1> QED
  <2>1. OfType(type, c) = FlattenSeq(u)
    BY <1>1, <1>4
  <2>2. OfType(type, a) = FlattenSeq(f)
    BY <1>1, <1>5
  <2>3. OfType(type, b) = FlattenSeq(g)
    BY <1>1, <1>6
  <2>4. OfType(type, c) = OfType(type, a) \o OfType(type, b)
    BY <1>12, <1>13, <2>1, <2>2, <2>3, Zenon
  <2> QED
    BY <1>2, <2>4

LEMMA FlattenOne ==
    ASSUME NEW S, NEW t \in Seq(S)
    PROVE  FlattenSeq(<<t>>) = t
<1> DEFINE g == [n \in 0..1 |-> IF n = 0 THEN <<>> ELSE t]
<1>1. <<t>> \in Seq(Seq(S)) /\ Len(<<t>>) = 1
  OBVIOUS
<1>2. Steps(<<t>>, g)
  BY DEF Steps
<1>3. g[1] = t
  OBVIOUS
<1> HIDE DEF g
<1>4. FlattenSeq(<<t>>) = g[Len(<<t>>)]
  BY <1>1, <1>2, FlattenBy
<1> QED
  BY <1>1, <1>3, <1>4

LEMMA TextBlockType ==
    ASSUME NEW t \in Text
    PROVE  TextBlock(t) \in Block
BY DEF TextBlock, Block, BlockTypes

LEMMA UsesAreBlocks ==
    ASSUME NEW calls \in Seq(ToolCall), NEW uses,
           uses = [n \in DOMAIN calls |-> UseBlock(calls[n].id)]
    PROVE  /\ uses \in Seq(Block) /\ DOMAIN uses = DOMAIN calls
           /\ \A n \in DOMAIN uses : uses[n].type = "tool_use" /\ uses[n].text = <<>>
                                     /\ uses[n].id = calls[n].id /\ uses[n].rich = FALSE
<1>1. <<>> \in Text
  BY DEF Text
<1>2. ASSUME NEW n \in DOMAIN calls PROVE UseBlock(calls[n].id) \in Block
  <2>1. calls[n] \in ToolCall
    OBVIOUS
  <2> QED
    BY <1>1, <2>1 DEF ToolCall, UseBlock, Block, BlockTypes
<1>3. uses \in [DOMAIN calls -> Block]
  BY <1>2
<1>4. uses \in Seq(Block)
  BY <1>3, SeqOnDomain
<1> QED
  BY <1>3, <1>4 DEF UseBlock

(* A text block, or none, and the uses: each is found again.               *)
LEMMA UseBlocksAre ==
    ASSUME NEW m, m.content \in Text, m.calls \in Seq(ToolCall)
    PROVE  /\ UseBlocks(m) \in Seq(Block)
           /\ OfType("tool_use", UseBlocks(m)) = [n \in DOMAIN m.calls |-> UseBlock(m.calls[n].id)]
           /\ OfType("tool_result", UseBlocks(m)) = <<>>
           /\ JoinedText(UseBlocks(m)) = m.content
<1> DEFINE said == IF m.content = <<>> THEN <<>> ELSE <<TextBlock(m.content)>>
           uses == [n \in DOMAIN m.calls |-> UseBlock(m.calls[n].id)]
<1>1. UseBlocks(m) = said \o uses
  BY DEF UseBlocks
<1>2. said \in Seq(Block) /\ (\A n \in DOMAIN said : said[n].type = "text")
      /\ (m.content # <<>> => said = <<TextBlock(m.content)>>)
      /\ (m.content = <<>> => said = <<>>)
  <2>1. TextBlock(m.content) \in Block /\ TextBlock(m.content).type = "text"
    BY TextBlockType DEF TextBlock
  <2> QED
    BY <2>1
<1>3. uses \in Seq(Block) /\ (\A n \in DOMAIN uses : uses[n].type = "tool_use")
  BY UsesAreBlocks
<1> HIDE DEF said, uses
<1>4. \A type : OfType(type, UseBlocks(m)) = OfType(type, said) \o OfType(type, uses)
  BY <1>1, <1>2, <1>3, OfTypeConcat
<1>5. UseBlocks(m) \in Seq(Block)
  BY <1>1, <1>2, <1>3
<1>6. OfType("text", said) = said
  BY <1>2, AllOfType
<1>7. OfType("tool_use", uses) = uses
  BY <1>3, AllOfType
<1>8. \A n \in DOMAIN said : said[n].type # "tool_use" /\ said[n].type # "tool_result"
  BY <1>2
<1>9. OfType("tool_use", said) = <<>>
  BY <1>2, <1>8, NoneOfType
<1>10. OfType("tool_result", said) = <<>>
  BY <1>2, <1>8, NoneOfType
<1>11. \A n \in DOMAIN uses : uses[n].type # "text" /\ uses[n].type # "tool_result"
  BY <1>3
<1>12. OfType("text", uses) = <<>>
  BY <1>3, <1>11, NoneOfType
<1>13. OfType("tool_result", uses) = <<>>
  BY <1>3, <1>11, NoneOfType
<1>14. OfType("tool_use", UseBlocks(m)) = uses
  BY <1>3, <1>4, <1>7, <1>9
<1>15. OfType("tool_result", UseBlocks(m)) = <<>>
  BY <1>4, <1>10, <1>13
<1>16. OfType("text", UseBlocks(m)) = said
  BY <1>2, <1>4, <1>6, <1>12
<1>17. JoinedText(UseBlocks(m)) = FlattenSeq([n \in DOMAIN said |-> said[n].text])
  BY <1>16 DEF JoinedText
<1>18. FlattenSeq([n \in DOMAIN said |-> said[n].text]) = m.content
  <2>1. CASE m.content = <<>>
    <3>1. [n \in DOMAIN said |-> said[n].text] = <<>>
      BY <1>2, <2>1
    <3> QED
      BY <2>1, <3>1, FlattenEmpty
  <2>2. CASE m.content # <<>>
    <3> DEFINE texts == [n \in DOMAIN said |-> said[n].text]
    <3>1. texts = [n \in DOMAIN <<m.content>> |-> <<m.content>>[n]]
      BY <1>2, <2>2 DEF TextBlock
    <3>2. texts = <<m.content>>
      BY <3>1
    <3>3. m.content \in Seq(Symbol)
      BY DEF Text
    <3>4. FlattenSeq(<<m.content>>) = m.content
      BY <3>3, FlattenOne
    <3> QED
      BY <3>2, <3>4
  <2> QED
    BY <2>1, <2>2
<1> QED
  BY <1>5, <1>14, <1>15, <1>17, <1>18 DEF uses

LEMMA JoinedNone ==
    ASSUME NEW blocks \in Seq(Block), \A n \in DOMAIN blocks : blocks[n].type # "text"
    PROVE  JoinedText(blocks) = <<>>
<1>1. OfType("text", blocks) = <<>>
  BY NoneOfType
<1>2. [n \in DOMAIN <<>> |-> <<>>[n].text] = <<>>
  OBVIOUS
<1> QED
  BY <1>1, <1>2, FlattenEmpty DEF JoinedText

LEMMA JoinedEmptyBlock == JoinedText(<<TextBlock(<<>>)>>) = <<>>
<1> DEFINE bs == <<TextBlock(<<>>)>>
<1>1. <<>> \in Text
  BY DEF Text
<1>2. TextBlock(<<>>) \in Block /\ TextBlock(<<>>).type = "text"
      /\ TextBlock(<<>>).text = <<>>
  BY <1>1, TextBlockType DEF TextBlock
<1>3. bs \in Seq(Block) /\ (\A n \in DOMAIN bs : bs[n].type = "text")
  BY <1>2
<1>4. OfType("text", bs) = bs
  BY <1>3, AllOfType
<1>5. [n \in DOMAIN bs |-> bs[n].text] = << <<>> >>
  BY <1>2
<1>6. FlattenSeq(<< <<>> >>) = <<>>
  <2>1. <<>> \in Seq(Symbol)
    OBVIOUS
  <2> QED
    BY <2>1, FlattenOne
<1> QED
  BY <1>4, <1>5, <1>6 DEF JoinedText

-----------------------------------------------------------------------------
(* A run of results ends.                                                  *)
LEMMA RunEnds ==
    ASSUME NEW ms, Len(ms) \in Nat, NEW n \in 1..Len(ms), IsResult(ms[n])
    PROVE  \E e \in n..Len(ms) :
              /\ \A k \in n..e : IsResult(ms[k])
              /\ e < Len(ms) => ~IsResult(ms[e + 1])
<1> DEFINE Ends == \E e \in n..Len(ms) : /\ \A k \in n..e : IsResult(ms[k])
                                         /\ e < Len(ms) => ~IsResult(ms[e + 1])
           T == {d \in Nat : n + d \in n..Len(ms) /\ \A k \in n..(n + d) : IsResult(ms[k])}
<1> SUFFICES ASSUME ~Ends PROVE FALSE
  OBVIOUS
<1>1. 0 \in T
  OBVIOUS
<1>2. ASSUME NEW d \in Nat, d \in T PROVE d + 1 \in T
  <2>1. n + d \in n..Len(ms) /\ \A k \in n..(n + d) : IsResult(ms[k])
    BY <1>2
  <2>2. n + d < Len(ms) /\ IsResult(ms[(n + d) + 1])
    BY <2>1
  <2>3. n + (d + 1) \in n..Len(ms)
    BY <2>1, <2>2
  <2>4. \A k \in n..(n + (d + 1)) : k \in n..(n + d) \/ k = (n + d) + 1
    OBVIOUS
  <2> QED
    BY <2>1, <2>2, <2>3, <2>4
<1>3. Len(ms) \in T
  <2> HIDE DEF T
  <2> QED
    BY <1>1, <1>2, FromZeroOn
<1>4. n + Len(ms) <= Len(ms)
  BY <1>3
<1> QED
  BY <1>4

LEMMA RunIs ==
    ASSUME NEW S, NEW ms \in Seq(S), NEW n \in 1..Len(ms), IsResult(ms[n])
    PROVE  \E e \in n..Len(ms) :
              /\ RunFrom(ms, n) = SubSeq(ms, n, e)
              /\ \A k \in n..e : IsResult(ms[k])
              /\ e < Len(ms) => ~IsResult(ms[e + 1])
<1> DEFINE Ends(e) == /\ \A k \in n..e : IsResult(ms[k])
                      /\ e < Len(ms) => ~IsResult(ms[e + 1])
           e == CHOOSE e \in n..Len(ms) : Ends(e)
<1>1. Len(ms) \in Nat
  OBVIOUS
<1>2. \E x \in n..Len(ms) : Ends(x)
  BY <1>1, RunEnds
<1>3. e \in n..Len(ms) /\ Ends(e)
  <2> HIDE DEF Ends
  <2> QED
    BY <1>2
<1>4. RunFrom(ms, n) = SubSeq(ms, n, e)
  BY DEF RunFrom
<1> HIDE DEF e
<1> QED
  BY <1>3, <1>4

LEMMA NarrowSeq ==
    ASSUME NEW S, NEW s \in Seq(S), NEW R, \A n \in 1..Len(s) : s[n] \in R
    PROVE  s \in Seq(R)
<1>1. s \in [1..Len(s) -> R] /\ Len(s) \in Nat
  OBVIOUS
<1> QED
  BY <1>1

LEMMA RunHas ==
    ASSUME NEW S, NEW ms \in Seq(S), NEW n \in 1..Len(ms), IsResult(ms[n])
    PROVE  RunFrom(ms, n) \in Seq({m \in S : IsResult(m)})
<1>1. PICK e \in n..Len(ms) : /\ RunFrom(ms, n) = SubSeq(ms, n, e)
                              /\ \A k \in n..e : IsResult(ms[k])
  BY RunIs
<1> DEFINE R == {m \in S : IsResult(m)}
<1>2. /\ SubSeq(ms, n, e) \in Seq(S) /\ Len(SubSeq(ms, n, e)) = e - n + 1
      /\ \A i \in 1..(e - n + 1) : SubSeq(ms, n, e)[i] = ms[n + i - 1]
  OBVIOUS
<1>3. ASSUME NEW i \in 1..(e - n + 1) PROVE SubSeq(ms, n, e)[i] \in R
  <2>1. n + i - 1 \in n..e /\ n + i - 1 \in 1..Len(ms)
    OBVIOUS
  <2>2. ms[n + i - 1] \in S /\ IsResult(ms[n + i - 1])
    BY <1>1, <2>1
  <2> QED
    BY <1>2, <2>2
<1>4. SubSeq(ms, n, e) \in Seq(R)
  <2> HIDE DEF R
  <2>1. \A i \in 1..Len(SubSeq(ms, n, e)) : SubSeq(ms, n, e)[i] \in R
    BY <1>2, <1>3
  <2> QED
    BY <1>2, <2>1, NarrowSeq
<1> QED
  BY <1>1, <1>4

-----------------------------------------------------------------------------
(* What the body for the backend says is what the request says.            *)

TurnSaysOnly(t, C) ==
    t.text \in C /\ \A n \in DOMAIN t.results : t.results[n].text \in C

(* The messages of an Anthropic body, whose turns say only C.              *)
SayingOnly(C) ==
    {m \in [role: Roles, content: Content] : TurnSaysOnly(AnthropicTurn(m), C)}

LEMMA StringTurn ==
    ASSUME NEW role \in Roles, NEW text \in Text
    PROVE  /\ AnthropicTurn([role |-> role, content |-> StringContent(text)])
                 = Turn(role, text, <<>>, <<>>)
           /\ StringContent(text) \in Content
<1> DEFINE m == [role |-> role, content |-> StringContent(text)]
<1>1. <<>> \in Seq(Block) /\ DOMAIN <<>> = {}
  OBVIOUS
<1>2. OfType("tool_use", <<>>) = <<>>
  BY <1>1, NoneOfType
<1>3. OfType("tool_result", <<>>) = <<>>
  BY <1>1, NoneOfType
<1>4. JoinedText(<<>>) = <<>>
  BY <1>1, JoinedNone
<1>5. text \o <<>> = text
  BY AfterNothing
<1>6. m.role = role /\ m.content.text = text /\ m.content.blocks = <<>>
  BY DEF StringContent
<1> HIDE DEF m
<1>7. AnthropicTurn(m) = Turn(role, text, [n \in DOMAIN <<>> |-> <<>>[n].id],
                   [n \in DOMAIN <<>> |-> [id |-> <<>>[n].id, text |-> <<>>[n].text]])
  BY <1>2, <1>3, <1>4, <1>5, <1>6 DEF AnthropicTurn
<1>8. [n \in DOMAIN <<>> |-> <<>>[n].id] = <<>>
  OBVIOUS
<1>9. [n \in DOMAIN <<>> |-> [id |-> <<>>[n].id, text |-> <<>>[n].text]] = <<>>
  OBVIOUS
<1>10. StringContent(text) \in Content
  BY <1>1 DEF StringContent, Content
<1> QED
  BY <1>7, <1>8, <1>9, <1>10 DEF m

LEMMA UsesTurn ==
    ASSUME NEW m \in Message
    PROVE  /\ AnthropicTurn([role |-> "assistant", content |-> BlocksContent(UseBlocks(m))])
                 = Turn("assistant", m.content, CallIds(m.calls), <<>>)
           /\ BlocksContent(UseBlocks(m)) \in Content
<1> DEFINE q == [role |-> "assistant", content |-> BlocksContent(UseBlocks(m))]
           uses == [n \in DOMAIN m.calls |-> UseBlock(m.calls[n].id)]
<1>1. m.content \in Text /\ m.calls \in Seq(ToolCall)
  BY DEF Message
<1>2. /\ UseBlocks(m) \in Seq(Block) /\ OfType("tool_use", UseBlocks(m)) = uses
      /\ OfType("tool_result", UseBlocks(m)) = <<>>
      /\ JoinedText(UseBlocks(m)) = m.content
  BY <1>1, UseBlocksAre
<1>3. DOMAIN uses = DOMAIN m.calls /\ \A n \in DOMAIN uses : uses[n].id = m.calls[n].id
  BY <1>1, UsesAreBlocks
<1> HIDE DEF uses
<1>4. <<>> \o m.content = m.content
  BY <1>1, AfterNothing
<1>5. q.role = "assistant" /\ q.content.text = <<>> /\ q.content.blocks = UseBlocks(m)
  BY DEF BlocksContent
<1> HIDE DEF q
<1>6. AnthropicTurn(q) = Turn("assistant", m.content, [n \in DOMAIN uses |-> uses[n].id],
                   [n \in DOMAIN <<>> |-> [id |-> <<>>[n].id, text |-> <<>>[n].text]])
  BY <1>2, <1>4, <1>5 DEF AnthropicTurn
<1>7. [n \in DOMAIN uses |-> uses[n].id] = CallIds(m.calls)
  BY <1>3 DEF CallIds
<1>8. [n \in DOMAIN <<>> |-> [id |-> <<>>[n].id, text |-> <<>>[n].text]] = <<>>
  OBVIOUS
<1>9. <<>> \in Text
  BY DEF Text
<1>10. BlocksContent(UseBlocks(m)) \in Content
  BY <1>2, <1>9 DEF BlocksContent, Content
<1> QED
  BY <1>6, <1>7, <1>8, <1>10 DEF q

LEMMA ResultsTurn ==
    ASSUME NEW run \in Seq(Message),
           NEW blocks, blocks = [k \in DOMAIN run |->
                                    ResultBlock(run[k].answers, run[k].content)]
    PROVE  /\ AnthropicTurn([role |-> "user", content |-> BlocksContent(blocks)])
                 = Turn("user", <<>>, <<>>,
                        [k \in DOMAIN run |->
                            [id |-> run[k].answers, text |-> run[k].content]])
           /\ BlocksContent(blocks) \in Content
<1> DEFINE q == [role |-> "user", content |-> BlocksContent(blocks)]
<1>1. ASSUME NEW k \in DOMAIN run
      PROVE  ResultBlock(run[k].answers, run[k].content) \in Block
  <2>1. run[k] \in Message
    OBVIOUS
  <2> QED
    BY <2>1 DEF Message, ResultBlock, Block, BlockTypes
<1>2. blocks \in [DOMAIN run -> Block]
  BY <1>1
<1>3. blocks \in Seq(Block) /\ DOMAIN blocks = DOMAIN run
  BY <1>2, SeqOnDomain
<1>4. \A k \in DOMAIN blocks : /\ blocks[k].type = "tool_result"
                               /\ blocks[k].id = run[k].answers
                               /\ blocks[k].text = run[k].content
  BY DEF ResultBlock
<1>5. \A k \in DOMAIN blocks : blocks[k].type # "text" /\ blocks[k].type # "tool_use"
  BY <1>4
<1>6. OfType("tool_result", blocks) = blocks
  BY <1>3, <1>4, AllOfType
<1>7. OfType("tool_use", blocks) = <<>>
  BY <1>3, <1>5, NoneOfType
<1>8. JoinedText(blocks) = <<>>
  BY <1>3, <1>5, JoinedNone
<1>9. q.role = "user" /\ q.content.text = <<>> /\ q.content.blocks = blocks
  BY DEF BlocksContent
<1>10. <<>> \in Text /\ <<>> \o <<>> = <<>>
  BY DEF Text
<1> HIDE DEF q
<1>11. AnthropicTurn(q) = Turn("user", <<>>, [n \in DOMAIN <<>> |-> <<>>[n].id],
                   [n \in DOMAIN blocks |-> [id |-> blocks[n].id, text |-> blocks[n].text]])
  BY <1>6, <1>7, <1>8, <1>9, <1>10 DEF AnthropicTurn
<1>12. [n \in DOMAIN <<>> |-> <<>>[n].id] = <<>>
  OBVIOUS
<1>13. [n \in DOMAIN blocks |-> [id |-> blocks[n].id, text |-> blocks[n].text]]
         = [k \in DOMAIN run |-> [id |-> run[k].answers, text |-> run[k].content]]
  BY <1>3, <1>4
<1>14. BlocksContent(blocks) \in Content
  BY <1>3, <1>10 DEF BlocksContent, Content
<1> QED
  BY <1>11, <1>12, <1>13, <1>14 DEF q

(* What an encoded message says.                                           *)
LEMMA EncodeAtSays ==
    ASSUME NEW C, C \subseteq Text, <<>> \in C, NEW ms \in Seq(Message),
           \A n \in DOMAIN ms : ms[n].content \in C, NEW n \in DOMAIN ms
    PROVE  EncodeAt(ms, n) \in Seq(SayingOnly(C))
<1>1. ms[n] \in Message /\ n \in 1..Len(ms)
  OBVIOUS
<1>2. ms[n].role \in Roles /\ ms[n].content \in C /\ ms[n].content \in Text
  BY <1>1 DEF Message
<1>3. CASE StartsRun(ms, n)
  <2> DEFINE run == RunFrom(ms, n)
             blocks == [k \in DOMAIN run |-> ResultBlock(run[k].answers, run[k].content)]
             m == [role |-> "user", content |-> BlocksContent(blocks)]
             R == {q \in Message : q.content \in C}
  <2>1. ms \in Seq(R)
    <3>1. \A k \in 1..Len(ms) : ms[k] \in R
      OBVIOUS
    <3> HIDE DEF R
    <3> QED
      BY <3>1, NarrowSeq
  <2>2. run \in Seq({q \in R : IsResult(q)})
    <3> HIDE DEF R
    <3> QED
      BY <1>1, <1>3, <2>1, RunHas DEF StartsRun
  <2> HIDE DEF run
  <2>3. ASSUME NEW k \in 1..Len(run) PROVE run[k] \in Message /\ run[k].content \in C
    BY <2>2
  <2>4. run \in Seq(Message)
    BY <2>2, <2>3, NarrowSeq
  <2>5. /\ AnthropicTurn(m)
             = Turn("user", <<>>, <<>>, [k \in DOMAIN run |->
                       [id |-> run[k].answers, text |-> run[k].content]])
        /\ BlocksContent(blocks) \in Content
    BY <2>4, ResultsTurn
  <2>6. TurnSaysOnly(AnthropicTurn(m), C)
    <3>1. DOMAIN run = 1..Len(run)
      BY <2>4
    <3> HIDE DEF m
    <3> QED
      BY <2>3, <2>5, <3>1 DEF TurnSaysOnly, Turn
  <2>7. m \in SayingOnly(C)
    <3> HIDE DEF blocks
    <3> QED
      BY <2>5, <2>6 DEF SayingOnly, Roles
  <2>8. EncodeAt(ms, n) = <<m>>
    BY <1>3 DEF EncodeAt, StartsRun, IsResult, run
  <2> HIDE DEF m
  <2> QED
    BY <2>7, <2>8
<1>4. CASE IsResult(ms[n]) /\ ~StartsRun(ms, n)
  BY <1>4 DEF EncodeAt, StartsRun, IsResult
<1>5. CASE ~IsResult(ms[n]) /\ ms[n].role = "assistant" /\ ms[n].calls # <<>>
  <2> DEFINE m == [role |-> "assistant", content |-> BlocksContent(UseBlocks(ms[n]))]
  <2>1. /\ AnthropicTurn(m) = Turn("assistant", ms[n].content, CallIds(ms[n].calls), <<>>)
        /\ BlocksContent(UseBlocks(ms[n])) \in Content
    BY <1>1, UsesTurn
  <2>2. TurnSaysOnly(AnthropicTurn(m), C)
    <3> HIDE DEF m
    <3> QED
      BY <1>2, <2>1 DEF TurnSaysOnly, Turn
  <2>3. m \in SayingOnly(C)
    BY <2>1, <2>2 DEF SayingOnly, Roles
  <2>4. EncodeAt(ms, n) = <<m>>
    BY <1>5 DEF EncodeAt, StartsRun, IsResult
  <2> HIDE DEF m
  <2> QED
    BY <2>3, <2>4
<1>6. CASE ~IsResult(ms[n]) /\ ~(ms[n].role = "assistant" /\ ms[n].calls # <<>>)
  <2> DEFINE m == [role |-> ms[n].role, content |-> StringContent(ms[n].content)]
  <2>1. /\ AnthropicTurn(m) = Turn(ms[n].role, ms[n].content, <<>>, <<>>)
        /\ StringContent(ms[n].content) \in Content
    BY <1>2, StringTurn
  <2>2. TurnSaysOnly(AnthropicTurn(m), C)
    <3> HIDE DEF m
    <3> QED
      BY <1>2, <2>1 DEF TurnSaysOnly, Turn
  <2>3. m \in SayingOnly(C)
    BY <1>2, <2>1, <2>2 DEF SayingOnly
  <2>4. EncodeAt(ms, n) = <<m>>
    BY <1>6 DEF EncodeAt, StartsRun, IsResult
  <2> HIDE DEF m
  <2> QED
    BY <2>3, <2>4
<1> QED
  BY <1>3, <1>4, <1>5, <1>6 DEF StartsRun

LEMMA EncodedMessagesSay ==
    ASSUME NEW C, C \subseteq Text, <<>> \in C, NEW ms \in Seq(Message),
           \A n \in DOMAIN ms : ms[n].content \in C
    PROVE  FlattenSeq([n \in DOMAIN ms |-> EncodeAt(ms, n)]) \in Seq(SayingOnly(C))
<1> DEFINE f == [n \in DOMAIN ms |-> EncodeAt(ms, n)]
<1>1. \A n \in DOMAIN ms : EncodeAt(ms, n) \in Seq(SayingOnly(C))
  BY EncodeAtSays
<1>2. f \in [DOMAIN ms -> Seq(SayingOnly(C))]
  BY <1>1
<1> HIDE DEF f
<1>3. FlattenSeq(f) \in Seq(SayingOnly(C))
  BY <1>2, FlattenOnDomain
<1> QED
  BY <1>3 DEF f

LEMMA TextsOfTurns ==
    ASSUME NEW C, NEW protocol, NEW b, SystemPromptOf(protocol, b) \in C,
           \A n \in DOMAIN MessagesOf(protocol, b) :
               TurnSaysOnly(MessagesOf(protocol, b)[n], C)
    PROVE  TextsOf(protocol, b) \subseteq C
BY DEF TextsOf, Range, TurnSaysOnly

LEMMA AnthropicBodySays ==
    ASSUME NEW C, C \subseteq Text, <<>> \in C, NEW r \in NormalizedRequest, SaysOnly(r, C)
    PROVE  TextsOf("anthropic", EncodeMessagesRequest(r)) \subseteq C
<1> DEFINE b == EncodeMessagesRequest(r)
<1>1. /\ r.messages \in Seq(Message) /\ \A n \in DOMAIN r.messages : r.messages[n].content \in C
      /\ r.system \in C /\ r.system \in Text
  BY DEF NormalizedRequest, SaysOnly
<1>2. b.messages = FlattenSeq([n \in DOMAIN r.messages |-> EncodeAt(r.messages, n)])
      /\ b.system = StringContent(r.system)
  BY DEF EncodeMessagesRequest
<1> HIDE DEF b
<1>3. b.messages \in Seq(SayingOnly(C))
  BY <1>1, <1>2, EncodedMessagesSay
<1>4. SystemPromptOf("anthropic", b) = r.system
  <2>1. b.system.text = r.system /\ b.system.blocks = <<>>
    BY <1>2 DEF StringContent
  <2>2. [n \in DOMAIN b.system.blocks |->
            (IF n = 1 THEN <<>> ELSE <<"newline">>) \o b.system.blocks[n].text] = <<>>
    BY <2>1
  <2>3. r.system \o <<>> = r.system
    BY <1>1, AfterNothing
  <2> QED
    BY <2>1, <2>2, <2>3, FlattenEmpty DEF SystemPromptOf
<1>5. MessagesOf("anthropic", b) = [n \in DOMAIN b.messages |-> AnthropicTurn(b.messages[n])]
  BY DEF MessagesOf
<1>6. \A n \in DOMAIN b.messages : TurnSaysOnly(AnthropicTurn(b.messages[n]), C)
  BY <1>3 DEF SayingOnly
<1>7. \A n \in DOMAIN MessagesOf("anthropic", b) :
         TurnSaysOnly(MessagesOf("anthropic", b)[n], C)
  BY <1>5, <1>6
<1>8. SystemPromptOf("anthropic", b) \in C
  BY <1>1, <1>4
<1>9. TextsOf("anthropic", b) \subseteq C
  BY <1>7, <1>8, TextsOfTurns
<1> QED
  BY <1>9 DEF b

-----------------------------------------------------------------------------
LEMMA NullIsNoText == Null \notin Text
<1> SUFFICES ASSUME <<"null">> \in Seq(Symbol) PROVE FALSE
  BY DEF Null, Text
<1>1. PICK s : s = <<"null">>
  OBVIOUS
<1>2. s \in Seq(Symbol) /\ s[1] = "null" /\ Len(s) = 1
  BY <1>1
<1>3. s[1] \in Symbol
  BY <1>2
<1> QED
  BY <1>2, <1>3 DEF Symbol

(* The messages of an OpenAI body that say only C.                         *)
PlainOnly(C) ==
    {m \in OpenAIMessage : m.role # "system" /\ OrEmpty(m.content) \in C}

LEMMA EncodedOpenAI ==
    ASSUME NEW C, C \subseteq Text, <<>> \in C, NEW m \in Message, m.content \in C
    PROVE  EncodeOpenAIMessage(m) \in PlainOnly(C)
<1>1. m.role \in Roles /\ m.content \in Text /\ m.calls \in Seq(ToolCall) /\ m.answers \in Nat
      /\ <<>> \in Seq(ToolCall) /\ m.role # "system" /\ m.content # Null
  BY NullIsNoText DEF Message, Roles
<1>2. CASE m.role = "tool" /\ m.answers # 0
  <2> DEFINE e == [m EXCEPT !.calls = <<>>]
  <2>1. e \in OpenAIMessage /\ e.role = m.role /\ e.content = m.content
    BY <1>1 DEF Message, OpenAIMessage
  <2>2. EncodeOpenAIMessage(m) = e
    BY <1>2 DEF EncodeOpenAIMessage
  <2> HIDE DEF e
  <2> QED
    BY <1>1, <2>1, <2>2 DEF PlainOnly, OrEmpty
<1>3. CASE ~(m.role = "tool" /\ m.answers # 0) /\ m.calls # <<>>
  <2> DEFINE content == IF m.content = <<>> THEN Null ELSE m.content
             e == [m EXCEPT !.content = content, !.answers = 0]
  <2>1. content \in Text \cup {Null} /\ OrEmpty(content) = m.content
    BY <1>1 DEF OrEmpty, Null
  <2>2. EncodeOpenAIMessage(m) = e
    BY <1>3 DEF EncodeOpenAIMessage
  <2> HIDE DEF content
  <2>3. e \in OpenAIMessage /\ e.role = m.role /\ e.content = content
    BY <1>1, <2>1 DEF Message, OpenAIMessage
  <2> HIDE DEF e
  <2> QED
    BY <1>1, <2>1, <2>2, <2>3 DEF PlainOnly
<1>4. CASE ~(m.role = "tool" /\ m.answers # 0) /\ m.calls = <<>>
  <2> DEFINE e == [m EXCEPT !.answers = 0]
  <2>1. e \in OpenAIMessage /\ e.role = m.role /\ e.content = m.content
    BY <1>1 DEF Message, OpenAIMessage
  <2>2. EncodeOpenAIMessage(m) = e
    BY <1>4 DEF EncodeOpenAIMessage
  <2> HIDE DEF e
  <2> QED
    BY <1>1, <2>1, <2>2 DEF PlainOnly, OrEmpty
<1> QED
  BY <1>2, <1>3, <1>4

LEMMA EncodedOpenAIs ==
    ASSUME NEW C, C \subseteq Text, <<>> \in C, NEW ms \in Seq(Message),
           \A n \in DOMAIN ms : ms[n].content \in C
    PROVE  /\ [n \in DOMAIN ms |-> EncodeOpenAIMessage(ms[n])] \in Seq(PlainOnly(C))
           /\ Len([n \in DOMAIN ms |-> EncodeOpenAIMessage(ms[n])]) = Len(ms)
<1>1. ASSUME NEW n \in DOMAIN ms PROVE EncodeOpenAIMessage(ms[n]) \in PlainOnly(C)
  <2>1. ms[n] \in Message /\ ms[n].content \in C
    OBVIOUS
  <2> QED
    BY <2>1, EncodedOpenAI
<1> DEFINE f == [n \in DOMAIN ms |-> EncodeOpenAIMessage(ms[n])]
<1>2. f \in [DOMAIN ms -> PlainOnly(C)]
  BY <1>1
<1> HIDE DEF f
<1>3. f \in Seq(PlainOnly(C)) /\ Len(f) = Len(ms)
  BY <1>2, SeqOnDomain
<1> QED
  BY <1>3 DEF f

(* The messages of the body: the system's, if there is any, and the rest.  *)
LEMMA OpenAIBodyIs ==
    ASSUME NEW C, C \subseteq Text, <<>> \in C, NEW r \in NormalizedRequest, SaysOnly(r, C),
           NEW s, NEW es, NEW ms,
           s = (IF r.system = <<>> THEN <<>> ELSE <<Saying("system", r.system)>>),
           es \in Seq(PlainOnly(C)), ms = s \o es
    PROVE  /\ s \in Seq(OpenAIMessage) /\ ms \in Seq(OpenAIMessage)
           /\ \A n \in DOMAIN ms : OrEmpty(ms[n].content) \in C
           /\ \A n \in DOMAIN ms : ms[n].role = "system" => n = 1
<1>1. r.system \in C /\ r.system \in Text /\ r.system # Null
  BY NullIsNoText DEF SaysOnly
<1>2. <<>> \in Seq(ToolCall)
  OBVIOUS
<1>3. Saying("system", r.system) \in OpenAIMessage
      /\ OrEmpty(Saying("system", r.system).content) = r.system
  BY <1>1, <1>2 DEF Saying, OpenAIMessage, OrEmpty
<1>4. s \in Seq(OpenAIMessage) /\ Len(s) \in {0, 1}
      /\ \A n \in 1..Len(s) : s[n] = Saying("system", r.system)
  BY <1>3
<1>5. es \in Seq(OpenAIMessage)
      /\ \A n \in 1..Len(es) : es[n].role # "system" /\ OrEmpty(es[n].content) \in C
  <2>1. \A n \in 1..Len(es) : es[n] \in PlainOnly(C)
    OBVIOUS
  <2>2. \A n \in 1..Len(es) : es[n] \in OpenAIMessage
    BY <2>1 DEF PlainOnly
  <2> QED
    BY <2>1, <2>2, NarrowSeq DEF PlainOnly
<1>6. ms \in Seq(OpenAIMessage) /\ DOMAIN ms = 1..(Len(s) + Len(es))
      /\ (\A n \in 1..Len(s) : ms[n] = s[n])
      /\ (\A n \in 1..(Len(s) + Len(es)) : n > Len(s) =>
            ms[n] = es[n - Len(s)] /\ n - Len(s) \in 1..Len(es))
  BY <1>4, <1>5
<1>7. ASSUME NEW n \in DOMAIN ms
      PROVE  OrEmpty(ms[n].content) \in C /\ (ms[n].role = "system" => n = 1)
  <2>1. CASE n \in 1..Len(s)
    BY <1>1, <1>3, <1>4, <1>6, <2>1
  <2>2. CASE n > Len(s)
    BY <1>5, <1>6, <2>2
  <2> QED
    BY <1>4, <1>6, <2>1, <2>2
<1> QED
  BY <1>4, <1>6, <1>7

LEMMA OpenAIBodySays ==
    ASSUME NEW C, C \subseteq Text, <<>> \in C, NEW r \in NormalizedRequest, SaysOnly(r, C)
    PROVE  TextsOf("openai", EncodeChatRequest(r)) \subseteq C
<1> DEFINE b == EncodeChatRequest(r)
           s == IF r.system = <<>> THEN <<>> ELSE <<Saying("system", r.system)>>
           es == [n \in DOMAIN r.messages |-> EncodeOpenAIMessage(r.messages[n])]
           others == Those(b.messages, IsNotSystem)
           D == {m \in OpenAIMessage : OrEmpty(m.content) \in C}
<1>1. r.messages \in Seq(Message) /\ \A n \in DOMAIN r.messages : r.messages[n].content \in C
  BY DEF NormalizedRequest, SaysOnly
<1>2. b.messages = s \o es
  BY DEF EncodeChatRequest
<1>3. es \in Seq(PlainOnly(C))
  BY <1>1, EncodedOpenAIs
<1> HIDE DEF b, es
<1>4. /\ b.messages \in Seq(OpenAIMessage)
      /\ \A n \in DOMAIN b.messages : OrEmpty(b.messages[n].content) \in C
      /\ \A n \in DOMAIN b.messages : b.messages[n].role = "system" => n = 1
  <2>1. s = (IF r.system = <<>> THEN <<>> ELSE <<Saying("system", r.system)>>)
    OBVIOUS
  <2> HIDE DEF s
  <2>2. PICK ms : ms = b.messages
    OBVIOUS
  <2>3. ms = s \o es
    BY <1>2, <2>2
  <2>4. /\ ms \in Seq(OpenAIMessage)
        /\ \A n \in DOMAIN ms : OrEmpty(ms[n].content) \in C
        /\ \A n \in DOMAIN ms : ms[n].role = "system" => n = 1
    BY <1>3, <2>1, <2>3, OpenAIBodyIs
  <2> QED
    BY <2>2, <2>4
<1>5. SystemPromptOf("openai", b) \in C
  <2> DEFINE systems == {n \in DOMAIN b.messages :
                            IsSystem(b.messages[n]) /\ b.messages[n].content # Null}
             last == CHOOSE n \in systems : \A k \in systems : k <= n
  <2>1. CASE systems = {}
    BY <2>1 DEF SystemPromptOf
  <2>2. CASE systems # {}
    <3>1. systems = {1}
      BY <1>4, <2>2 DEF IsSystem
    <3>2. \E n \in systems : \A k \in systems : k <= n
      BY <3>1
    <3>3. last \in systems
      <4> HIDE DEF systems
      <4> QED
        BY <3>2
    <3>4. b.messages[last].content \in C
      BY <1>4, <3>3 DEF OrEmpty
    <3>5. SystemPromptOf("openai", b) = b.messages[last].content
      BY <2>2 DEF SystemPromptOf
    <3> QED
      BY <3>4, <3>5
  <2> QED
    BY <2>1, <2>2
<1>6. others \in Seq({m \in D : m.role # "system"})
  <2>1. \A n \in 1..Len(b.messages) : b.messages[n] \in D
    BY <1>4
  <2> HIDE DEF D
  <2>2. b.messages \in Seq(D)
    BY <1>4, <2>1, NarrowSeq
  <2> QED
    BY <2>2, OthersType
<1>7. MessagesOf("openai", b) = [n \in DOMAIN others |-> OpenAITurn(others[n])]
  BY DEF MessagesOf
<1> HIDE DEF others
<1>8. ASSUME NEW n \in DOMAIN others
      PROVE  TurnSaysOnly(OpenAITurn(others[n]), C)
  <2>1. OrEmpty(others[n].content) \in C
    BY <1>6
  <2> QED
    BY <2>1 DEF TurnSaysOnly, OpenAITurn, Turn
<1>9. \A n \in DOMAIN MessagesOf("openai", b) : TurnSaysOnly(MessagesOf("openai", b)[n], C)
  BY <1>7, <1>8
<1>10. TextsOf("openai", b) \subseteq C
  BY <1>5, <1>9, TextsOfTurns
<1> QED
  BY <1>10 DEF b

LEMMA PromptSays ==
    ASSUME NEW C, NEW r \in NormalizedRequest, SaysOnly(r, C)
    PROVE  EncodeCompletionRequest(r).form # "raw" =>
              Range(EncodeCompletionRequest(r).prompt) \subseteq C
<1> DEFINE b == EncodeCompletionRequest(r)
           contents == [n \in DOMAIN r.messages |-> r.messages[n].content]
<1> SUFFICES ASSUME b.form # "raw" PROVE Range(b.prompt) \subseteq C
  OBVIOUS
<1>1. r.raw = <<>>
  BY DEF EncodeCompletionRequest
<1>2. b.prompt = contents
  BY <1>1 DEF EncodeCompletionRequest
<1> HIDE DEF b
<1>3. \A n \in DOMAIN contents : contents[n] \in C
  BY DEF SaysOnly
<1> HIDE DEF contents
<1> QED
  BY <1>2, <1>3 DEF Range

-----------------------------------------------------------------------------
(* What the body for the client says is what the response says.            *)
RepliesOf(x, b) ==
    CASE x.kind = "completion" -> {c.text : c \in Range(b.choices)}
      [] x.kind # "completion" /\ x.client = "openai" ->
            {OrEmpty(c.content) : c \in Range(b.choices)}
      [] OTHER -> {JoinedText(b.blocks)}

LEMMA CompletionRepliesOnly ==
    ASSUME NEW C, NEW r \in NormalizedResponse, RepliesOnly(r, C)
    PROVE  {c.text : c \in Range(EncodeCompletionResponse(r).choices)} \subseteq C
<1> DEFINE cs == EncodeCompletionResponse(r).choices
<1>1. ASSUME NEW n \in DOMAIN cs PROVE cs[n].text \in C
  <2>1. CASE r.choices = <<>>
    <3>1. cs = <<[text |-> r.content, reason |-> OrStop(r.reason)]>>
      BY <2>1, CompletionSays
    <3>2. n = 1 /\ cs[n].text = r.content
      BY <3>1
    <3> QED
      BY <3>2 DEF RepliesOnly
  <2>2. CASE r.choices # <<>>
    <3>1. n \in DOMAIN r.choices /\ cs[n].text = r.choices[n].text
      BY <2>2, CompletionSays
    <3> QED
      BY <3>1 DEF RepliesOnly
  <2> QED
    BY <2>1, <2>2
<1> QED
  BY <1>1 DEF Range

LEMMA ChatRepliesOnly ==
    ASSUME NEW C, <<>> \in C, C \subseteq Text, NEW r \in NormalizedResponse,
           RepliesOnly(r, C)
    PROVE  {OrEmpty(c.content) : c \in Range(EncodeChatResponse(r).choices)} \subseteq C
<1> DEFINE content == IF r.calls # <<>> /\ r.content = <<>> THEN Null ELSE r.content
           cs == EncodeChatResponse(r).choices
<1>1. r.content \in C /\ r.content # Null
  BY NullIsNoText DEF RepliesOnly
<1>2. OrEmpty(content) \in C
  BY <1>1 DEF OrEmpty
<1>3. Len(cs) = 1 /\ DOMAIN cs = {1} /\ cs[1].content = content
  BY DEF EncodeChatResponse
<1> HIDE DEF cs, content
<1> QED
  BY <1>2, <1>3 DEF Range, cs

LEMMA MessagesReplyOnly ==
    ASSUME NEW C, <<>> \in C, NEW r \in NormalizedResponse, RepliesOnly(r, C)
    PROVE  JoinedText(EncodeMessagesResponse(r).blocks) \in C
<1>1. r.content \in Text /\ r.calls \in Seq(ToolCall) /\ r.content \in C
  BY DEF NormalizedResponse, RepliesOnly
<1>2. JoinedText(UseBlocks(r)) = r.content
  BY <1>1, UseBlocksAre
<1>3. \/ EncodeMessagesResponse(r).blocks = UseBlocks(r)
      \/ EncodeMessagesResponse(r).blocks = <<TextBlock(<<>>)>>
  BY DEF EncodeMessagesResponse
<1> QED
  BY <1>1, <1>2, <1>3, JoinedEmptyBlock

-----------------------------------------------------------------------------
LEMMA CleanLeavesNone ==
    ASSUME NEW rs, NEW texts, texts \subseteq CleanTexts(rs)
    PROVE  LeavesNone(rs, texts)
BY DEF CleanTexts, LeavesNone

(* What is sent.                                                           *)
LEMMA SentIsClean ==
    ASSUME ExchangeInv, Send, pre # <<>>, Last(pre).target = "all"
    PROVE  LeavesNone(Last(pre).replacements,
                      IF ~IsCompletion THEN TextsOf(exchange.backend, forwarded')
                      ELSE IF forwarded'.form = "raw" THEN {}
                      ELSE Range(forwarded'.prompt))
<1> DEFINE rs == Last(pre).replacements
           C == CleanTexts(rs)
<1>1. /\ phase = "pre" /\ ran = Len(pre) /\ exchange \in Exchanges
      /\ request \in NormalizedRequest
  BY DEF Send, ExchangeInv, TypeInv
<1>2. ran > 0 /\ pre[ran] = Last(pre)
  BY <1>1, ExchangeType DEF pre, Last
<1>3. SaysOnly(request, C)
  BY <1>1, <1>2 DEF ExchangeInv, RequestInv
<1>4. C \subseteq Text /\ <<>> \in C
  BY CleanAreTexts, NothingIsClean
<1> HIDE DEF C
<1>5. CASE IsCompletion
  <2>1. forwarded' = EncodeCompletionRequest(request)
    BY <1>5 DEF Send
  <2>2. forwarded'.form # "raw" => Range(forwarded'.prompt) \subseteq C
    BY <1>1, <1>3, <2>1, PromptSays
  <2> QED
    BY <1>5, <2>2, CleanLeavesNone DEF C
<1>6. CASE ~IsCompletion
  <2>1. exchange.backend \in {"openai", "anthropic"}
    BY <1>1, ExchangeType
  <2>2. /\ exchange.backend = "openai" => forwarded' = EncodeChatRequest(request)
        /\ exchange.backend = "anthropic" => forwarded' = EncodeMessagesRequest(request)
    BY <1>6 DEF Send
  <2>3. TextsOf(exchange.backend, forwarded') \subseteq C
    <3>1. CASE exchange.backend = "openai"
      BY <1>1, <1>3, <1>4, <2>2, <3>1, OpenAIBodySays
    <3>2. CASE exchange.backend = "anthropic"
      BY <1>1, <1>3, <1>4, <2>2, <3>2, AnthropicBodySays
    <3> QED
      BY <2>1, <3>1, <3>2
  <2> QED
    BY <1>6, <2>3, CleanLeavesNone DEF C
<1> QED
  BY <1>5, <1>6

(* What is replied.                                                        *)
LEMMA RepliedIsClean ==
    ASSUME ExchangeInv, Reply, post # <<>>, Last(post).edits = "all"
    PROVE  LeavesNone(Last(post).replacements, RepliesOf(exchange, reply'))
<1> DEFINE rs == Last(post).replacements
           C == CleanTexts(rs)
<1>1. /\ phase = "encode" /\ exchange \in Exchanges /\ response \in NormalizedResponse
      /\ ran = Len(post)
  BY DEF Reply, ExchangeInv, TypeInv, ResponseInv
<1>2. ran > 0 /\ post[ran] = Last(post)
  BY <1>1, ExchangeType DEF post, Last
<1>3. RepliesOnly(response, C)
  BY <1>1, <1>2 DEF ExchangeInv, ResponseInv
<1>4. C \subseteq Text /\ <<>> \in C
  BY CleanAreTexts, NothingIsClean
<1> HIDE DEF C
<1>5. RepliesOf(exchange, reply') \subseteq C
  <2>1. CASE IsCompletion
    <3>1. reply' = EncodeCompletionResponse(response)
      BY <2>1 DEF Reply
    <3>2. {c.text : c \in Range(reply'.choices)} \subseteq C
      BY <1>1, <1>3, <3>1, CompletionRepliesOnly
    <3> QED
      BY <2>1, <3>2 DEF RepliesOf, IsCompletion
  <2>2. CASE ~IsCompletion /\ exchange.client = "openai"
    <3>1. reply' = EncodeChatResponse(response)
      BY <2>2 DEF Reply
    <3>2. {OrEmpty(c.content) : c \in Range(reply'.choices)} \subseteq C
      BY <1>1, <1>3, <1>4, <3>1, ChatRepliesOnly
    <3> QED
      BY <2>2, <3>2 DEF RepliesOf, IsCompletion
  <2>3. CASE ~IsCompletion /\ exchange.client # "openai"
    <3>1. reply' = EncodeMessagesResponse(response)
      BY <2>3 DEF Reply
    <3>2. JoinedText(reply'.blocks) \in C
      BY <1>1, <1>3, <1>4, <3>1, MessagesReplyOnly
    <3> QED
      BY <2>3, <3>2 DEF RepliesOf, IsCompletion
  <2> QED
    BY <2>1, <2>2, <2>3
<1> QED
  BY <1>5, CleanLeavesNone DEF C

(* The last modifier, if it is set upon everything, leaves nothing of what *)
(* it replaces in whatever is sent or replied, in either protocol.         *)
THEOREM NoSecretLeaves == Spec => []SecretsStay
<1> DEFINE Kept == pre # <<>> => (Last(pre).target = "all" =>
                      LeavesNone(Last(pre).replacements,
                          IF ~IsCompletion THEN TextsOf(exchange.backend, forwarded)
                          ELSE IF forwarded.form = "raw" THEN {}
                          ELSE Range(forwarded.prompt)))
           KeptBack == post # <<>> => (Last(post).edits = "all" =>
                          LeavesNone(Last(post).replacements, RepliesOf(exchange, reply)))
           Stay == (forwarded # NoBody => Kept) /\ (reply # NoBody => KeptBack)
<1>1. SecretsStay <=> Stay
  BY DEF SecretsStay, RepliesOf, IsCompletion
<1>2. Init => Stay
  BY DEF Init
<1>3. ExchangeInv /\ Stay /\ [Next]_vars => Stay'
  <2> SUFFICES ASSUME ExchangeInv, Stay, [Next]_vars PROVE Stay'
    OBVIOUS
  <2>1. CASE Send
    <3>1. exchange' = exchange /\ reply' = reply
      BY <2>1 DEF Send
    <3>2. Kept'
      BY <2>1, <3>1, SentIsClean DEF pre, IsCompletion, TextsOf, SystemPromptOf, MessagesOf
    <3>3. KeptBack' <=> KeptBack
      BY <3>1 DEF post, RepliesOf
    <3> QED
      BY <3>1, <3>2, <3>3
  <2>2. CASE Reply
    <3>1. exchange' = exchange /\ forwarded' = forwarded
      BY <2>2 DEF Reply
    <3>2. KeptBack'
      BY <2>2, <3>1, RepliedIsClean DEF post, RepliesOf
    <3>3. Kept' <=> Kept
      BY <3>1 DEF pre, IsCompletion, TextsOf, SystemPromptOf, MessagesOf
    <3> QED
      BY <3>1, <3>2, <3>3
  <2>3. CASE UNCHANGED <<exchange, forwarded, reply>>
    BY <2>3 DEF pre, post, IsCompletion, RepliesOf, TextsOf, SystemPromptOf, MessagesOf
  <2> QED
    BY <2>1, <2>2, <2>3 DEF Next, Terminated, vars, DecodeRequest, PreRequestHook,
                            RefuseRequest, Receive, PostResponseHook, Sync, RefuseReply
<1>4. Spec => []Stay
  <2> HIDE DEF Stay
  <2> QED
    BY <1>2, <1>3, ExchangeInvariant, PTL DEF Spec
<1> QED
  BY <1>1, <1>4, PTL

-----------------------------------------------------------------------------
(* Why an answer ended, in the words of the neutral form.                  *)
LEMMA ReasonOfOpenAI ==
    ASSUME NEW reason
    PROVE  ReasonOf("openai", reason) = OrStop(reason)
<1> DEFINE words == <<"stop", "length", "tool_calls">>
           said == IF reason = "" THEN words[1] ELSE reason
<1>1. Range(words) = {"stop", "length", "tool_calls"}
  BY DEF Range
<1>2. \A n \in 1..3 : (CHOOSE k \in 1..3 : words[k] = words[n]) = n
  OBVIOUS
<1>3. \A w \in Range(words) : words[CHOOSE n \in 1..3 : words[n] = w] = w
  BY <1>1, <1>2
<1>4. said \in Range(words) => words[CHOOSE n \in 1..3 : words[n] = said] = said
  BY <1>3
<1>5. words[1] = "stop"
  OBVIOUS
<1> QED
  BY <1>4, <1>5 DEF ReasonOf, OrStop

LEMMA ReasonOfAnthropic ==
    ASSUME NEW reason
    PROVE  ReasonOf("anthropic", reason) = OrStop(Maps!MapStopReason(reason))
<1> DEFINE words == <<"end_turn", "max_tokens", "tool_use">>
           neutral == <<"stop", "length", "tool_calls">>
           said == IF reason = "" THEN words[1] ELSE reason
           at == CHOOSE n \in 1..3 : words[n] = said
<1>1. Range(words) = {"end_turn", "max_tokens", "tool_use"}
  BY DEF Range
<1>2. \A n \in 1..3 : \A w : w = words[n] => (CHOOSE k \in 1..3 : words[k] = w) = n
  OBVIOUS
<1>3. /\ said = "end_turn" => neutral[at] = "stop"
      /\ said = "max_tokens" => neutral[at] = "length"
      /\ said = "tool_use" => neutral[at] = "tool_calls"
  <2>1. /\ words[1] = "end_turn" /\ words[2] = "max_tokens" /\ words[3] = "tool_use"
        /\ neutral[1] = "stop" /\ neutral[2] = "length" /\ neutral[3] = "tool_calls"
    OBVIOUS
  <2>2. 1 \in 1..3 /\ 2 \in 1..3 /\ 3 \in 1..3
    OBVIOUS
  <2>3. PICK w : w = said
    OBVIOUS
  <2>4. at = CHOOSE k \in 1..3 : words[k] = w
    BY <2>3
  <2> HIDE DEF words, neutral, said, at
  <2> QED
    BY <1>2, <2>1, <2>2, <2>3, <2>4
<1>4. ReasonOf("anthropic", reason)
         = IF said \notin Range(words) THEN said ELSE neutral[at]
  BY DEF ReasonOf
<1> QED
  BY <1>1, <1>3, <1>4 DEF OrStop, Maps!MapStopReason

LEMMA NoCalls ==
    ASSUME NEW S, NEW calls \in Seq(S)
    PROVE  /\ CallIds(calls) = <<>> <=> calls = <<>>
           /\ DOMAIN calls = {} => calls = <<>>
<1>1. calls = <<>> => CallIds(calls) = <<>>
  BY DEF CallIds
<1>2. calls # <<>> => 1 \in DOMAIN calls
  OBVIOUS
<1>3. calls # <<>> => CallIds(calls) # <<>>
  BY <1>2 DEF CallIds
<1> QED
  BY <1>1, <1>2, <1>3

-----------------------------------------------------------------------------
(* AnswersOf for a given exchange.                                         *)
AnswerIn(x, protocol, text, calls, reason) ==
    [text |-> Unless(x.post # <<>>, text), calls |-> calls,
     reason |-> ReasonOf(protocol, reason)]

AnswersIn(x, protocol, b) ==
    CASE x.kind = "completion" ->
            [n \in DOMAIN b.choices |->
                AnswerIn(x, protocol, b.choices[n].text, <<>>, b.choices[n].reason)]
      [] x.kind # "completion" /\ protocol = "openai" ->
            [n \in DOMAIN b.choices |->
                AnswerIn(x, protocol, OrEmpty(b.choices[n].content),
                         CallIds(b.choices[n].calls), b.choices[n].reason)]
      [] OTHER ->
            LET uses == OfType("tool_use", b.blocks)
            IN  <<AnswerIn(x, protocol, JoinedText(b.blocks),
                           [n \in DOMAIN uses |-> uses[n].id], b.reason)>>

(* What a response says, in neither protocol.                              *)
Meant(x, r) ==
    [text |-> Unless(x.post # <<>>, r.content), calls |-> CallIds(r.calls),
     reason |-> OrStop(r.reason)]

(* AsClientIsTold for a given exchange, and for each of its answers.       *)
ToldIn(x, a) ==
    IF x.client = "openai" /\ a.reason = "stop" /\ a.calls # <<>>
    THEN [a EXCEPT !.reason = "tool_calls"] ELSE a

AllToldIn(x, answers) == [n \in DOMAIN answers |-> ToldIn(x, answers[n])]

LEMMA OneTold ==
    ASSUME NEW x, NEW a
    PROVE  AllToldIn(x, <<a>>) = <<ToldIn(x, a)>>
<1>1. PICK t : t = ToldIn(x, a)
  OBVIOUS
<1>2. AllToldIn(x, <<a>>) = [n \in {1} |-> t]
  BY <1>1 DEF AllToldIn
<1> QED
  BY <1>1, <1>2

LEMMA OneChoice ==
    ASSUME NEW x, x.kind # "completion", NEW c, NEW b, b.choices = <<c>>
    PROVE  AnswersIn(x, "openai", b)
              = <<AnswerIn(x, "openai", OrEmpty(c.content), CallIds(c.calls), c.reason)>>
<1>1. AnswersIn(x, "openai", b)
         = [n \in DOMAIN b.choices |->
               AnswerIn(x, "openai", OrEmpty(b.choices[n].content),
                        CallIds(b.choices[n].calls), b.choices[n].reason)]
  BY DEF AnswersIn
<1>2. PICK A : A = AnswerIn(x, "openai", OrEmpty(c.content), CallIds(c.calls), c.reason)
  OBVIOUS
<1>3. PICK f : f = AnswersIn(x, "openai", b)
  OBVIOUS
<1>4. DOMAIN b.choices = {1} /\ b.choices[1] = c
  OBVIOUS
<1>5. f = [n \in {1} |-> A]
  BY <1>1, <1>2, <1>3, <1>4
<1>6. f = <<A>>
  BY <1>5
<1> QED
  BY <1>2, <1>3, <1>6

(* The backend's answer says what it is decoded to.                        *)
LEMMA ToldSaysChat ==
    ASSUME NEW x, x.kind # "completion", NEW b \in ChatResponse, Len(b.choices) = 1
    PROVE  AnswersIn(x, "openai", b) = <<Meant(x, DecodeChatResponse(b))>>
<1>1. PICK c : c = b.choices[1]
  OBVIOUS
<1>2. b.choices \in Seq([content: Text \cup {Null}, calls: Seq(ToolCall), reason: Reason])
  BY DEF ChatResponse
<1>3. b.choices = <<c>> /\ Head(b.choices) = c /\ b.choices # <<>>
  BY <1>1, <1>2
<1>4. DecodeChatResponse(b) = [content |-> OrEmpty(c.content), reason |-> c.reason,
                               calls |-> c.calls, choices |-> <<>>]
  BY <1>3 DEF DecodeChatResponse
<1>5. Meant(x, DecodeChatResponse(b))
         = AnswerIn(x, "openai", OrEmpty(c.content), CallIds(c.calls), c.reason)
  BY <1>4, ReasonOfOpenAI DEF Meant, AnswerIn
<1> QED
  BY <1>3, <1>5, OneChoice

LEMMA ToldSaysMessages ==
    ASSUME NEW x, x.kind # "completion", NEW b \in MessagesResponse
    PROVE  /\ AnswersIn(x, "anthropic", b) = <<Meant(x, DecodeMessagesResponse(b))>>
           /\ DecodeMessagesResponse(b).reason \notin AnthropicWords
<1> DEFINE uses == OfType("tool_use", b.blocks)
           ids == [n \in DOMAIN uses |-> uses[n].id]
           calls == CallsIn(b.blocks)
<1>1. DecodeMessagesResponse(b) = [content |-> JoinedText(b.blocks),
                                   reason |-> Maps!MapStopReason(b.reason),
                                   calls |-> calls, choices |-> <<>>]
  BY DEF DecodeMessagesResponse
<1>2. CallIds(calls) = ids
  BY CallsInType DEF MessagesResponse
<1>3. AnswersIn(x, "anthropic", b)
         = <<AnswerIn(x, "anthropic", JoinedText(b.blocks), ids, b.reason)>>
  BY DEF AnswersIn
<1> HIDE DEF calls, ids
<1>4. AnswerIn(x, "anthropic", JoinedText(b.blocks), ids, b.reason)
         = Meant(x, DecodeMessagesResponse(b))
  BY <1>1, <1>2, ReasonOfAnthropic DEF AnswerIn, Meant
<1>5. Maps!MapStopReason(b.reason) \notin AnthropicWords
  BY DEF Maps!MapStopReason, AnthropicWords
<1> QED
  BY <1>1, <1>3, <1>4, <1>5

(* The body for the client says what the response says.                    *)
LEMMA ChatSaysMeant ==
    ASSUME NEW x, x.kind # "completion", x.client = "openai", NEW r \in NormalizedResponse
    PROVE  AnswersIn(x, "openai", EncodeChatResponse(r)) = <<ToldIn(x, Meant(x, r))>>
<1> DEFINE reason == OrStop(r.reason)
           c == [content |-> IF r.calls # <<>> /\ r.content = <<>>
                             THEN Null ELSE r.content,
                 calls |-> r.calls,
                 reason |-> IF r.calls # <<>> /\ reason = "stop"
                            THEN "tool_calls" ELSE reason]
<1>1. EncodeChatResponse(r).choices = <<c>>
  BY DEF EncodeChatResponse
<1>2. r.content \in Text /\ r.calls \in Seq(ToolCall)
  BY DEF NormalizedResponse
<1>3. CallIds(r.calls) = <<>> <=> r.calls = <<>>
  BY <1>2, NoCalls
<1>4. OrEmpty(c.content) = r.content
  BY <1>2, NullIsNoText DEF OrEmpty
<1>5. OrStop(c.reason) = IF reason = "stop" /\ CallIds(r.calls) # <<>>
                         THEN "tool_calls" ELSE reason
  BY <1>3 DEF OrStop
<1>6. c.calls = r.calls
  OBVIOUS
<1> HIDE DEF c
<1>7. AnswerIn(x, "openai", OrEmpty(c.content), CallIds(c.calls), c.reason)
         = ToldIn(x, Meant(x, r))
  BY <1>4, <1>5, <1>6, ReasonOfOpenAI DEF AnswerIn, Meant, ToldIn
<1> QED
  BY <1>1, <1>7, OneChoice

LEMMA UsesHaveIds ==
    ASSUME NEW calls, NEW uses, uses = [n \in DOMAIN calls |-> UseBlock(calls[n].id)]
    PROVE  [n \in DOMAIN uses |-> uses[n].id] = CallIds(calls)
BY DEF CallIds, UseBlock

LEMMA MessagesSayMeant ==
    ASSUME NEW x, x.kind # "completion", NEW r \in NormalizedResponse,
           r.reason \notin AnthropicWords
    PROVE  AnswersIn(x, "anthropic", EncodeMessagesResponse(r)) = <<Meant(x, r)>>
<1> DEFINE blocks == EncodeMessagesResponse(r).blocks
           uses == OfType("tool_use", blocks)
           reason == EncodeMessagesResponse(r).reason
<1>1. r.content \in Text /\ r.calls \in Seq(ToolCall)
  BY DEF NormalizedResponse
<1>2. blocks = IF UseBlocks(r) = <<>> THEN <<TextBlock(<<>>)>> ELSE UseBlocks(r)
  BY DEF EncodeMessagesResponse
<1>3. /\ OfType("tool_use", UseBlocks(r)) = [n \in DOMAIN r.calls |-> UseBlock(r.calls[n].id)]
      /\ JoinedText(UseBlocks(r)) = r.content
  BY <1>1, UseBlocksAre
<1>4. [n \in DOMAIN uses |-> uses[n].id] = CallIds(r.calls) /\ JoinedText(blocks) = r.content
  <2>1. CASE UseBlocks(r) # <<>>
    <3>1. uses = [n \in DOMAIN r.calls |-> UseBlock(r.calls[n].id)]
      BY <1>2, <1>3, <2>1
    <3> QED
      BY <1>2, <1>3, <2>1, <3>1, UsesHaveIds
  <2>2. CASE UseBlocks(r) = <<>>
    <3>0. <<>> \in Seq(Block) /\ DOMAIN <<>> = {}
      OBVIOUS
    <3>1. r.content = <<>>
      <4>1. JoinedText(<<>>) = <<>>
        BY <3>0, JoinedNone
      <4> QED
        BY <1>3, <2>2, <4>1
    <3>2. [n \in DOMAIN r.calls |-> UseBlock(r.calls[n].id)] = <<>>
      <4>1. OfType("tool_use", <<>>) = <<>>
        BY <3>0, NoneOfType
      <4> QED
        BY <1>3, <2>2, <4>1
    <3>3. CallIds(r.calls) = <<>>
      <4>1. DOMAIN r.calls = {}
        BY <3>2
      <4>2. r.calls = <<>>
        BY <1>1, <4>1, NoCalls
      <4> QED
        BY <1>1, <4>2, NoCalls
    <3>4. blocks = <<TextBlock(<<>>)>>
      BY <1>2, <2>2
    <3>5. OfType("tool_use", <<TextBlock(<<>>)>>) = <<>>
      <4>1. <<>> \in Text /\ TextBlock(<<>>).type = "text"
        BY DEF Text, TextBlock
      <4>2. TextBlock(<<>>) \in Block
        BY <4>1, TextBlockType
      <4>3. PICK t : t = TextBlock(<<>>)
        OBVIOUS
      <4>4. <<t>> \in Seq(Block) /\ \A n \in DOMAIN <<t>> : <<t>>[n].type # "tool_use"
        BY <4>1, <4>2, <4>3
      <4>5. OfType("tool_use", <<t>>) = <<>>
        BY <4>4, NoneOfType
      <4> QED
        BY <4>3, <4>5
    <3> QED
      BY <3>1, <3>3, <3>4, <3>5, JoinedEmptyBlock
  <2> QED
    BY <2>1, <2>2
<1>5. OrStop(Maps!MapStopReason(reason)) = OrStop(r.reason)
  BY DEF OrStop, EncodeMessagesResponse, Maps!MapStopReason, Maps!MapFinishReason,
         AnthropicWords
<1>6. AnswersIn(x, "anthropic", EncodeMessagesResponse(r))
         = <<AnswerIn(x, "anthropic", JoinedText(blocks),
                      [n \in DOMAIN uses |-> uses[n].id], reason)>>
  BY DEF AnswersIn
<1> HIDE DEF blocks, uses, reason
<1>7. AnswerIn(x, "anthropic", JoinedText(blocks), [n \in DOMAIN uses |-> uses[n].id], reason)
         = Meant(x, r)
  BY <1>4, <1>5, ReasonOfAnthropic DEF AnswerIn, Meant
<1> QED
  BY <1>6, <1>7

-----------------------------------------------------------------------------
(* The backend's answer says what it is decoded to.                        *)
LEMMA ToldSays ==
    ASSUME AnswersAreSayable, NEW x \in Exchanges, x.kind = "chat",
           AnswersIn(x, x.backend, x.answer) # <<>>
    PROVE  /\ AnswersIn(x, x.backend, x.answer) = <<Meant(x, Told(x))>>
           /\ x.client = "anthropic" => Told(x).reason \notin AnthropicWords
<1>1. x.kind # "completion" /\ x.client \in {"openai", "anthropic"}
      /\ x.backend \in {"openai", "anthropic"}
  BY ExchangeType
<1>2. CASE x.backend = "openai"
  <2>1. x.answer \in ChatResponse
    BY <1>2, ExchangeType
  <2>2. x.answer.choices \in Seq([content: Text \cup {Null}, calls: Seq(ToolCall), reason: Reason])
    BY <2>1 DEF ChatResponse
  <2>3. x.answer.choices # <<>>
    <3>1. ASSUME x.answer.choices = <<>> PROVE FALSE
      <4>1. DOMAIN x.answer.choices = {}
        BY <3>1
      <4>2. AnswersIn(x, "openai", x.answer) = <<>>
        BY <1>1, <4>1 DEF AnswersIn
      <4> QED
        BY <1>2, <4>2
    <3> QED
      BY <3>1
  <2>4. Len(x.answer.choices) = 1
    <3>1. Len(x.answer.choices) <= 1
      BY <1>2 DEF AnswersAreSayable
    <3>2. PICK cs : cs = x.answer.choices
      OBVIOUS
    <3>3. Len(cs) \in Nat /\ Len(cs) # 0
      BY <2>2, <2>3, <3>2
    <3>4. Len(cs) <= 1
      BY <3>1, <3>2
    <3>5. \A k \in Nat : k # 0 /\ k <= 1 => k = 1
      OBVIOUS
    <3>6. Len(cs) = 1
      BY <3>3, <3>4, <3>5, Zenon
    <3> QED
      BY <3>2, <3>6
  <2>5. Told(x) = DecodeChatResponse(x.answer)
    BY <1>1, <1>2 DEF Told
  <2>6. AnswersIn(x, "openai", x.answer) = <<Meant(x, DecodeChatResponse(x.answer))>>
    BY <1>1, <2>1, <2>4, ToldSaysChat
  <2>7. x.client = "anthropic" => Told(x).reason \notin AnthropicWords
    <3>1. Told(x).reason = x.answer.choices[1].reason
      BY <2>2, <2>3, <2>5 DEF DecodeChatResponse
    <3>2. 1 \in DOMAIN x.answer.choices
      BY <2>2, <2>3
    <3> QED
      BY <1>2, <3>1, <3>2 DEF AnswersAreSayable
  <2> QED
    BY <1>2, <2>5, <2>6, <2>7
<1>3. CASE x.backend = "anthropic"
  <2>1. x.answer \in MessagesResponse
    BY <1>3, ExchangeType
  <2>2. Told(x) = DecodeMessagesResponse(x.answer)
    BY <1>1, <1>3 DEF Told
  <2>3. /\ AnswersIn(x, "anthropic", x.answer) = <<Meant(x, DecodeMessagesResponse(x.answer))>>
        /\ DecodeMessagesResponse(x.answer).reason \notin AnthropicWords
    BY <1>1, <2>1, ToldSaysMessages
  <2> QED
    BY <1>3, <2>2, <2>3
<1> QED
  BY <1>1, <1>2, <1>3

(* Responses that differ in hooked texts only say the same.                *)
LEMMA SameMeaning ==
    ASSUME NEW x, NEW r, NEW q, SameResponse(r, q), x.post = <<>> => r = q
    PROVE  Meant(x, r) = Meant(x, q)
BY DEF SameResponse, Meant, Unless

(* A completion says each choice that was there as it was.                 *)
LEMMA CompletionsSurvive ==
    ASSUME NEW x, x.kind = "completion", NEW r \in NormalizedResponse, NEW b,
           b.choices # <<>>, b \in CompletionResponse,
           DOMAIN r.choices = DOMAIN b.choices,
           \A n \in DOMAIN b.choices : r.choices[n].reason = b.choices[n].reason,
           x.post = <<>> => r.choices = b.choices
    PROVE  AnswersIn(x, "openai", EncodeCompletionResponse(r))
              = AllToldIn(x, AnswersIn(x, "openai", b))
<1> DEFINE e == EncodeCompletionResponse(r)
           A(c) == AnswerIn(x, "openai", c.text, <<>>, c.reason)
<1>1. b.choices \in Seq(Choice) /\ r.choices \in Seq(Choice)
  BY DEF CompletionResponse, NormalizedResponse
<1>2. r.choices # <<>>
  BY <1>1
<1>3. /\ DOMAIN e.choices = DOMAIN r.choices
      /\ \A n \in DOMAIN r.choices : /\ e.choices[n].text = r.choices[n].text
                                     /\ e.choices[n].reason = OrStop(r.choices[n].reason)
  BY <1>2, CompletionSays
<1>4. /\ AnswersIn(x, "openai", e) = [n \in DOMAIN e.choices |-> A(e.choices[n])]
      /\ AnswersIn(x, "openai", b) = [n \in DOMAIN b.choices |-> A(b.choices[n])]
  BY DEF AnswersIn
<1> HIDE DEF e
<1>5. ASSUME NEW n \in DOMAIN b.choices
      PROVE  A(e.choices[n]) = A(b.choices[n])
  <2>1. ReasonOf("openai", e.choices[n].reason) = ReasonOf("openai", b.choices[n].reason)
    <3>1. e.choices[n].reason = OrStop(b.choices[n].reason)
      BY <1>3, <1>5
    <3> QED
      BY <3>1, ReasonOfOpenAI DEF OrStop
  <2>2. Unless(x.post # <<>>, e.choices[n].text) = Unless(x.post # <<>>, b.choices[n].text)
    BY <1>3, <1>5 DEF Unless
  <2> QED
    BY <2>1, <2>2 DEF AnswerIn
<1>6. DOMAIN e.choices = DOMAIN b.choices
  BY <1>3
<1>7. \A c : ToldIn(x, A(c)) = A(c)
  BY DEF ToldIn, AnswerIn
<1> HIDE DEF A
<1>8. AllToldIn(x, [n \in DOMAIN b.choices |-> A(b.choices[n])])
         = [n \in DOMAIN b.choices |-> A(b.choices[n])]
  BY <1>7 DEF AllToldIn
<1>9. AnswersIn(x, "openai", e) = AnswersIn(x, "openai", b)
  BY <1>4, <1>5, <1>6, Zenon
<1> QED
  BY <1>4, <1>8, <1>9 DEF e

LEMMA ReplySurvives ==
    ASSUME AnswersAreSayable, ExchangeInv, Reply,
           AnswersIn(exchange, exchange.backend, exchange.answer) # <<>>
    PROVE  AnswersIn(exchange, exchange.client, reply')
              = AllToldIn(exchange,
                          AnswersIn(exchange, exchange.backend, exchange.answer))
<1>1. /\ exchange \in Exchanges /\ response \in NormalizedResponse /\ phase = "encode"
      /\ SameResponse(response, Told(exchange))
      /\ exchange.post = <<>> => response = Told(exchange)
  BY DEF ExchangeInv, TypeInv, ResponseInv, Reply, post
<1> DEFINE x == exchange
<1>2. x.kind \in {"chat", "completion"} /\ x.client \in {"openai", "anthropic"}
  BY <1>1, ExchangeType
<1>3. CASE x.kind = "completion"
  <2>1. /\ x.client = "openai" /\ x.backend = "openai" /\ x.answer \in CompletionResponse
    BY <1>1, <1>3, ExchangeType
  <2>2. reply' = EncodeCompletionResponse(response)
    BY <1>3 DEF Reply, IsCompletion
  <2>3. Told(x).choices = x.answer.choices
    BY <1>3 DEF Told, DecodeCompletionResponse
  <2>4. /\ DOMAIN response.choices = DOMAIN x.answer.choices
        /\ \A n \in DOMAIN x.answer.choices :
              response.choices[n].reason = x.answer.choices[n].reason
    BY <1>1, <2>3 DEF SameResponse
  <2>5. x.answer.choices # <<>>
    <3>1. ASSUME x.answer.choices = <<>> PROVE FALSE
      <4>1. DOMAIN x.answer.choices = {}
        BY <3>1
      <4>2. AnswersIn(x, x.backend, x.answer) = <<>>
        BY <1>3, <4>1 DEF AnswersIn
      <4> QED
        BY <4>2
    <3> QED
      BY <3>1
  <2>6. x.post = <<>> => response.choices = x.answer.choices
    BY <1>1, <2>3
  <2> QED
    BY <1>1, <1>3, <2>1, <2>2, <2>4, <2>5, <2>6, CompletionsSurvive
<1>4. CASE x.kind = "chat"
  <2>1. /\ AnswersIn(x, x.backend, x.answer) = <<Meant(x, Told(x))>>
        /\ x.client = "anthropic" => Told(x).reason \notin AnthropicWords
    BY <1>1, <1>4, ToldSays
  <2>2. /\ Meant(x, response) = Meant(x, Told(x))
        /\ AllToldIn(x, AnswersIn(x, x.backend, x.answer)) = <<ToldIn(x, Meant(x, Told(x)))>>
    BY <1>1, <2>1, SameMeaning, OneTold
  <2>3. CASE x.client = "openai"
    <3>1. reply' = EncodeChatResponse(response)
      BY <1>4, <2>3 DEF Reply, IsCompletion
    <3>2. AnswersIn(x, "openai", EncodeChatResponse(response))
             = <<ToldIn(x, Meant(x, response))>>
      BY <1>1, <1>4, <2>3, ChatSaysMeant
    <3> QED
      BY <2>2, <2>3, <3>1, <3>2
  <2>4. CASE x.client = "anthropic"
    <3>1. reply' = EncodeMessagesResponse(response)
      BY <1>4, <2>4 DEF Reply, IsCompletion
    <3>2. response.reason \notin AnthropicWords
      BY <1>1, <2>1, <2>4 DEF SameResponse
    <3>3. AnswersIn(x, "anthropic", EncodeMessagesResponse(response)) = <<Meant(x, response)>>
      BY <1>1, <1>4, <3>2, MessagesSayMeant
    <3>4. ToldIn(x, Meant(x, Told(x))) = Meant(x, Told(x))
      BY <2>4 DEF ToldIn
    <3> QED
      BY <2>2, <2>4, <3>1, <3>3, <3>4
  <2> QED
    BY <1>2, <2>3, <2>4
<1> QED
  BY <1>2, <1>3, <1>4

(* AnswerSurvives for a given exchange and a given body.                   *)
ArrivesIn(x, b) ==
    b # NoBody /\ AnswersIn(x, x.backend, x.answer) # <<>> =>
        AnswersIn(x, x.client, b) = AllToldIn(x, AnswersIn(x, x.backend, x.answer))

LEMMA ArrivesSaid == AnswerSurvives <=> ArrivesIn(exchange, reply)
<1>1. \A protocol, b : AnswersOf(protocol, b) = AnswersIn(exchange, protocol, b)
  BY DEF AnswersOf, AnswersIn, Answer, AnswerIn, IsCompletion, post
<1>2. \A a : AsClientIsTold(a) = ToldIn(exchange, a)
  BY DEF AsClientIsTold, ToldIn
<1>3. PICK said : said = AnswersIn(exchange, exchange.backend, exchange.answer)
  OBVIOUS
<1>4. [n \in DOMAIN said |-> AsClientIsTold(said[n])] = AllToldIn(exchange, said)
  BY <1>2 DEF AllToldIn
<1> QED
  BY <1>1, <1>3, <1>4 DEF AnswerSurvives, ArrivesIn

(* What the client is told is what the backend said: each choice's text,   *)
(* its calls and why it ended, whatever the two protocols, and the text    *)
(* unless the hooks edit it.  A reason is changed only from stop to        *)
(* tool_calls, for an OpenAI client, where there are calls.                *)
THEOREM AnswersArrive ==
    ASSUME AnswersAreSayable
    PROVE  Spec => []AnswerSurvives
<1> DEFINE Said == ArrivesIn(exchange, reply)
<1>1. Init => Said
  BY DEF Init, ArrivesIn
<1>2. ExchangeInv /\ Said /\ [Next]_vars => Said'
  <2> SUFFICES ASSUME ExchangeInv, Said, [Next]_vars PROVE Said'
    OBVIOUS
  <2>1. CASE Reply
    <3>1. exchange' = exchange
      BY <2>1 DEF Reply
    <3> QED
      BY <2>1, <3>1, ReplySurvives DEF ArrivesIn
  <2>2. CASE UNCHANGED <<exchange, reply>>
    BY <2>2
  <2> QED
    BY <2>1, <2>2 DEF Next, Terminated, vars, DecodeRequest, PreRequestHook,
                      RefuseRequest, Send, Receive, PostResponseHook, Sync, RefuseReply
<1>3. AnswerSurvives <=> Said
  BY ArrivesSaid
<1> HIDE DEF Said
<1> QED
  BY <1>1, <1>2, <1>3, ExchangeInvariant, PTL DEF Spec

-----------------------------------------------------------------------------
(* The two copies of a response's text.                                    *)
IsMirrored(r) == r.choices # <<>> => r.content = r.choices[1].text

LEMMA ToldIsMirrored ==
    ASSUME NEW x
    PROVE  IsMirrored(Told(x))
BY DEF Told, IsMirrored, DecodeCompletionResponse, DecodeChatResponse,
       DecodeMessagesResponse

(* Whichever copy was edited, the other one follows.                       *)
LEMMA SyncMirrors ==
    ASSUME NEW r \in NormalizedResponse, NEW d \in NormalizedResponse,
           SameResponse(r, d), IsMirrored(d)
    PROVE  IsMirrored(Synced(r, d))
<1>1. CASE r.choices = <<>>
  BY <1>1 DEF Synced, IsMirrored
<1>2. CASE r.choices # <<>>
  <2>1. 1 \in DOMAIN r.choices /\ DOMAIN r.choices = DOMAIN d.choices
    BY <1>2 DEF NormalizedResponse, SameResponse
  <2>2. d.choices # <<>> /\ d.content = d.choices[1].text
    BY <2>1 DEF IsMirrored
  <2>3. CASE ChoicesChanged(r, d)
    <3>1. Synced(r, d) = [r EXCEPT !.content = r.choices[1].text]
      BY <1>2, <2>3 DEF Synced
    <3> QED
      BY <3>1 DEF IsMirrored, NormalizedResponse
  <2>4. CASE ~ChoicesChanged(r, d) /\ r.content # d.content
    <3>1. Synced(r, d) = [r EXCEPT !.choices[1].text = r.content]
      BY <1>2, <2>4 DEF Synced
    <3>2. r.content \in Text
      BY DEF NormalizedResponse
    <3>3. /\ Synced(r, d).content = r.content
          /\ Synced(r, d).choices[1].text = r.content
      BY <2>1, <3>1, <3>2, ChoiceSet
    <3> QED
      BY <3>3 DEF IsMirrored
  <2>5. CASE ~ChoicesChanged(r, d) /\ r.content = d.content
    <3>1. r.choices[1].text = d.choices[1].text
      BY <2>1, <2>5 DEF ChoicesChanged
    <3>2. Synced(r, d) = r
      BY <1>2, <2>5 DEF Synced
    <3> QED
      BY <2>2, <2>5, <3>1, <3>2 DEF IsMirrored
  <2> QED
    BY <2>3, <2>4, <2>5
<1> QED
  BY <1>1, <1>2

(* Before the backend answers there is no response.                        *)
NoAnswerYet == phase \in {"body", "pre", "sent"} => response = NoResponse

LEMMA NoAnswerYetInvariant == Spec => []NoAnswerYet
<1>1. Init => NoAnswerYet
  BY DEF Init, NoAnswerYet
<1>2. NoAnswerYet /\ [Next]_vars => NoAnswerYet'
  BY DEF NoAnswerYet, Next, Terminated, vars, DecodeRequest, PreRequestHook, RefuseRequest,
         Send, Receive, PostResponseHook, Sync, RefuseReply, Reply
<1> QED
  BY <1>1, <1>2, PTL DEF Spec

(* The content is the first choice's text whenever a response is encoded,  *)
(* whatever answers there are and whatever the hooks have edited.          *)
THEOREM CopiesAgree == Spec => []Mirrored
<1>1. Init => Mirrored
  BY DEF Init, Mirrored
<1>2. ExchangeInv /\ NoAnswerYet /\ Mirrored /\ [Next]_vars => Mirrored'
  <2> SUFFICES ASSUME ExchangeInv, NoAnswerYet, Mirrored, [Next]_vars PROVE Mirrored'
    OBVIOUS
  <2>1. CASE Sync
    <3>1. /\ response \in NormalizedResponse /\ before \in NormalizedResponse
          /\ SameResponse(response, before) /\ before = Told(exchange)
          /\ post = <<>> => response = before
      BY <2>1 DEF Sync, ExchangeInv, TypeInv, ResponseInv
    <3>2. IsMirrored(before)
      BY <3>1, ToldIsMirrored
    <3>3. response' = IF post = <<>> THEN response ELSE Synced(response, before)
      BY <2>1 DEF Sync
    <3>4. IsMirrored(response')
      BY <3>1, <3>2, <3>3, SyncMirrors
    <3> QED
      BY <3>4 DEF Mirrored, IsMirrored
  <2>2. CASE RefuseRequest
    <3>1. response' = NoResponse
      BY <2>2 DEF RefuseRequest, NoAnswerYet
    <3> QED
      BY <3>1 DEF Mirrored, NoResponse
  <2>3. CASE RefuseReply \/ Reply
    BY <2>3 DEF RefuseReply, Reply, Mirrored
  <2>4. CASE UNCHANGED <<phase, response>>
    BY <2>4 DEF Mirrored
  <2>5. CASE phase' \notin {"encode", "answered", "refused"}
    BY <2>5 DEF Mirrored
  <2> QED
    BY <2>1, <2>2, <2>3, <2>4, <2>5 DEF Next, Terminated, vars, DecodeRequest,
       PreRequestHook, Send, Receive, PostResponseHook
<1> QED
  BY <1>1, <1>2, ExchangeInvariant, NoAnswerYetInvariant, PTL DEF Spec

-----------------------------------------------------------------------------
(* Turns, one message after another.                                       *)
Result == [id: Nat, text: Text]

AnyTurn == [by: {"user", "assistant"}, text: Text, calls: Seq(Nat), results: Seq(Result)]

Merged(t, u) ==
    Turn(t.by, t.text \o u.text, t.calls \o u.calls, t.results \o u.results)

AddTurn(turns, t) ==
    IF turns # <<>> /\ Last(turns).by = t.by
    THEN Append(Front(turns), Merged(Last(turns), t))
    ELSE Append(turns, t)

(* f[n] is what the first n messages make of the turns there were.         *)
Adds(turns, messages, f) ==
    /\ f[0] = turns
    /\ \A n \in 1..Len(messages) : f[n] = AddTurn(f[n - 1], messages[n])

(* The same of a function of the first k messages.                         *)
AddsUpTo(turns, messages, k, f) ==
    f = [n \in 0..k |-> IF n = 0 THEN turns ELSE AddTurn(f[n - 1], messages[n])]

LEMMA AddsStepwise ==
    ASSUME NEW turns, NEW messages, NEW k \in Nat, NEW f, AddsUpTo(turns, messages, k, f)
    PROVE  \E g : AddsUpTo(turns, messages, k + 1, g)
<1> DEFINE Last1 == AddTurn(f[k], messages[k + 1])
           g == [n \in 0..(k + 1) |-> IF n = k + 1 THEN Last1 ELSE f[n]]
           Of(n) == IF n = 0 THEN turns ELSE AddTurn(g[n - 1], messages[n])
<1>1. ASSUME NEW n \in 0..(k + 1) PROVE g[n] = Of(n)
  <2>1. CASE n = k + 1
    <3>1. n # 0 /\ n - 1 = k /\ k \in 0..(k + 1) /\ k # k + 1
      BY <2>1
    <3>2. g[n - 1] = f[k] /\ g[n] = Last1
      BY <2>1, <3>1
    <3> QED
      BY <2>1, <3>1, <3>2
  <2>2. CASE n # k + 1
    <3>1. n \in 0..k /\ (n # 0 => n - 1 \in 0..(k + 1) /\ n - 1 # k + 1)
      BY <2>2
    <3>2. g[n] = f[n] /\ (n # 0 => g[n - 1] = f[n - 1])
      BY <2>2, <3>1
    <3>3. f[n] = IF n = 0 THEN turns ELSE AddTurn(f[n - 1], messages[n])
      BY <3>1 DEF AddsUpTo
    <3> QED
      BY <3>2, <3>3
  <2> QED
    BY <2>1, <2>2
<1>2. g = [n \in 0..(k + 1) |-> g[n]]
  OBVIOUS
<1>3. g = [n \in 0..(k + 1) |-> Of(n)]
  <2> HIDE DEF g
  <2> QED
    BY <1>1, <1>2
<1>4. AddsUpTo(turns, messages, k + 1, g)
  <2> HIDE DEF g
  <2> QED
    BY <1>3 DEF AddsUpTo
<1> QED
  BY <1>4

LEMMA AddsExist ==
    ASSUME NEW turns, NEW messages, Len(messages) \in Nat
    PROVE  \E f : AddsUpTo(turns, messages, Len(messages), f)
<1> DEFINE T == {k \in Nat : \E f : AddsUpTo(turns, messages, k, f)}
<1>1. 0 \in T
  <2> DEFINE f == [n \in 0..0 |-> turns]
  <2>1. f = [n \in 0..0 |-> IF n = 0 THEN turns ELSE AddTurn(f[n - 1], messages[n])]
    OBVIOUS
  <2>2. AddsUpTo(turns, messages, 0, f)
    BY <2>1 DEF AddsUpTo
  <2> QED
    BY <2>2
<1>2. ASSUME NEW k \in Nat, k \in T PROVE k + 1 \in T
  BY <1>2, AddsStepwise
<1>3. Len(messages) \in T
  <2> HIDE DEF T
  <2> QED
    BY <1>1, <1>2, FromZeroOn
<1> QED
  BY <1>3

LEMMA AddsUpToIs ==
    ASSUME NEW turns, NEW messages, Len(messages) \in Nat, NEW f,
           AddsUpTo(turns, messages, Len(messages), f)
    PROVE  Adds(turns, messages, f)
<1>1. f[0] = turns
  BY DEF AddsUpTo
<1>2. \A n \in 1..Len(messages) : n # 0 /\ n \in 0..Len(messages)
  OBVIOUS
<1> QED
  BY <1>1, <1>2 DEF AddsUpTo, Adds

LEMMA TurnsAre ==
    ASSUME NEW messages, Len(messages) \in Nat
    PROVE  \E f : Adds(<<>>, messages, f) /\ Turns(messages) = f[Len(messages)]
<1> DEFINE f == CHOOSE f : AddsUpTo(<<>>, messages, Len(messages), f)
<1>1. AddsUpTo(<<>>, messages, Len(messages), f)
  BY AddsExist
<1>2. Turns(messages) = f[Len(messages)]
  BY DEF Turns, AddsUpTo, AddTurn, Merged
<1> HIDE DEF f
<1> QED
  BY <1>1, <1>2, AddsUpToIs

(* What the messages make of the turns there were.                         *)
Onto(turns, messages) ==
    (CHOOSE f : AddsUpTo(turns, messages, Len(messages), f))[Len(messages)]

LEMMA OntoIs ==
    ASSUME NEW turns, NEW messages, Len(messages) \in Nat
    PROVE  \E f : Adds(turns, messages, f) /\ Onto(turns, messages) = f[Len(messages)]
<1> DEFINE f == CHOOSE f : AddsUpTo(turns, messages, Len(messages), f)
<1>1. AddsUpTo(turns, messages, Len(messages), f)
  BY AddsExist
<1>2. Onto(turns, messages) = f[Len(messages)]
  BY DEF Onto
<1> HIDE DEF f
<1> QED
  BY <1>1, <1>2, AddsUpToIs

LEMMA AddsSame ==
    ASSUME NEW turns, NEW messages, Len(messages) \in Nat, NEW f, NEW g,
           Adds(turns, messages, f), Adds(turns, messages, g)
    PROVE  \A n \in 0..Len(messages) : f[n] = g[n]
<1> DEFINE T == {n \in Nat : n \in 0..Len(messages) => f[n] = g[n]}
<1>1. 0 \in T
  BY DEF Adds
<1>2. ASSUME NEW n \in Nat, n \in T PROVE n + 1 \in T
  <2> SUFFICES ASSUME n + 1 \in 0..Len(messages) PROVE f[n + 1] = g[n + 1]
    OBVIOUS
  <2>1. n + 1 \in 1..Len(messages) /\ (n + 1) - 1 = n /\ n \in 0..Len(messages)
    OBVIOUS
  <2>2. /\ f[n + 1] = AddTurn(f[n], messages[n + 1])
        /\ g[n + 1] = AddTurn(g[n], messages[n + 1])
    BY <2>1 DEF Adds
  <2> QED
    BY <1>2, <2>1, <2>2
<1>3. \A n \in Nat : n \in T
  <2> HIDE DEF T
  <2> QED
    BY <1>1, <1>2, FromZeroOn
<1> QED
  BY <1>3

LEMMA OntoBy ==
    ASSUME NEW turns, NEW messages, Len(messages) \in Nat, NEW g, Adds(turns, messages, g)
    PROVE  Onto(turns, messages) = g[Len(messages)]
<1>1. PICK f : Adds(turns, messages, f) /\ Onto(turns, messages) = f[Len(messages)]
  BY OntoIs
<1>2. Len(messages) \in 0..Len(messages)
  OBVIOUS
<1>3. f[Len(messages)] = g[Len(messages)]
  BY <1>1, <1>2, AddsSame
<1> QED
  BY <1>1, <1>3

LEMMA TurnsAreOnto ==
    ASSUME NEW messages, Len(messages) \in Nat
    PROVE  Turns(messages) = Onto(<<>>, messages)
<1>1. PICK f : Adds(<<>>, messages, f) /\ Turns(messages) = f[Len(messages)]
  BY TurnsAre
<1>2. Onto(<<>>, messages) = f[Len(messages)]
  BY <1>1, OntoBy
<1> QED
  BY <1>1, <1>2

LEMMA OntoNothing ==
    ASSUME NEW turns
    PROVE  Onto(turns, <<>>) = turns
<1>1. Len(<<>>) = 0
  OBVIOUS
<1>2. PICK f : Adds(turns, <<>>, f) /\ Onto(turns, <<>>) = f[Len(<<>>)]
  BY <1>1, OntoIs
<1> QED
  BY <1>1, <1>2 DEF Adds

LEMMA OntoOne ==
    ASSUME NEW turns, NEW t
    PROVE  Onto(turns, <<t>>) = AddTurn(turns, t)
<1>1. Len(<<t>>) = 1 /\ <<t>>[1] = t
  OBVIOUS
<1>2. PICK f : Adds(turns, <<t>>, f) /\ Onto(turns, <<t>>) = f[Len(<<t>>)]
  BY <1>1, OntoIs
<1>3. 1 \in 1..1 /\ 1 - 1 = 0
  OBVIOUS
<1>4. f[1] = AddTurn(f[1 - 1], <<t>>[1])
  BY <1>1, <1>2, <1>3 DEF Adds
<1>5. f[0] = turns
  BY <1>2 DEF Adds
<1> QED
  BY <1>1, <1>2, <1>3, <1>4, <1>5

LEMMA OntoConcat ==
    ASSUME NEW S, NEW a \in Seq(S), NEW b \in Seq(S), NEW turns
    PROVE  Onto(turns, a \o b) = Onto(Onto(turns, a), b)
<1>1. PICK la \in Nat : la = Len(a)
  OBVIOUS
<1>2. PICK lb \in Nat : lb = Len(b)
  OBVIOUS
<1>3. /\ Len(a \o b) = la + lb
      /\ \A n \in 1..la : (a \o b)[n] = a[n]
      /\ \A n \in 1..lb : (a \o b)[la + n] = b[n]
  BY <1>1, <1>2
<1>4. PICK f : Adds(turns, a, f) /\ Onto(turns, a) = f[la]
  BY <1>1, OntoIs
<1>5. PICK g : Adds(f[la], b, g) /\ Onto(f[la], b) = g[lb]
  BY <1>2, OntoIs
<1>6. PICK c : c = a \o b
  OBVIOUS
<1> DEFINE h == [n \in 0..(la + lb) |-> IF n <= la THEN f[n] ELSE g[n - la]]
<1>7. h[0] = turns
  <2>1. 0 \in 0..(la + lb) /\ 0 <= la
    OBVIOUS
  <2>2. h[0] = f[0]
    BY <2>1
  <2> QED
    BY <1>4, <2>2 DEF Adds
<1>8. g[0] = f[la]
  BY <1>5 DEF Adds
<1>9. ASSUME NEW n \in 1..(la + lb) PROVE h[n] = AddTurn(h[n - 1], c[n])
  <2>1. CASE n <= la
    <3>1. n \in 1..la /\ n \in 0..(la + lb) /\ n - 1 \in 0..(la + lb) /\ n - 1 <= la
      BY <2>1
    <3>2. h[n] = f[n] /\ h[n - 1] = f[n - 1]
      BY <2>1, <3>1
    <3>3. f[n] = AddTurn(f[n - 1], a[n])
      BY <1>1, <1>4, <3>1 DEF Adds
    <3>4. c[n] = a[n]
      BY <1>3, <1>6, <3>1
    <3> QED
      BY <3>2, <3>3, <3>4
  <2>2. CASE ~(n <= la)
    <3>1. PICK k \in 1..lb : n = la + k /\ n - la = k /\ (n - 1) - la = k - 1
      <4>1. n - la \in 1..lb
        BY <2>2
      <4>2. n = la + (n - la) /\ (n - 1) - la = (n - la) - 1
        OBVIOUS
      <4> QED
        BY <4>1, <4>2
    <3>2. n \in 0..(la + lb) /\ n - 1 \in 0..(la + lb)
      BY <2>2
    <3>3. h[n] = g[k]
      BY <2>2, <3>1, <3>2
    <3>4. h[n - 1] = g[k - 1]
      <4>1. CASE n - 1 <= la
        <5>1. n - 1 = la /\ k - 1 = 0
          BY <2>2, <3>1, <4>1
        <5>2. h[n - 1] = f[n - 1]
          BY <3>2, <4>1
        <5> QED
          BY <1>8, <5>1, <5>2
      <4>2. CASE ~(n - 1 <= la)
        BY <3>1, <3>2, <4>2
      <4> QED
        BY <4>1, <4>2
    <3>5. g[k] = AddTurn(g[k - 1], b[k])
      BY <1>2, <1>5, <3>1 DEF Adds
    <3>6. c[n] = b[k]
      BY <1>3, <1>6, <3>1
    <3> QED
      BY <3>3, <3>4, <3>5, <3>6
  <2> QED
    BY <2>1, <2>2
<1>10. h[la + lb] = g[lb]
  <2>1. la + lb \in 0..(la + lb)
    OBVIOUS
  <2>2. CASE lb = 0
    <3>1. la + lb = la /\ la + lb <= la
      BY <2>2
    <3>2. h[la + lb] = f[la + lb]
      BY <2>1, <3>1
    <3> QED
      BY <1>8, <2>2, <3>1, <3>2
  <2>3. CASE lb # 0
    <3>1. ~(la + lb <= la) /\ (la + lb) - la = lb
      BY <2>3
    <3> QED
      BY <2>1, <3>1
  <2> QED
    BY <2>2, <2>3
<1> HIDE DEF h
<1>11. Len(c) = la + lb
  BY <1>3, <1>6
<1>12. Adds(turns, c, h)
  BY <1>7, <1>9, <1>11 DEF Adds
<1>13. Onto(turns, c) = h[la + lb]
  <2>1. Len(c) \in Nat
    BY <1>11
  <2> QED
    BY <1>11, <1>12, <2>1, OntoBy
<1> QED
  BY <1>4, <1>5, <1>6, <1>10, <1>13

LEMMA EndOfSeq ==
    ASSUME NEW S, NEW s \in Seq(S), NEW e \in S
    PROVE  /\ Append(s, e) \in Seq(S) /\ Append(s, e) # <<>>
           /\ Last(Append(s, e)) = e /\ Front(Append(s, e)) = s
           /\ s # <<>> => Last(s) \in S /\ Front(s) \in Seq(S)
<1>1. Append(s, e) \in Seq(S) /\ Append(s, e) # <<>> /\ Last(Append(s, e)) = e
  BY DEF Last
<1>2. Front(Append(s, e)) = s
  BY DEF Front
<1>3. s # <<>> => Last(s) \in S /\ Front(s) \in Seq(S)
  BY DEF Last, Front
<1> QED
  BY <1>1, <1>2, <1>3

LEMMA MergedType ==
    ASSUME NEW t \in AnyTurn, NEW u \in AnyTurn
    PROVE  Merged(t, u) \in AnyTurn /\ Merged(t, u).by = t.by
<1>1. /\ t.text \in Text /\ t.calls \in Seq(Nat) /\ t.results \in Seq(Result)
      /\ u.text \in Text /\ u.calls \in Seq(Nat) /\ u.results \in Seq(Result)
      /\ t.by \in {"user", "assistant"}
  BY DEF AnyTurn
<1>2. /\ t.text \o u.text \in Text /\ t.calls \o u.calls \in Seq(Nat)
      /\ t.results \o u.results \in Seq(Result)
  BY <1>1 DEF Text
<1> QED
  BY <1>1, <1>2 DEF Merged, Turn, AnyTurn

LEMMA ConcatAgain ==
    ASSUME NEW S, NEW a \in Seq(S), NEW b \in Seq(S), NEW c \in Seq(S)
    PROVE  (a \o b) \o c = a \o (b \o c)
OBVIOUS

LEMMA MergedAgain ==
    ASSUME NEW t \in AnyTurn, NEW u \in AnyTurn, NEW v \in AnyTurn
    PROVE  Merged(Merged(t, u), v) = Merged(t, Merged(u, v))
<1>1. /\ t.text \in Text /\ t.calls \in Seq(Nat) /\ t.results \in Seq(Result)
      /\ u.text \in Text /\ u.calls \in Seq(Nat) /\ u.results \in Seq(Result)
      /\ v.text \in Text /\ v.calls \in Seq(Nat) /\ v.results \in Seq(Result)
  BY DEF AnyTurn
<1>2. PICK a, b, c : a = t.text /\ b = u.text /\ c = v.text
  OBVIOUS
<1>3. a \in Seq(Symbol) /\ b \in Seq(Symbol) /\ c \in Seq(Symbol)
  BY <1>1, <1>2 DEF Text
<1>4. (a \o b) \o c = a \o (b \o c)
  BY <1>3, ConcatAgain
<1>5. PICK d, e, f : d = t.calls /\ e = u.calls /\ f = v.calls
  OBVIOUS
<1>6. d \in Seq(Nat) /\ e \in Seq(Nat) /\ f \in Seq(Nat)
  BY <1>1, <1>5
<1>7. (d \o e) \o f = d \o (e \o f)
  BY <1>6, ConcatAgain
<1>8. PICK g, h, i : g = t.results /\ h = u.results /\ i = v.results
  OBVIOUS
<1>9. g \in Seq(Result) /\ h \in Seq(Result) /\ i \in Seq(Result)
  BY <1>1, <1>8
<1>10. (g \o h) \o i = g \o (h \o i)
  BY <1>9, ConcatAgain
<1> QED
  BY <1>2, <1>4, <1>5, <1>7, <1>8, <1>10 DEF Merged, Turn

LEMMA AddTurnType ==
    ASSUME NEW turns \in Seq(AnyTurn), NEW t \in AnyTurn
    PROVE  AddTurn(turns, t) \in Seq(AnyTurn)
<1>1. CASE turns # <<>> /\ Last(turns).by = t.by
  <2>1. Last(turns) \in AnyTurn /\ Front(turns) \in Seq(AnyTurn)
    BY <1>1, EndOfSeq
  <2>2. Merged(Last(turns), t) \in AnyTurn
    BY <2>1, MergedType
  <2>3. Append(Front(turns), Merged(Last(turns), t)) \in Seq(AnyTurn)
    BY <2>1, <2>2, EndOfSeq
  <2> QED
    BY <1>1, <2>3 DEF AddTurn
<1>2. CASE ~(turns # <<>> /\ Last(turns).by = t.by)
  <2>1. Append(turns, t) \in Seq(AnyTurn)
    BY EndOfSeq
  <2> QED
    BY <1>2, <2>1 DEF AddTurn
<1> QED
  BY <1>1, <1>2

(* Two messages of one side are as good as one.                            *)
LEMMA AddMerged ==
    ASSUME NEW turns \in Seq(AnyTurn), NEW t \in AnyTurn, NEW u \in AnyTurn, t.by = u.by
    PROVE  AddTurn(AddTurn(turns, t), u) = AddTurn(turns, Merged(t, u))
<1>1. Merged(t, u) \in AnyTurn /\ Merged(t, u).by = t.by
  BY MergedType
<1>2. CASE turns # <<>> /\ Last(turns).by = t.by
  <2>1. PICK l : l = Last(turns)
    OBVIOUS
  <2>2. PICK s : s = Front(turns)
    OBVIOUS
  <2>3. l \in AnyTurn /\ s \in Seq(AnyTurn)
    BY <1>2, <2>1, <2>2, EndOfSeq
  <2>4. Merged(l, t) \in AnyTurn /\ Merged(l, t).by = l.by
    BY <2>3, MergedType
  <2>5. AddTurn(turns, t) = Append(s, Merged(l, t))
    BY <1>2, <2>1, <2>2 DEF AddTurn
  <2>6. PICK a : a = Append(s, Merged(l, t))
    OBVIOUS
  <2>7. a # <<>> /\ Last(a) = Merged(l, t) /\ Front(a) = s
    BY <2>3, <2>4, <2>6, EndOfSeq
  <2>8. AddTurn(a, u) = Append(s, Merged(Merged(l, t), u))
    BY <1>2, <2>1, <2>4, <2>7 DEF AddTurn
  <2>9. Merged(Merged(l, t), u) = Merged(l, Merged(t, u))
    BY <2>3, MergedAgain
  <2>10. AddTurn(turns, Merged(t, u)) = Append(s, Merged(l, Merged(t, u)))
    BY <1>1, <1>2, <2>1, <2>2 DEF AddTurn
  <2> QED
    BY <2>5, <2>6, <2>8, <2>9, <2>10
<1>3. CASE ~(turns # <<>> /\ Last(turns).by = t.by)
  <2>1. PICK a : a = Append(turns, t)
    OBVIOUS
  <2>2. AddTurn(turns, t) = a
    BY <1>3, <2>1 DEF AddTurn
  <2>3. a # <<>> /\ Last(a) = t /\ Front(a) = turns
    BY <2>1, EndOfSeq
  <2>4. AddTurn(a, u) = Append(turns, Merged(t, u))
    BY <2>3 DEF AddTurn
  <2>5. AddTurn(turns, Merged(t, u)) = Append(turns, Merged(t, u))
    BY <1>1, <1>3 DEF AddTurn
  <2> QED
    BY <2>2, <2>4, <2>5
<1> QED
  BY <1>2, <1>3

LEMMA AddsType ==
    ASSUME NEW turns \in Seq(AnyTurn), NEW messages \in Seq(AnyTurn),
           NEW f, Adds(turns, messages, f)
    PROVE  \A n \in 0..Len(messages) : f[n] \in Seq(AnyTurn)
<1> DEFINE T == {n \in Nat : n \in 0..Len(messages) => f[n] \in Seq(AnyTurn)}
<1>1. 0 \in T
  BY DEF Adds
<1>2. ASSUME NEW n \in Nat, n \in T PROVE n + 1 \in T
  <2> SUFFICES ASSUME n + 1 \in 0..Len(messages) PROVE f[n + 1] \in Seq(AnyTurn)
    OBVIOUS
  <2>1. n + 1 \in 1..Len(messages) /\ (n + 1) - 1 = n /\ n \in 0..Len(messages)
    OBVIOUS
  <2>2. f[n + 1] = AddTurn(f[n], messages[n + 1])
    BY <2>1 DEF Adds
  <2>3. f[n] \in Seq(AnyTurn) /\ messages[n + 1] \in AnyTurn
    BY <1>2, <2>1
  <2> QED
    BY <2>2, <2>3, AddTurnType
<1>3. \A n \in Nat : n \in T
  <2> HIDE DEF T
  <2> QED
    BY <1>1, <1>2, FromZeroOn
<1> QED
  BY <1>3

LEMMA OntoType ==
    ASSUME NEW turns \in Seq(AnyTurn), NEW messages \in Seq(AnyTurn)
    PROVE  Onto(turns, messages) \in Seq(AnyTurn)
<1>1. PICK f : Adds(turns, messages, f) /\ Onto(turns, messages) = f[Len(messages)]
  BY OntoIs
<1>2. Len(messages) \in 0..Len(messages)
  OBVIOUS
<1> QED
  BY <1>1, <1>2, AddsType

-----------------------------------------------------------------------------
(* What a message of the neutral form means, as a turn.                    *)
Meaning(m) ==
    IF m.role = "tool"
    THEN Turn("user", <<>>, <<>>, <<[id |-> m.answers, text |-> m.content]>>)
    ELSE Turn(m.role, m.content, CallIds(m.calls), <<>>)

Meanings(ms) == [n \in DOMAIN ms |-> Meaning(ms[n])]

LEMMA CallIdsType ==
    ASSUME NEW calls \in Seq(ToolCall)
    PROVE  CallIds(calls) \in Seq(Nat)
<1>1. \A n \in DOMAIN calls : calls[n] \in ToolCall
  OBVIOUS
<1>2. CallIds(calls) \in [DOMAIN calls -> Nat]
  BY <1>1 DEF CallIds, ToolCall
<1> QED
  BY <1>2, SeqOnDomain

LEMMA MeaningType ==
    ASSUME NEW m \in Message
    PROVE  Meaning(m) \in AnyTurn
<1>1. /\ m.role \in Roles /\ m.content \in Text /\ m.calls \in Seq(ToolCall)
      /\ m.answers \in Nat
  BY DEF Message
<1>2. CallIds(m.calls) \in Seq(Nat)
  BY <1>1, CallIdsType
<1>3. PICK r : r = [id |-> m.answers, text |-> m.content]
  OBVIOUS
<1>4. r \in Result
  BY <1>1, <1>3 DEF Result
<1>5. <<r>> \in Seq(Result) /\ <<>> \in Seq(Result) /\ <<>> \in Seq(Nat)
  BY <1>4
<1>6. <<>> \in Text
  BY DEF Text
<1>7. m.role = "tool" => Meaning(m) = Turn("user", <<>>, <<>>, <<r>>)
  BY <1>3 DEF Meaning
<1>8. Turn("user", <<>>, <<>>, <<r>>) \in AnyTurn
  BY <1>5, <1>6 DEF Turn, AnyTurn
<1>9. m.role # "tool" => Meaning(m) \in AnyTurn
  BY <1>1, <1>2, <1>5 DEF Meaning, Turn, AnyTurn, Roles
<1> QED
  BY <1>7, <1>8, <1>9

LEMMA MeaningsType ==
    ASSUME NEW ms \in Seq(Message)
    PROVE  /\ Meanings(ms) \in Seq(AnyTurn) /\ Len(Meanings(ms)) = Len(ms)
           /\ \A n \in 1..Len(ms) : Meanings(ms)[n] = Meaning(ms[n])
<1>1. \A n \in DOMAIN ms : ms[n] \in Message
  OBVIOUS
<1>2. Meanings(ms) \in [DOMAIN ms -> AnyTurn]
  BY <1>1, MeaningType DEF Meanings
<1>3. Meanings(ms) \in Seq(AnyTurn) /\ Len(Meanings(ms)) = Len(ms)
  BY <1>2, SeqOnDomain
<1>4. \A n \in 1..Len(ms) : Meanings(ms)[n] = Meaning(ms[n])
  BY DEF Meanings
<1> QED
  BY <1>3, <1>4

(* An OpenAI body means what it is decoded to.                             *)
LEMMA OpenAIMeans ==
    ASSUME NEW b, b.messages \in Seq(OpenAIMessage)
    PROVE  MessagesOf("openai", b) = Meanings(DecodeOpenAIMessages(b.messages))
<1> DEFINE others == Those(b.messages, IsNotSystem)
           ds == [n \in DOMAIN others |-> DecodeMessage(others[n])]
<1>1. others \in Seq({m \in OpenAIMessage : m.role # "system"})
  BY OthersType
<1>2. DecodeOpenAIMessages(b.messages) = ds
  BY DEF DecodeOpenAIMessages
<1>3. MessagesOf("openai", b) = [n \in DOMAIN others |-> OpenAITurn(others[n])]
  BY DEF MessagesOf
<1> HIDE DEF others
<1>4. \A n \in DOMAIN others : Meaning(DecodeMessage(others[n])) = OpenAITurn(others[n])
  BY DEF Meaning, DecodeMessage, OpenAITurn
<1>5. Meanings(ds) = [n \in DOMAIN others |-> Meaning(DecodeMessage(others[n]))]
  BY DEF Meanings
<1> HIDE DEF ds
<1> QED
  BY <1>2, <1>3, <1>4, <1>5

-----------------------------------------------------------------------------
(* What is no system message is found again behind those that are.         *)
OtherSifted(s) == [n \in DOMAIN s |-> IF IsNotSystem(s[n]) THEN <<s[n]>> ELSE <<>>]

LEMMA OtherSiftedIs ==
    ASSUME NEW A, NEW s \in Seq(A)
    PROVE  /\ OtherSifted(s) \in Seq(Seq(A)) /\ Len(OtherSifted(s)) = Len(s)
           /\ DOMAIN OtherSifted(s) = 1..Len(s)
           /\ \A n \in 1..Len(s) :
                 OtherSifted(s)[n] = IF IsNotSystem(s[n]) THEN <<s[n]>> ELSE <<>>
<1> DEFINE f == OtherSifted(s)
<1>1. \A n \in 1..Len(s) : f[n] = IF IsNotSystem(s[n]) THEN <<s[n]>> ELSE <<>>
  BY DEF OtherSifted
<1>2. f \in [DOMAIN s -> Seq(A)]
  BY DEF OtherSifted
<1> HIDE DEF f
<1>3. f \in Seq(Seq(A)) /\ Len(f) = Len(s) /\ DOMAIN f = 1..Len(s)
  BY <1>2, SeqOnDomain
<1> QED
  BY <1>1, <1>3 DEF f

LEMMA OthersAreKept ==
    ASSUME NEW A, NEW a \in Seq(A), NEW b \in Seq(A),
           \A n \in 1..Len(a) : ~IsNotSystem(a[n]), \A n \in 1..Len(b) : IsNotSystem(b[n])
    PROVE  Those(a \o b, IsNotSystem) = b
<1>1. \A s : Those(s, IsNotSystem) = FlattenSeq(OtherSifted(s))
  BY DEF Those, OtherSifted
<1>2. PICK c : c = a \o b
  OBVIOUS
<1>3. /\ c \in Seq(A) /\ Len(c) = Len(a) + Len(b) /\ Len(a) \in Nat /\ Len(b) \in Nat
      /\ \A n \in 1..Len(a) : c[n] = a[n] /\ n \in 1..Len(c)
      /\ \A n \in 1..Len(b) : c[Len(a) + n] = b[n] /\ Len(a) + n \in 1..Len(c)
  BY <1>2
<1>4. PICK u : u = OtherSifted(c)
  OBVIOUS
<1>5. PICK f : f = OtherSifted(a)
  OBVIOUS
<1>6. PICK g : g = OtherSifted(b)
  OBVIOUS
<1>7. /\ u \in Seq(Seq(A)) /\ Len(u) = Len(c)
      /\ \A n \in 1..Len(c) : u[n] = IF IsNotSystem(c[n]) THEN <<c[n]>> ELSE <<>>
  <2>1. c \in Seq(A)
    BY <1>3
  <2> QED
    BY <1>4, <2>1, OtherSiftedIs
<1>8. /\ f \in Seq(Seq(A)) /\ Len(f) = Len(a)
      /\ \A n \in 1..Len(a) : f[n] = <<>>
  BY <1>5, OtherSiftedIs
<1>9. /\ g \in Seq(Seq(A)) /\ Len(g) = Len(b) /\ DOMAIN g = 1..Len(b)
      /\ \A n \in 1..Len(b) : g[n] = <<b[n]>>
  BY <1>6, OtherSiftedIs
<1>10. \A n \in 1..Len(f) : u[n] = f[n]
  BY <1>3, <1>7, <1>8
<1>11. ASSUME NEW n \in 1..Len(g) PROVE u[Len(f) + n] = g[n]
  <2>1. n \in 1..Len(b) /\ Len(f) + n = Len(a) + n
    BY <1>8, <1>9
  <2>2. c[Len(a) + n] = b[n] /\ Len(a) + n \in 1..Len(c) /\ IsNotSystem(b[n])
    BY <1>3, <2>1
  <2>3. u[Len(a) + n] = <<b[n]>>
    BY <1>7, <2>2
  <2> QED
    BY <1>9, <2>1, <2>3
<1>12. u = f \o g
  <2>1. Len(u) = Len(f) + Len(g)
    BY <1>3, <1>7, <1>8, <1>9
  <2>2. u \in Seq(Seq(A)) /\ f \in Seq(Seq(A)) /\ g \in Seq(Seq(A))
    BY <1>7, <1>8, <1>9
  <2> QED
    BY <1>10, <1>11, <2>1, <2>2, ConcatIs, Zenon
<1>13. FlattenSeq(f \o g) = FlattenSeq(f) \o FlattenSeq(g)
  BY <1>8, <1>9, FlattenConcat
<1>14. FlattenSeq(f) = <<>>
  BY <1>8, FlattenNone
<1>15. FlattenSeq(g) = b
  <2>1. g = [n \in 1..Len(b) |-> g[n]]
    BY <1>9
  <2>2. g = [n \in DOMAIN b |-> <<b[n]>>]
    BY <1>9, <2>1
  <2> QED
    BY <2>2, FlattenOnes
<1>16. <<>> \o b = b
  OBVIOUS
<1> QED
  BY <1>1, <1>2, <1>4, <1>12, <1>13, <1>14, <1>15, <1>16, Zenon

LEMMA EncodedMeans ==
    ASSUME NEW m \in Message
    PROVE  /\ OpenAITurn(EncodeOpenAIMessage(m)) = Meaning(m)
           /\ EncodeOpenAIMessage(m) \in OpenAIMessage
           /\ IsNotSystem(EncodeOpenAIMessage(m))
<1>1. /\ m.role \in Roles /\ m.content \in Text /\ m.calls \in Seq(ToolCall)
      /\ m.answers \in Nat /\ m.content # Null
  BY NullIsNoText DEF Message
<1>2. EncodeOpenAIMessage(m) \in PlainOnly(Text)
  <2>1. <<>> \in Text
    BY DEF Text
  <2> QED
    BY <1>1, <2>1, EncodedOpenAI
<1>3. OpenAITurn(EncodeOpenAIMessage(m)) = Meaning(m)
  <2>1. CASE m.role = "tool" /\ m.answers # 0
    <3>1. EncodeOpenAIMessage(m) = [m EXCEPT !.calls = <<>>]
      BY <2>1 DEF EncodeOpenAIMessage
    <3> QED
      BY <1>1, <2>1, <3>1 DEF OpenAITurn, Meaning, OrEmpty, Message
  <2>2. CASE ~(m.role = "tool" /\ m.answers # 0) /\ m.calls # <<>>
    <3>1. EncodeOpenAIMessage(m)
             = [m EXCEPT !.content = IF m.content = <<>> THEN Null ELSE m.content,
                         !.answers = 0]
      BY <2>2 DEF EncodeOpenAIMessage
    <3> QED
      BY <1>1, <2>2, <3>1 DEF OpenAITurn, Meaning, OrEmpty, Message
  <2>3. CASE ~(m.role = "tool" /\ m.answers # 0) /\ m.calls = <<>>
    <3>1. EncodeOpenAIMessage(m) = [m EXCEPT !.answers = 0]
      BY <2>3 DEF EncodeOpenAIMessage
    <3> QED
      BY <1>1, <2>3, <3>1 DEF OpenAITurn, Meaning, OrEmpty, Message
  <2> QED
    BY <2>1, <2>2, <2>3
<1> QED
  BY <1>2, <1>3 DEF PlainOnly, IsNotSystem, IsSystem

(* What is encoded for an OpenAI backend means what it meant.              *)
LEMMA EncodeOpenAIMeans ==
    ASSUME NEW r \in NormalizedRequest
    PROVE  MessagesOf("openai", EncodeChatRequest(r)) = Meanings(r.messages)
<1> DEFINE s == IF r.system = <<>> THEN <<>> ELSE <<Saying("system", r.system)>>
           es == [n \in DOMAIN r.messages |-> EncodeOpenAIMessage(r.messages[n])]
           b == EncodeChatRequest(r)
<1>1. r.messages \in Seq(Message) /\ r.system \in Text
  BY DEF NormalizedRequest
<1>2. b.messages = s \o es
  BY DEF EncodeChatRequest
<1>3. \A n \in DOMAIN r.messages : r.messages[n] \in Message
  BY <1>1
<1>4. es \in [DOMAIN r.messages -> OpenAIMessage]
  BY <1>3, EncodedMeans
<1>5. \A n \in DOMAIN r.messages : es[n] = EncodeOpenAIMessage(r.messages[n])
  OBVIOUS
<1>6. s \in Seq(OpenAIMessage) /\ \A n \in 1..Len(s) : ~IsNotSystem(s[n])
  <2>1. <<>> \in Seq(ToolCall)
    OBVIOUS
  <2>2. Saying("system", r.system) \in OpenAIMessage
    BY <1>1, <2>1 DEF Saying, OpenAIMessage
  <2>3. Saying("system", r.system).role = "system"
    BY DEF Saying
  <2> QED
    BY <2>2, <2>3 DEF IsNotSystem, IsSystem
<1> HIDE DEF s, es
<1>7. es \in Seq(OpenAIMessage) /\ Len(es) = Len(r.messages)
      /\ DOMAIN es = 1..Len(r.messages)
  BY <1>1, <1>4, SeqOnDomain
<1>8. \A n \in 1..Len(es) : IsNotSystem(es[n])
  BY <1>3, <1>5, <1>7, EncodedMeans
<1>9. Those(s \o es, IsNotSystem) = es
  BY <1>6, <1>7, <1>8, OthersAreKept
<1>10. MessagesOf("openai", b) = [n \in DOMAIN es |-> OpenAITurn(es[n])]
  BY <1>2, <1>9 DEF MessagesOf
<1>11. \A n \in DOMAIN r.messages : OpenAITurn(es[n]) = Meaning(r.messages[n])
  BY <1>3, <1>5, EncodedMeans
<1>12. DOMAIN es = DOMAIN r.messages
  BY <1>1, <1>7
<1> HIDE DEF b
<1>13. MessagesOf("openai", b) = Meanings(r.messages)
  BY <1>10, <1>11, <1>12, Zenon DEF Meanings
<1> QED
  BY <1>13 DEF b

-----------------------------------------------------------------------------
(* A function of each element.                                             *)
Mapped(f, s) == [n \in DOMAIN s |-> f[s[n]]]

IsMap(f, S, B) == f \in [S -> B]

LEMMA MappedType ==
    ASSUME NEW S, NEW B, NEW f, IsMap(f, S, B), NEW s \in Seq(S)
    PROVE  /\ Mapped(f, s) \in Seq(B) /\ Len(Mapped(f, s)) = Len(s)
           /\ \A n \in 1..Len(s) : Mapped(f, s)[n] = f[s[n]]
<1>1. \A n \in DOMAIN s : s[n] \in S
  OBVIOUS
<1>2. Mapped(f, s) \in [DOMAIN s -> B]
  BY <1>1 DEF Mapped, IsMap
<1>3. Mapped(f, s) \in Seq(B) /\ Len(Mapped(f, s)) = Len(s)
  BY <1>2, SeqOnDomain
<1>4. \A n \in 1..Len(s) : Mapped(f, s)[n] = f[s[n]]
  BY DEF Mapped
<1> QED
  BY <1>3, <1>4

LEMMA MappedConcat ==
    ASSUME NEW S, NEW B, NEW f, IsMap(f, S, B), NEW a \in Seq(S), NEW b \in Seq(S)
    PROVE  Mapped(f, a \o b) = Mapped(f, a) \o Mapped(f, b)
<1>1. PICK c : c = a \o b
  OBVIOUS
<1>2. /\ c \in Seq(S) /\ Len(c) = Len(a) + Len(b) /\ Len(a) \in Nat /\ Len(b) \in Nat
      /\ \A n \in 1..Len(a) : c[n] = a[n] /\ n \in 1..Len(c)
      /\ \A n \in 1..Len(b) : c[Len(a) + n] = b[n] /\ Len(a) + n \in 1..Len(c)
  BY <1>1
<1>3. PICK u : u = Mapped(f, c)
  OBVIOUS
<1>4. PICK v : v = Mapped(f, a)
  OBVIOUS
<1>5. PICK w : w = Mapped(f, b)
  OBVIOUS
<1>6. u \in Seq(B) /\ Len(u) = Len(c) /\ \A n \in 1..Len(c) : u[n] = f[c[n]]
  <2>1. c \in Seq(S)
    BY <1>2
  <2> QED
    BY <1>3, <2>1, MappedType
<1>7. v \in Seq(B) /\ Len(v) = Len(a) /\ \A n \in 1..Len(a) : v[n] = f[a[n]]
  BY <1>4, MappedType
<1>8. w \in Seq(B) /\ Len(w) = Len(b) /\ \A n \in 1..Len(b) : w[n] = f[b[n]]
  BY <1>5, MappedType
<1>9. ASSUME NEW n \in 1..Len(v) PROVE u[n] = v[n]
  BY <1>2, <1>6, <1>7
<1>10. ASSUME NEW n \in 1..Len(w) PROVE u[Len(v) + n] = w[n]
  <2>1. n \in 1..Len(b) /\ Len(v) + n = Len(a) + n
    BY <1>7, <1>8
  <2>2. c[Len(a) + n] = b[n] /\ Len(a) + n \in 1..Len(c)
    BY <1>2, <2>1
  <2> QED
    BY <1>6, <1>8, <2>1, <2>2
<1>11. u = v \o w
  <2>1. Len(u) = Len(v) + Len(w)
    BY <1>2, <1>6, <1>7, <1>8
  <2>2. u \in Seq(B) /\ v \in Seq(B) /\ w \in Seq(B)
    BY <1>6, <1>7, <1>8
  <2> QED
    BY <1>9, <1>10, <2>1, <2>2, ConcatIs, Zenon
<1> QED
  BY <1>1, <1>3, <1>4, <1>5, <1>11

(* The turns of messages that come in several sequences.                   *)
LEMMA OntoFlatten ==
    ASSUME NEW S, NEW B, NEW f, IsMap(f, S, B), NEW s \in Seq(Seq(S))
    PROVE  \E g : /\ g[0] = <<>>
                  /\ \A n \in 1..Len(s) : g[n] = Onto(g[n - 1], Mapped(f, s[n]))
                  /\ Onto(<<>>, Mapped(f, FlattenSeq(s))) = g[Len(s)]
<1>1. PICK h : /\ Steps(s, h) /\ FlattenSeq(s) = h[Len(s)]
               /\ \A n \in 0..Len(s) : h[n] \in Seq(S)
  BY FlattenSteps
<1> DEFINE g == [n \in 0..Len(s) |-> Onto(<<>>, Mapped(f, h[n]))]
<1>2. g[0] = <<>>
  <2>1. h[0] = <<>> /\ 0 \in 0..Len(s)
    BY <1>1 DEF Steps
  <2>2. Mapped(f, <<>>) = <<>>
    BY DEF Mapped
  <2>3. g[0] = Onto(<<>>, <<>>)
    BY <2>1, <2>2
  <2> QED
    BY <2>3, OntoNothing
<1>3. ASSUME NEW n \in 1..Len(s) PROVE g[n] = Onto(g[n - 1], Mapped(f, s[n]))
  <2>1. n - 1 \in 0..Len(s) /\ n \in 0..Len(s)
    OBVIOUS
  <2>10. h[n] = h[n - 1] \o s[n]
    BY <1>1 DEF Steps
  <2>11. h[n - 1] \in Seq(S)
    BY <1>1, <2>1
  <2>12. s[n] \in Seq(S)
    OBVIOUS
  <2>2. h[n] = h[n - 1] \o s[n] /\ h[n - 1] \in Seq(S) /\ s[n] \in Seq(S)
    BY <2>10, <2>11, <2>12
  <2>3. Mapped(f, h[n]) = Mapped(f, h[n - 1]) \o Mapped(f, s[n])
    <3>1. PICK a : a = h[n - 1]
      OBVIOUS
    <3>2. PICK b : b = s[n]
      OBVIOUS
    <3>3. a \in Seq(S) /\ b \in Seq(S)
      BY <2>2, <3>1, <3>2
    <3>4. Mapped(f, a \o b) = Mapped(f, a) \o Mapped(f, b)
      BY <3>3, MappedConcat
    <3> QED
      BY <2>2, <3>1, <3>2, <3>4
  <2>4. Mapped(f, h[n - 1]) \in Seq(B) /\ Mapped(f, s[n]) \in Seq(B)
    BY <2>2, MappedType
  <2>5. PICK v : v = Mapped(f, h[n - 1])
    OBVIOUS
  <2>6. PICK w : w = Mapped(f, s[n])
    OBVIOUS
  <2>7. v \in Seq(B) /\ w \in Seq(B)
    BY <2>4, <2>5, <2>6
  <2>8. Onto(<<>>, v \o w) = Onto(Onto(<<>>, v), w)
    BY <2>7, OntoConcat
  <2>9. g[n] = Onto(<<>>, v \o w) /\ g[n - 1] = Onto(<<>>, v)
    BY <2>1, <2>3, <2>5, <2>6
  <2> QED
    BY <2>6, <2>8, <2>9
<1>4. g[Len(s)] = Onto(<<>>, Mapped(f, FlattenSeq(s)))
  BY <1>1
<1> HIDE DEF g
<1> QED
  BY <1>2, <1>3, <1>4

-----------------------------------------------------------------------------
(* A run of results is one turn.                                           *)
RunTurn(run) ==
    Turn("user", <<>>, <<>>,
         [k \in DOMAIN run |-> [id |-> run[k].answers, text |-> run[k].content]])

LEMMA AppendIs ==
    ASSUME NEW S, NEW q \in Seq(S), NEW r \in S, NEW k \in Nat, Len(q) = k,
           NEW p, p = [i \in 1..(k + 1) |-> IF i = k + 1 THEN r ELSE q[i]]
    PROVE  p = Append(q, r)
<1>1. /\ Append(q, r) \in Seq(S) /\ Len(Append(q, r)) = k + 1
      /\ DOMAIN Append(q, r) = 1..(k + 1)
      /\ \A i \in 1..(k + 1) : Append(q, r)[i] = IF i = k + 1 THEN r ELSE q[i]
  OBVIOUS
<1>2. PICK a : a = Append(q, r)
  OBVIOUS
<1>3. a = [i \in 1..(k + 1) |-> a[i]]
  <2>1. a \in [1..(k + 1) -> S]
    <3>1. a \in Seq(S) /\ Len(a) = k + 1
      BY <1>1, <1>2
    <3> QED
      BY <3>1
  <2> QED
    BY <2>1
<1>4. \A i \in 1..(k + 1) : a[i] = p[i]
  BY <1>1, <1>2
<1>5. p = [i \in 1..(k + 1) |-> p[i]]
  OBVIOUS
<1> QED
  BY <1>2, <1>3, <1>4, <1>5, Zenon

LEMMA RunTurnType ==
    ASSUME NEW run \in Seq(Message)
    PROVE  RunTurn(run) \in AnyTurn
<1> DEFINE rs == [k \in DOMAIN run |-> [id |-> run[k].answers, text |-> run[k].content]]
<1>1. \A k \in DOMAIN run : run[k].answers \in Nat /\ run[k].content \in Text
  <2>1. \A k \in DOMAIN run : run[k] \in Message
    OBVIOUS
  <2> QED
    BY <2>1 DEF Message
<1>2. rs \in [DOMAIN run -> Result]
  BY <1>1 DEF Result
<1>3. RunTurn(run) = Turn("user", <<>>, <<>>, rs)
  BY DEF RunTurn
<1> HIDE DEF rs
<1>4. rs \in Seq(Result)
  BY <1>2, SeqOnDomain
<1>5. <<>> \in Text /\ <<>> \in Seq(Nat)
  BY DEF Text
<1> QED
  BY <1>3, <1>4, <1>5 DEF Turn, AnyTurn

(* The results one by one make the turn of the run.                        *)
LEMMA RunAdds ==
    ASSUME NEW turns \in Seq(AnyTurn), NEW ms \in Seq(Message), NEW f,
           NEW n \in 1..Len(ms), NEW e \in n..Len(ms),
           \A k \in n..e : ms[k].role = "tool",
           f[n - 1] = turns, \A k \in n..e : f[k] = AddTurn(f[k - 1], Meaning(ms[k]))
    PROVE  f[e] = AddTurn(turns, RunTurn(SubSeq(ms, n, e)))
<1> DEFINE R(k) == [i \in 1..k |-> [id |-> ms[n + i - 1].answers,
                                    text |-> ms[n + i - 1].content]]
           T == {k \in Nat : n + k \in n..e =>
                    /\ R(k + 1) \in Seq(Result)
                    /\ f[n + k] = AddTurn(turns, Turn("user", <<>>, <<>>, R(k + 1)))}
<1>1. \A k \in n..e : k \in 1..Len(ms) /\ ms[k] \in Message
  OBVIOUS
<1>2. \A k \in n..e : ms[k].answers \in Nat /\ ms[k].content \in Text
  BY <1>1 DEF Message
<1>3. \A k \in n..e : Meaning(ms[k])
         = Turn("user", <<>>, <<>>, <<[id |-> ms[k].answers, text |-> ms[k].content]>>)
  BY DEF Meaning
<1>4. \A k \in n..e : [id |-> ms[k].answers, text |-> ms[k].content] \in Result
  BY <1>2 DEF Result
<1>5. <<>> \in Text /\ <<>> \in Seq(Nat)
  BY DEF Text
<1>6. 0 \in T
  <2>1. n + 0 = n /\ 0 + 1 = 1 /\ n \in n..e
    OBVIOUS
  <2>2. PICK r : r = [id |-> ms[n].answers, text |-> ms[n].content]
    OBVIOUS
  <2>3. R(1) = [i \in {1} |-> r]
    BY <2>2
  <2>4. R(1) = <<r>>
    BY <2>3
  <2>5. r \in Result
    BY <1>4, <2>1, <2>2
  <2>6. R(1) \in Seq(Result)
    BY <2>4, <2>5
  <2>7. f[n] = AddTurn(f[n - 1], Meaning(ms[n])) /\ Meaning(ms[n]) = Turn("user", <<>>, <<>>, <<r>>)
    BY <1>3, <2>1, <2>2
  <2>8. f[n] = AddTurn(turns, Turn("user", <<>>, <<>>, R(1)))
    BY <2>4, <2>7
  <2> HIDE DEF R
  <2> QED
    BY <2>1, <2>6, <2>8
<1>7. ASSUME NEW k \in Nat, k \in T PROVE k + 1 \in T
  <2> HIDE DEF R
  <2> SUFFICES ASSUME n + (k + 1) \in n..e
               PROVE  /\ R((k + 1) + 1) \in Seq(Result)
                      /\ f[n + (k + 1)]
                            = AddTurn(turns, Turn("user", <<>>, <<>>, R((k + 1) + 1)))
    OBVIOUS
  <2> USE DEF R
  <2>1. n + k \in n..e /\ (n + (k + 1)) - 1 = n + k
    OBVIOUS
  <2>2. PICK q : q = R(k + 1)
    OBVIOUS
  <2>3. PICK m : m = n + (k + 1)
    OBVIOUS
  <2>4. PICK r : r = [id |-> ms[m].answers, text |-> ms[m].content]
    OBVIOUS
  <2>5. PICK p : p = R((k + 1) + 1)
    OBVIOUS
  <2>6. q \in Seq(Result) /\ f[n + k] = AddTurn(turns, Turn("user", <<>>, <<>>, q))
    BY <1>7, <2>1, <2>2
  <2>7. m \in n..e
    BY <2>3
  <2>8. r \in Result
    BY <1>4, <2>4, <2>7
  <2>9. p = Append(q, r)
    <3>1. Len(q) = k + 1 /\ \A i \in 1..(k + 1) : q[i] = [id |-> ms[n + i - 1].answers,
                                                          text |-> ms[n + i - 1].content]
      <4>1. DOMAIN q = 1..(k + 1)
        BY <2>2
      <4> QED
        BY <2>2, <2>6, <4>1
    <3>2. p = [i \in 1..((k + 1) + 1) |-> IF i = (k + 1) + 1 THEN r ELSE q[i]]
      <4>1. \A i \in 1..((k + 1) + 1) : p[i] = IF i = (k + 1) + 1 THEN r ELSE q[i]
        <5>1. ASSUME NEW i \in 1..((k + 1) + 1)
              PROVE  p[i] = IF i = (k + 1) + 1 THEN r ELSE q[i]
          <6>1. p[i] = [id |-> ms[n + i - 1].answers, text |-> ms[n + i - 1].content]
            BY <2>5
          <6>2. CASE i = (k + 1) + 1
            <7>1. n + i - 1 = m
              BY <2>3, <6>2
            <7> QED
              BY <2>4, <6>1, <6>2, <7>1
          <6>3. CASE i # (k + 1) + 1
            <7>1. i \in 1..(k + 1)
              BY <6>3
            <7> QED
              BY <3>1, <6>1, <6>3, <7>1
          <6> QED
            BY <6>2, <6>3
        <5> QED
          BY <5>1
      <4>2. p = [i \in 1..((k + 1) + 1) |-> p[i]]
        BY <2>5
      <4> QED
        BY <4>1, <4>2
    <3> HIDE DEF R
    <3>3. k + 1 \in Nat
      OBVIOUS
    <3>4. q \in Seq(Result) /\ r \in Result
      BY <2>6, <2>8
    <3> QED
      BY <3>1, <3>2, <3>3, <3>4, AppendIs
  <2> HIDE DEF R
  <2>10. p \in Seq(Result) /\ p = q \o <<r>>
    BY <2>6, <2>8, <2>9
  <2>11. f[m] = AddTurn(f[n + k], Turn("user", <<>>, <<>>, <<r>>))
    BY <1>3, <2>1, <2>3, <2>4, <2>7
  <2>12. PICK t : t = Turn("user", <<>>, <<>>, q)
    OBVIOUS
  <2>13. PICK u : u = Turn("user", <<>>, <<>>, <<r>>)
    OBVIOUS
  <2>14. t \in AnyTurn /\ u \in AnyTurn /\ t.by = u.by
    <3>1. <<r>> \in Seq(Result)
      BY <2>8
    <3> QED
      BY <1>5, <2>6, <2>12, <2>13, <3>1 DEF Turn, AnyTurn
  <2>15. AddTurn(AddTurn(turns, t), u) = AddTurn(turns, Merged(t, u))
    BY <2>14, AddMerged
  <2>16. Merged(t, u) = Turn("user", <<>>, <<>>, p)
    <3>1. <<>> \o <<>> = <<>>
      OBVIOUS
    <3> QED
      BY <2>10, <2>12, <2>13, <3>1 DEF Merged, Turn
  <2>17. f[m] = AddTurn(turns, Turn("user", <<>>, <<>>, p))
    BY <2>6, <2>11, <2>12, <2>13, <2>15, <2>16
  <2> QED
    BY <2>3, <2>5, <2>10, <2>17
<1>8. \A k \in Nat : k \in T
  <2> HIDE DEF T
  <2> QED
    BY <1>6, <1>7, FromZeroOn
<1>9. PICK k \in Nat : n + k = e
  <2>1. e - n \in Nat /\ n + (e - n) = e
    OBVIOUS
  <2> QED
    BY <2>1
<1>10. f[e] = AddTurn(turns, Turn("user", <<>>, <<>>, R(k + 1)))
  <2>1. n + k \in n..e
    BY <1>9
  <2>2. k \in T
    BY <1>8
  <2> HIDE DEF R
  <2>3. f[n + k] = AddTurn(turns, Turn("user", <<>>, <<>>, R(k + 1)))
    BY <2>1, <2>2
  <2> QED
    BY <1>9, <2>3
<1>11. RunTurn(SubSeq(ms, n, e)) = Turn("user", <<>>, <<>>, R(k + 1))
  <2>1. PICK run : run = SubSeq(ms, n, e)
    OBVIOUS
  <2>2. Len(run) = k + 1 /\ DOMAIN run = 1..(k + 1)
        /\ \A i \in 1..(k + 1) : run[i] = ms[n + i - 1]
    BY <1>9, <2>1
  <2>3. [i \in DOMAIN run |-> [id |-> run[i].answers, text |-> run[i].content]] = R(k + 1)
    BY <2>2
  <2> HIDE DEF R
  <2> QED
    BY <2>1, <2>3 DEF RunTurn
<1> QED
  BY <1>10, <1>11

-----------------------------------------------------------------------------
LEMMA AnthropicTurnType ==
    ASSUME NEW m \in AnthropicMessage
    PROVE  AnthropicTurn(m) \in AnyTurn
<1> DEFINE blocks == m.content.blocks
           uses == OfType("tool_use", blocks)
           results == OfType("tool_result", blocks)
           ids == [n \in DOMAIN uses |-> uses[n].id]
           rs == [n \in DOMAIN results |-> [id |-> results[n].id, text |-> results[n].text]]
           text == m.content.text \o JoinedText(blocks)
<1>1. m.role \in {"user", "assistant"} /\ m.content \in Content
  BY DEF AnthropicMessage
<1>2. m.content.text \in Text /\ blocks \in Seq(Block)
  BY <1>1 DEF Content
<1>3. AnthropicTurn(m) = Turn(m.role, text, ids, rs)
  BY DEF AnthropicTurn
<1> HIDE DEF blocks
<1>4. JoinedText(blocks) \in Text
  BY <1>2, JoinedTextType
<1>5. text \in Text
  BY <1>2, <1>4 DEF Text
<1>6. uses \in Seq({b \in Block : b.type = "tool_use"})
  BY <1>2, OfTypeType
<1>7. results \in Seq({b \in Block : b.type = "tool_result"})
  BY <1>2, OfTypeType
<1> HIDE DEF uses, results
<1>8. \A n \in DOMAIN uses : uses[n] \in Block
  BY <1>6
<1>9. \A n \in DOMAIN results : results[n] \in Block
  BY <1>7
<1>10. ids \in [DOMAIN uses -> Nat]
  BY <1>8 DEF Block
<1>11. rs \in [DOMAIN results -> Result]
  BY <1>9 DEF Block, Result
<1> HIDE DEF ids, rs
<1>12. ids \in Seq(Nat)
  BY <1>6, <1>10, SeqOnDomain
<1>13. rs \in Seq(Result)
  BY <1>7, <1>11, SeqOnDomain
<1> HIDE DEF text
<1> QED
  BY <1>1, <1>3, <1>5, <1>12, <1>13 DEF Turn, AnyTurn

LEMMA StringIsContent ==
    ASSUME NEW role \in {"user", "assistant"}, NEW c \in Content
    PROVE  [role |-> role, content |-> c] \in AnthropicMessage
BY DEF AnthropicMessage

(* What is no result is encoded by itself.                                 *)
LEMMA OtherEncodes ==
    ASSUME NEW ms \in Seq(Message), NEW n \in 1..Len(ms), IsProper(ms[n]),
           ~IsResult(ms[n])
    PROVE  \E x \in AnthropicMessage :
              EncodeAt(ms, n) = <<x>> /\ AnthropicTurn(x) = Meaning(ms[n])
<1>1. ms[n] \in Message
  OBVIOUS
<1>2. /\ ms[n].role \in Roles /\ ms[n].content \in Text
  BY <1>1 DEF Message
<1>3. ms[n].role \in {"user", "assistant"} /\ ms[n].role # "tool"
  BY <1>2 DEF Roles, IsProper, IsResult
<1>4. Meaning(ms[n]) = Turn(ms[n].role, ms[n].content, CallIds(ms[n].calls), <<>>)
  BY <1>3 DEF Meaning
<1>5. CASE ms[n].role = "assistant" /\ ms[n].calls # <<>>
  <2>1. PICK x : x = [role |-> "assistant", content |-> BlocksContent(UseBlocks(ms[n]))]
    OBVIOUS
  <2>2. /\ AnthropicTurn(x) = Turn("assistant", ms[n].content, CallIds(ms[n].calls), <<>>)
        /\ BlocksContent(UseBlocks(ms[n])) \in Content
    BY <1>1, <2>1, UsesTurn
  <2>3. x \in AnthropicMessage
    BY <2>1, <2>2, StringIsContent
  <2>4. EncodeAt(ms, n) = <<x>>
    BY <1>5, <2>1 DEF EncodeAt, StartsRun, IsResult
  <2> QED
    BY <1>4, <1>5, <2>2, <2>3, <2>4
<1>6. CASE ~(ms[n].role = "assistant" /\ ms[n].calls # <<>>)
  <2>1. PICK x : x = [role |-> ms[n].role, content |-> StringContent(ms[n].content)]
    OBVIOUS
  <2>2. /\ AnthropicTurn(x) = Turn(ms[n].role, ms[n].content, <<>>, <<>>)
        /\ StringContent(ms[n].content) \in Content
    BY <1>2, <2>1, StringTurn
  <2>3. x \in AnthropicMessage
    BY <1>3, <2>1, <2>2, StringIsContent
  <2>4. EncodeAt(ms, n) = <<x>>
    BY <1>3, <1>6, <2>1 DEF EncodeAt, StartsRun, IsResult
  <2>5. ms[n].calls = <<>>
    BY <1>3, <1>6 DEF IsProper
  <2>6. CallIds(ms[n].calls) = <<>>
    BY <2>5 DEF CallIds
  <2> QED
    BY <1>4, <2>2, <2>3, <2>4, <2>6
<1> QED
  BY <1>5, <1>6

(* A run of results is encoded as one message.                             *)
LEMMA RunEncodes ==
    ASSUME NEW ms \in Seq(Message), NEW n \in 1..Len(ms), StartsRun(ms, n)
    PROVE  \E x \in AnthropicMessage :
              EncodeAt(ms, n) = <<x>> /\ AnthropicTurn(x) = RunTurn(RunFrom(ms, n))
<1> DEFINE blocks == [k \in DOMAIN RunFrom(ms, n) |->
                         ResultBlock(RunFrom(ms, n)[k].answers, RunFrom(ms, n)[k].content)]
<1>1. IsResult(ms[n])
  BY DEF StartsRun
<1>2. PICK x : x = [role |-> "user", content |-> BlocksContent(blocks)]
  OBVIOUS
<1>3. EncodeAt(ms, n) = <<x>>
  BY <1>2 DEF EncodeAt, StartsRun, IsResult
<1>4. PICK run : run = RunFrom(ms, n)
  OBVIOUS
<1>5. run \in Seq({q \in Message : IsResult(q)})
  BY <1>1, <1>4, RunHas
<1>6. \A k \in 1..Len(run) : run[k] \in Message
  BY <1>5
<1>7. run \in Seq(Message)
  BY <1>5, <1>6, NarrowSeq
<1>8. blocks = [k \in DOMAIN run |-> ResultBlock(run[k].answers, run[k].content)]
  BY <1>4
<1> HIDE DEF blocks
<1>9. /\ AnthropicTurn(x) = Turn("user", <<>>, <<>>, [k \in DOMAIN run |->
                               [id |-> run[k].answers, text |-> run[k].content]])
      /\ BlocksContent(blocks) \in Content
  BY <1>2, <1>7, <1>8, ResultsTurn
<1>10. AnthropicTurn(x) = RunTurn(run)
  BY <1>9 DEF RunTurn
<1>11. x \in AnthropicMessage
  BY <1>2, <1>9, StringIsContent
<1> QED
  BY <1>3, <1>4, <1>10, <1>11

-----------------------------------------------------------------------------
TurnOf == [m \in AnthropicMessage |-> AnthropicTurn(m)]

LEMMA TurnOfMaps == IsMap(TurnOf, AnthropicMessage, AnyTurn)
BY AnthropicTurnType DEF IsMap, TurnOf

LEMMA MappedOne ==
    ASSUME NEW x \in AnthropicMessage
    PROVE  Mapped(TurnOf, <<x>>) = <<AnthropicTurn(x)>>
<1>1. TurnOf[x] = AnthropicTurn(x)
  BY DEF TurnOf
<1>2. Mapped(TurnOf, <<x>>) = [n \in {1} |-> TurnOf[<<x>>[n]]]
  BY DEF Mapped
<1> HIDE DEF TurnOf
<1>3. \A n \in {1} : TurnOf[<<x>>[n]] = AnthropicTurn(x)
  BY <1>1
<1> QED
  BY <1>2, <1>3

LEMMA MappedTurns ==
    ASSUME NEW ms \in Seq(AnthropicMessage)
    PROVE  Mapped(TurnOf, ms) = [n \in DOMAIN ms |-> AnthropicTurn(ms[n])]
<1>1. \A n \in DOMAIN ms : ms[n] \in AnthropicMessage
  OBVIOUS
<1>2. \A n \in DOMAIN ms : TurnOf[ms[n]] = AnthropicTurn(ms[n])
  BY <1>1 DEF TurnOf
<1> QED
  BY <1>2 DEF Mapped

(* After n messages g has said what the messages up to e mean: these are   *)
(* the n and, within a run of results, all of the run.                     *)
SaidUpTo(ms, n, e) ==
    /\ n <= e /\ e <= Len(ms)
    /\ \A k \in (n + 1)..e : IsResult(ms[k])
    /\ n >= 1 => (IsResult(ms[n]) => e = Len(ms) \/ ~IsResult(ms[e + 1]))
    /\ e > n => n >= 1 /\ IsResult(ms[n])

LEMMA SaidOne ==
    ASSUME NEW ms \in Seq(Message), \A k \in 1..Len(ms) : IsProper(ms[k]),
           NEW F, Adds(<<>>, Meanings(ms), F),
           NEW g, \A k \in 1..Len(ms) : g[k] = Onto(g[k - 1], Mapped(TurnOf, EncodeAt(ms, k))),
           NEW n \in Nat, n + 1 \in 1..Len(ms),
           NEW e \in Nat, SaidUpTo(ms, n, e), g[n] = F[e]
    PROVE  \E d \in Nat : SaidUpTo(ms, n + 1, d) /\ g[n + 1] = F[d]
<1>1. PICK m \in 1..Len(ms) : m = n + 1
  OBVIOUS
<1>2. PICK L \in Nat : L = Len(ms)
  OBVIOUS
<1>3. n <= e /\ e <= L
  BY <1>2 DEF SaidUpTo
<1>4. g[m] = Onto(F[e], Mapped(TurnOf, EncodeAt(ms, m)))
  <2>1. g[m] = Onto(g[m - 1], Mapped(TurnOf, EncodeAt(ms, m)))
    OBVIOUS
  <2>2. m - 1 = n
    BY <1>1
  <2> QED
    BY <2>1, <2>2
<1>5. \A turns : \A x \in AnthropicMessage :
         Onto(turns, Mapped(TurnOf, <<x>>)) = AddTurn(turns, AnthropicTurn(x))
  BY MappedOne, OntoOne
<1>6. CASE e > n
  <2>1. IsResult(ms[m]) /\ IsResult(ms[n]) /\ n >= 1
    <3>1. m \in (n + 1)..e
      BY <1>1, <1>3, <1>6
    <3> QED
      BY <1>6, <3>1 DEF SaidUpTo
  <2>2. ~StartsRun(ms, m)
    <3>1. m - 1 = n /\ m # 1
      BY <1>1, <2>1
    <3> QED
      BY <2>1, <3>1 DEF StartsRun
  <2>3. EncodeAt(ms, m) = <<>>
    BY <2>1, <2>2 DEF EncodeAt, StartsRun, IsResult
  <2>4. Mapped(TurnOf, <<>>) = <<>>
    BY DEF Mapped
  <2>5. g[m] = F[e]
    BY <1>4, <2>3, <2>4, OntoNothing
  <2>6. e = L \/ ~IsResult(ms[e + 1])
    BY <1>2, <2>1 DEF SaidUpTo
  <2>7. SaidUpTo(ms, m, e)
    <3>1. \A k \in (n + 1)..e : IsResult(ms[k])
      BY DEF SaidUpTo
    <3>2. m <= e /\ \A k \in (m + 1)..e : k \in (n + 1)..e
      BY <1>1, <1>6
    <3>3. m >= 1
      BY <1>1
    <3> QED
      BY <1>2, <1>3, <2>1, <2>6, <3>1, <3>2, <3>3 DEF SaidUpTo
  <2> QED
    BY <1>1, <2>5, <2>7
<1>7. CASE ~(e > n)
  <2>1. e = n
    BY <1>3, <1>7
  <2>2. g[m] = Onto(F[n], Mapped(TurnOf, EncodeAt(ms, m)))
    BY <1>4, <2>1
  <2>3. \A k \in 1..L : F[k] = AddTurn(F[k - 1], Meaning(ms[k]))
    <3>1. Len(Meanings(ms)) = L /\ \A k \in 1..L : Meanings(ms)[k] = Meaning(ms[k])
      BY <1>2, MeaningsType
    <3> QED
      BY <3>1 DEF Adds
  <2>4. CASE ~IsResult(ms[m])
    <3>1. PICK x \in AnthropicMessage :
             EncodeAt(ms, m) = <<x>> /\ AnthropicTurn(x) = Meaning(ms[m])
      BY <2>4, OtherEncodes
    <3>2. g[m] = AddTurn(F[n], Meaning(ms[m]))
      BY <1>5, <2>2, <3>1
    <3>3. m \in 1..L /\ m - 1 = n
      BY <1>1, <1>2
    <3>4. g[m] = F[m]
      BY <2>3, <3>2, <3>3
    <3>5. SaidUpTo(ms, m, m)
      <4>1. m <= m /\ m <= Len(ms) /\ ~(m > m) /\ \A k \in (m + 1)..m : FALSE
        BY <1>2, <3>3
      <4> QED
        BY <2>4, <4>1 DEF SaidUpTo
    <3> QED
      BY <1>1, <3>4, <3>5
  <2>5. CASE IsResult(ms[m])
    <3>1. StartsRun(ms, m)
      <4>1. CASE n = 0
        <5>1. m = 1
          BY <1>1, <4>1
        <5> QED
          BY <2>5, <5>1 DEF StartsRun
      <4>2. CASE n # 0
        <5>1. n >= 1 /\ e # Len(ms) /\ e + 1 = m /\ m - 1 = n
          BY <1>1, <2>1, <4>2
        <5>2. ~IsResult(ms[n])
          BY <2>5, <5>1 DEF SaidUpTo
        <5> QED
          BY <2>5, <5>1, <5>2 DEF StartsRun
      <4> QED
        BY <4>1, <4>2
    <3>2. PICK x \in AnthropicMessage :
             EncodeAt(ms, m) = <<x>> /\ AnthropicTurn(x) = RunTurn(RunFrom(ms, m))
      BY <3>1, RunEncodes
    <3>3. PICK d \in m..Len(ms) :
              /\ RunFrom(ms, m) = SubSeq(ms, m, d)
              /\ \A k \in m..d : IsResult(ms[k])
              /\ d < Len(ms) => ~IsResult(ms[d + 1])
      BY <2>5, RunIs
    <3>4. g[m] = AddTurn(F[n], RunTurn(SubSeq(ms, m, d)))
      BY <1>5, <2>2, <3>2, <3>3
    <3>5. F[d] = AddTurn(F[n], RunTurn(SubSeq(ms, m, d)))
      <4>1. \A k \in m..d : ms[k].role = "tool"
        BY <3>3 DEF IsResult
      <4>2. \A k \in m..d : F[k] = AddTurn(F[k - 1], Meaning(ms[k]))
        <5>1. \A k \in m..d : k \in 1..L
          BY <1>2
        <5> QED
          BY <2>3, <5>1
      <4>3. F[n] \in Seq(AnyTurn)
        <5>1. n \in 0..L
          BY <1>3, <2>1
        <5>2. Meanings(ms) \in Seq(AnyTurn) /\ Len(Meanings(ms)) = L
          BY <1>2, MeaningsType
        <5>3. <<>> \in Seq(AnyTurn)
          OBVIOUS
        <5> QED
          BY <5>1, <5>2, <5>3, AddsType
      <4>4. F[m - 1] = F[n]
        BY <1>1
      <4> QED
        BY <4>1, <4>2, <4>3, <4>4, RunAdds
    <3>6. SaidUpTo(ms, m, d)
      <4>1. m <= d /\ d <= Len(ms) /\ \A k \in (m + 1)..d : k \in m..d
        OBVIOUS
      <4>2. m >= 1 /\ (d = Len(ms) \/ d < Len(ms))
        BY <1>2
      <4> QED
        BY <2>5, <3>3, <4>1, <4>2 DEF SaidUpTo
    <3>7. d \in Nat
      BY <1>2
    <3> QED
      BY <1>1, <3>4, <3>5, <3>6, <3>7
  <2> QED
    BY <2>4, <2>5
<1> QED
  BY <1>6, <1>7

(* What is encoded for an Anthropic backend has the turns it had.          *)
LEMMA EncodeAnthropicMeans ==
    ASSUME NEW r \in NormalizedRequest, \A n \in 1..Len(r.messages) : IsProper(r.messages[n])
    PROVE  Turns(MessagesOf("anthropic", EncodeMessagesRequest(r)))
              = Turns(Meanings(r.messages))
<1>1. PICK ms \in Seq(Message) : ms = r.messages
  BY DEF NormalizedRequest
<1> DEFINE es == [n \in DOMAIN ms |-> EncodeAt(ms, n)]
           body == FlattenSeq(es)
<1>2. EncodeMessagesRequest(r).messages = body
  BY <1>1 DEF EncodeMessagesRequest
<1>3. PICK L \in Nat : L = Len(ms)
  OBVIOUS
<1>4. \A n \in DOMAIN ms : EncodeAt(ms, n) \in Seq(AnthropicMessage)
  <2>1. ASSUME NEW n \in 1..Len(ms) PROVE EncodeAt(ms, n) \in Seq(AnthropicMessage)
    <3>1. CASE ~IsResult(ms[n])
      <4>1. IsProper(ms[n])
        BY <1>1
      <4>2. PICK x \in AnthropicMessage : EncodeAt(ms, n) = <<x>>
        BY <3>1, <4>1, OtherEncodes
      <4> QED
        BY <4>2
    <3>2. CASE StartsRun(ms, n)
      <4>1. PICK x \in AnthropicMessage : EncodeAt(ms, n) = <<x>>
        BY <3>2, RunEncodes
      <4> QED
        BY <4>1
    <3>3. CASE IsResult(ms[n]) /\ ~StartsRun(ms, n)
      <4>1. EncodeAt(ms, n) = <<>>
        BY <3>3 DEF EncodeAt, StartsRun, IsResult
      <4> QED
        BY <4>1
    <3> QED
      BY <3>1, <3>2, <3>3
  <2> QED
    BY <2>1
<1>5. es \in [DOMAIN ms -> Seq(AnthropicMessage)]
  BY <1>4
<1>6. \A n \in 1..L : es[n] = EncodeAt(ms, n)
  BY <1>3
<1> HIDE DEF es
<1>7. es \in Seq(Seq(AnthropicMessage)) /\ Len(es) = L
  BY <1>3, <1>5, SeqOnDomain
<1>8. body \in Seq(AnthropicMessage)
  BY <1>7, FlattenType
<1>9. MessagesOf("anthropic", EncodeMessagesRequest(r)) = Mapped(TurnOf, body)
  <2>1. MessagesOf("anthropic", EncodeMessagesRequest(r))
           = [n \in DOMAIN body |-> AnthropicTurn(body[n])]
    BY <1>2 DEF MessagesOf
  <2> HIDE DEF body
  <2> QED
    BY <1>8, <2>1, MappedTurns
<1>10. PICK g : /\ g[0] = <<>>
                /\ \A n \in 1..Len(es) : g[n] = Onto(g[n - 1], Mapped(TurnOf, es[n]))
                /\ Onto(<<>>, Mapped(TurnOf, body)) = g[Len(es)]
  <2>1. PICK c : c = es
    OBVIOUS
  <2>2. c \in Seq(Seq(AnthropicMessage))
    BY <1>7, <2>1
  <2>3. PICK g : /\ g[0] = <<>>
                 /\ \A n \in 1..Len(c) : g[n] = Onto(g[n - 1], Mapped(TurnOf, c[n]))
                 /\ Onto(<<>>, Mapped(TurnOf, FlattenSeq(c))) = g[Len(c)]
    BY <2>2, TurnOfMaps, OntoFlatten
  <2> QED
    BY <2>1, <2>3
<1>11. \A n \in 1..L : g[n] = Onto(g[n - 1], Mapped(TurnOf, EncodeAt(ms, n)))
  BY <1>6, <1>7, <1>10
<1>12. Meanings(ms) \in Seq(AnyTurn) /\ Len(Meanings(ms)) = L
  BY <1>3, MeaningsType
<1>13. PICK F : Adds(<<>>, Meanings(ms), F) /\ Turns(Meanings(ms)) = F[L]
  BY <1>12, TurnsAre
<1> DEFINE T == {n \in Nat : n <= L => \E e \in Nat : SaidUpTo(ms, n, e) /\ g[n] = F[e]}
<1>14. 0 \in T
  <2>1. g[0] = F[0]
    BY <1>10, <1>13 DEF Adds
  <2>2. SaidUpTo(ms, 0, 0)
    <3>1. 0 <= 0 /\ 0 <= Len(ms) /\ ~(0 >= 1) /\ ~(0 > 0) /\ \A k \in (0 + 1)..0 : FALSE
      BY <1>3
    <3> QED
      BY <3>1 DEF SaidUpTo
  <2> QED
    BY <2>1, <2>2
<1>15. ASSUME NEW n \in Nat, n \in T PROVE n + 1 \in T
  <2> SUFFICES ASSUME n + 1 <= L
               PROVE  \E e \in Nat : SaidUpTo(ms, n + 1, e) /\ g[n + 1] = F[e]
    OBVIOUS
  <2>1. n <= L /\ n + 1 \in 1..Len(ms)
    BY <1>3
  <2>2. PICK e \in Nat : SaidUpTo(ms, n, e) /\ g[n] = F[e]
    BY <1>15, <2>1
  <2>3. \A k \in 1..Len(ms) : IsProper(ms[k])
    BY <1>1
  <2> HIDE DEF T, body
  <2> QED
    BY <1>3, <1>11, <1>13, <2>1, <2>2, <2>3, SaidOne
<1>16. L \in T
  <2> HIDE DEF T
  <2> QED
    BY <1>14, <1>15, FromZeroOn
<1>17. PICK e \in Nat : SaidUpTo(ms, L, e) /\ g[L] = F[e]
  BY <1>16
<1>18. e = L
  BY <1>3, <1>17 DEF SaidUpTo
<1> HIDE DEF body, T
<1>19. Mapped(TurnOf, body) \in Seq(AnyTurn)
  BY <1>8, TurnOfMaps, MappedType
<1>20. Turns(Mapped(TurnOf, body)) = Onto(<<>>, Mapped(TurnOf, body))
  BY <1>19, TurnsAreOnto
<1> QED
  BY <1>1, <1>7, <1>9, <1>10, <1>13, <1>17, <1>18, <1>20

-----------------------------------------------------------------------------
MeaningOf == [m \in Message |-> Meaning(m)]

LEMMA MeaningOfMaps == IsMap(MeaningOf, Message, AnyTurn)
BY MeaningType DEF IsMap, MeaningOf

LEMMA MappedMeanings ==
    ASSUME NEW ms \in Seq(Message)
    PROVE  Mapped(MeaningOf, ms) = Meanings(ms)
<1>1. \A n \in DOMAIN ms : ms[n] \in Message
  OBVIOUS
<1>2. \A n \in DOMAIN ms : MeaningOf[ms[n]] = Meaning(ms[n])
  BY <1>1 DEF MeaningOf
<1> QED
  BY <1>2 DEF Mapped, Meanings

LEMMA MeaningsConcat ==
    ASSUME NEW a \in Seq(Message), NEW b \in Seq(Message)
    PROVE  Meanings(a \o b) = Meanings(a) \o Meanings(b)
<1>1. Mapped(MeaningOf, a \o b) = Mapped(MeaningOf, a) \o Mapped(MeaningOf, b)
  BY MeaningOfMaps, MappedConcat
<1>2. a \o b \in Seq(Message)
  OBVIOUS
<1>3. Mapped(MeaningOf, a \o b) = Meanings(a \o b)
  BY <1>2, MappedMeanings
<1>4. Mapped(MeaningOf, a) = Meanings(a) /\ Mapped(MeaningOf, b) = Meanings(b)
  BY MappedMeanings
<1> QED
  BY <1>1, <1>3, <1>4

LEMMA MeaningsOne ==
    ASSUME NEW m
    PROVE  Meanings(<<m>>) = <<Meaning(m)>> /\ Meanings(<<>>) = <<>>
<1>1. Meanings(<<m>>) = [n \in {1} |-> Meaning(<<m>>[n])]
  BY DEF Meanings
<1>2. \A n \in {1} : Meaning(<<m>>[n]) = Meaning(m)
  OBVIOUS
<1>3. Meanings(<<m>>) = <<Meaning(m)>>
  BY <1>1, <1>2
<1>4. Meanings(<<>>) = <<>>
  BY DEF Meanings
<1> QED
  BY <1>3, <1>4

LEMMA RunOnto ==
    ASSUME NEW turns \in Seq(AnyTurn), NEW run \in Seq(Message), run # <<>>,
           \A n \in 1..Len(run) : run[n].role = "tool"
    PROVE  Onto(turns, Meanings(run)) = AddTurn(turns, RunTurn(run))
<1>1. PICK L \in Nat : L = Len(run)
  OBVIOUS
<1>2. L >= 1 /\ 1 \in 1..L /\ L \in 1..L
  BY <1>1
<1>3. Len(Meanings(run)) = L /\ \A n \in 1..L : Meanings(run)[n] = Meaning(run[n])
  BY <1>1, MeaningsType
<1>4. PICK f : Adds(turns, Meanings(run), f) /\ Onto(turns, Meanings(run)) = f[L]
  BY <1>3, OntoIs
<1>5. \A n \in 1..L : f[n] = AddTurn(f[n - 1], Meaning(run[n]))
  BY <1>3, <1>4 DEF Adds
<1>6. f[1 - 1] = turns
  BY <1>4 DEF Adds
<1>7. f[L] = AddTurn(turns, RunTurn(SubSeq(run, 1, L)))
  BY <1>1, <1>2, <1>5, <1>6, RunAdds
<1>8. SubSeq(run, 1, L) = run
  BY <1>1
<1> QED
  BY <1>4, <1>7, <1>8

LEMMA FirstOfType ==
    ASSUME NEW blocks \in Seq(Block), blocks # <<>>
    PROVE  OfType(blocks[1].type, blocks) # <<>>
<1>1. PICK b \in Block : b = blocks[1]
  OBVIOUS
<1>2. PICK t \in Seq(Block) : t = Tail(blocks)
  <2>1. Tail(blocks) \in Seq(Block)
    OBVIOUS
  <2> QED
    BY <2>1
<1>3. blocks = <<b>> \o t
  BY <1>1, <1>2
<1>4. <<b>> \in Seq(Block) /\ \A n \in DOMAIN <<b>> : <<b>>[n].type = b.type
  OBVIOUS
<1>5. OfType(b.type, <<b>>) = <<b>>
  BY <1>4, AllOfType
<1>6. OfType(b.type, <<b>> \o t) = OfType(b.type, <<b>>) \o OfType(b.type, t)
  BY <1>4, OfTypeConcat
<1>7. OfType(b.type, t) \in Seq({c \in Block : c.type = b.type})
  BY OfTypeType
<1>8. PICK u : u = OfType(b.type, t)
  OBVIOUS
<1>9. u \in Seq(Block)
  <2>1. \A n \in 1..Len(u) : u[n] \in Block
    BY <1>7, <1>8
  <2> QED
    BY <1>7, <1>8, <2>1, NarrowSeq
<1>10. <<b>> \o u # <<>>
  BY <1>9
<1> QED
  BY <1>1, <1>3, <1>5, <1>6, <1>8, <1>10

LEMMA NoTextJoined ==
    ASSUME NEW blocks, OfType("text", blocks) = <<>>
    PROVE  JoinedText(blocks) = <<>>
<1>1. JoinedText(blocks) = FlattenSeq([n \in DOMAIN <<>> |-> <<>>[n].text])
  BY DEF JoinedText
<1>2. [n \in DOMAIN <<>> |-> <<>>[n].text] = <<>>
  OBVIOUS
<1> QED
  BY <1>1, <1>2, FlattenEmpty

-----------------------------------------------------------------------------
LEMMA UserDecoded ==
    ASSUME NEW turns \in Seq(AnyTurn), NEW blocks \in Seq(Block), blocks # <<>>,
           \A n \in DOMAIN blocks : blocks[n].type \in {"text", "tool_result"},
           NEW results, results = OfType("tool_result", blocks),
           NEW rs, rs = [n \in DOMAIN results |->
                            [id |-> results[n].id, text |-> results[n].text]]
    PROVE  Onto(turns, Meanings(DecodeUser(blocks)))
              = AddTurn(turns, Turn("user", JoinedText(blocks), <<>>, rs))
<1>1. results \in Seq({b \in Block : b.type = "tool_result"})
  BY OfTypeType
<1>2. \A n \in DOMAIN results : results[n].id \in Nat /\ results[n].text \in Text
  <2>1. \A n \in DOMAIN results : results[n] \in Block
    BY <1>1
  <2> QED
    BY <2>1 DEF Block
<1>3. PICK text \in Text : text = JoinedText(blocks)
  BY JoinedTextType
<1>4. PICK run : run = [n \in DOMAIN results |-> Answering(results[n].id, results[n].text)]
  OBVIOUS
<1>5. \A n \in DOMAIN results : Answering(results[n].id, results[n].text) \in Message
  <2>1. \A n \in DOMAIN results : Answering(results[n].id, results[n].text) \in Whole
    BY <1>2, AnsweringWhole
  <2> QED
    BY <2>1 DEF Whole
<1>6. run \in [DOMAIN results -> Message]
  BY <1>4, <1>5
<1>7. run \in Seq(Message) /\ Len(run) = Len(results) /\ DOMAIN run = 1..Len(results)
  BY <1>1, <1>6, SeqOnDomain
<1>8. PICK said : said = IF OfType("text", blocks) = <<>> THEN <<>>
                         ELSE <<Saying("user", text)>>
  OBVIOUS
<1>9. DecodeUser(blocks) = run \o said
  BY <1>3, <1>4, <1>8 DEF DecodeUser
<1>10. Saying("user", text) \in Message
  <2>1. Saying("user", text) \in Whole
    BY SayingWhole DEF Roles
  <2> QED
    BY <2>1 DEF Whole
<1>11. said \in Seq(Message)
  BY <1>8, <1>10
<1>12. Meanings(DecodeUser(blocks)) = Meanings(run) \o Meanings(said)
  BY <1>7, <1>9, <1>11, MeaningsConcat
<1>13. Onto(turns, Meanings(DecodeUser(blocks)))
          = Onto(Onto(turns, Meanings(run)), Meanings(said))
  <2>1. PICK a : a = Meanings(run)
    OBVIOUS
  <2>2. PICK b : b = Meanings(said)
    OBVIOUS
  <2>3. a \in Seq(AnyTurn) /\ b \in Seq(AnyTurn)
    BY <1>7, <1>11, <2>1, <2>2, MeaningsType
  <2>4. Onto(turns, a \o b) = Onto(Onto(turns, a), b)
    BY <2>3, OntoConcat
  <2> QED
    BY <1>12, <2>1, <2>2, <2>4
<1>14. \A n \in 1..Len(run) : /\ run[n].role = "tool"
                              /\ run[n].answers = results[n].id
                              /\ run[n].content = results[n].text
  BY <1>4, <1>7 DEF Answering
<1>15. RunTurn(run) = Turn("user", <<>>, <<>>, rs)
  <2>1. DOMAIN run = DOMAIN results /\ DOMAIN run = 1..Len(run)
    BY <1>4, <1>7
  <2>2. [k \in DOMAIN run |-> [id |-> run[k].answers, text |-> run[k].content]] = rs
    BY <1>14, <2>1
  <2> QED
    BY <2>2 DEF RunTurn
<1>16. rs \in Seq(Result)
  <2>1. rs \in [DOMAIN results -> Result]
    BY <1>2 DEF Result
  <2> QED
    BY <1>1, <2>1, SeqOnDomain
<1>17. Meaning(Saying("user", text)) = Turn("user", text, <<>>, <<>>)
  BY DEF Meaning, Saying, CallIds
<1>18. <<>> \in Text /\ <<>> \in Seq(Nat) /\ <<>> \in Seq(Result)
  BY DEF Text
<1>19. PICK t : t = Turn("user", <<>>, <<>>, rs)
  OBVIOUS
<1>20. PICK u : u = Turn("user", text, <<>>, <<>>)
  OBVIOUS
<1>21. t \in AnyTurn /\ u \in AnyTurn /\ t.by = u.by
  BY <1>16, <1>18, <1>19, <1>20 DEF Turn, AnyTurn
<1>22. results # <<>> => Onto(turns, Meanings(run)) = AddTurn(turns, t)
  <2> SUFFICES ASSUME results # <<>> PROVE Onto(turns, Meanings(run)) = AddTurn(turns, t)
    OBVIOUS
  <2>1. run # <<>>
    BY <1>1, <1>7
  <2>2. Onto(turns, Meanings(run)) = AddTurn(turns, RunTurn(run))
    BY <1>7, <1>14, <2>1, RunOnto
  <2> QED
    BY <1>15, <1>19, <2>2
<1>23. results = <<>> => Onto(turns, Meanings(run)) = turns /\ rs = <<>>
  <2> SUFFICES ASSUME results = <<>> PROVE Onto(turns, Meanings(run)) = turns /\ rs = <<>>
    OBVIOUS
  <2>1. run = <<>> /\ rs = <<>>
    BY <1>4
  <2>2. Meanings(run) = <<>>
    BY <2>1, MeaningsOne
  <2> QED
    BY <2>1, <2>2, OntoNothing
<1>24. OfType("text", blocks) # <<>> => \A ts : Onto(ts, Meanings(said)) = AddTurn(ts, u)
  <2> SUFFICES ASSUME OfType("text", blocks) # <<>>, NEW ts
               PROVE  Onto(ts, Meanings(said)) = AddTurn(ts, u)
    OBVIOUS
  <2>1. said = <<Saying("user", text)>>
    BY <1>8
  <2>2. Meanings(said) = <<u>>
    BY <1>17, <1>20, <2>1, MeaningsOne
  <2> QED
    BY <2>2, OntoOne
<1>25. OfType("text", blocks) = <<>> =>
          text = <<>> /\ \A ts : Onto(ts, Meanings(said)) = ts
  <2> SUFFICES ASSUME OfType("text", blocks) = <<>>
               PROVE  text = <<>> /\ \A ts : Onto(ts, Meanings(said)) = ts
    OBVIOUS
  <2>1. said = <<>>
    BY <1>8
  <2>2. Meanings(said) = <<>>
    BY <2>1, MeaningsOne
  <2>3. text = <<>>
    BY <1>3, NoTextJoined
  <2> QED
    BY <2>2, <2>3, OntoNothing
<1>26. PICK w : w = Turn("user", text, <<>>, rs)
  OBVIOUS
<1>27. CASE results # <<>> /\ OfType("text", blocks) # <<>>
  <2>1. AddTurn(AddTurn(turns, t), u) = AddTurn(turns, Merged(t, u))
    BY <1>21, AddMerged
  <2>2. Merged(t, u) = w
    <3>1. <<>> \o text = text /\ rs \o <<>> = rs
      BY <1>16 DEF Text
    <3>2. <<>> \o <<>> = <<>>
      OBVIOUS
    <3> QED
      BY <1>19, <1>20, <1>26, <3>1, <3>2 DEF Merged, Turn
  <2> QED
    BY <1>3, <1>13, <1>22, <1>24, <1>26, <1>27, <2>1, <2>2
<1>28. CASE results # <<>> /\ OfType("text", blocks) = <<>>
  BY <1>3, <1>13, <1>19, <1>22, <1>25, <1>28
<1>29. CASE results = <<>> /\ OfType("text", blocks) # <<>>
  BY <1>3, <1>13, <1>20, <1>23, <1>24, <1>29
<1>30. CASE results = <<>> /\ OfType("text", blocks) = <<>>
  <2>1. OfType(blocks[1].type, blocks) # <<>>
    BY FirstOfType
  <2>2. blocks[1].type \in {"text", "tool_result"}
    OBVIOUS
  <2> QED
    BY <1>30, <2>1, <2>2
<1> QED
  BY <1>27, <1>28, <1>29, <1>30

LEMMA AssistantDecoded ==
    ASSUME NEW blocks \in Seq(Block),
           NEW uses, uses = OfType("tool_use", blocks)
    PROVE  Meanings(DecodeAssistant(blocks))
              = <<Turn("assistant", JoinedText(blocks), [n \in DOMAIN uses |-> uses[n].id], <<>>)>>
<1>1. PICK calls : calls = CallsIn(blocks)
  OBVIOUS
<1>2. DecodeAssistant(blocks) = <<Calling(JoinedText(blocks), calls)>>
  BY <1>1 DEF DecodeAssistant
<1>3. CallIds(calls) = [n \in DOMAIN uses |-> uses[n].id]
  BY <1>1, CallsInType
<1>4. Meaning(Calling(JoinedText(blocks), calls))
         = Turn("assistant", JoinedText(blocks), CallIds(calls), <<>>)
  BY DEF Meaning, Calling
<1> QED
  BY <1>2, <1>3, <1>4, MeaningsOne

(* An Anthropic message has the turn of what it is decoded to.             *)
LEMMA AnthropicMeans ==
    ASSUME NEW turns \in Seq(AnyTurn), NEW m \in AnthropicMessage, IsWellFormed(m)
    PROVE  Onto(turns, Meanings(DecodeAnthropicMessage(m)))
              = AddTurn(turns, AnthropicTurn(m))
<1>1. m.role \in {"user", "assistant"} /\ m.content \in Content
  BY DEF AnthropicMessage
<1>2. PICK blocks \in Seq(Block) : blocks = m.content.blocks
  BY <1>1 DEF Content
<1>3. PICK text \in Text : text = m.content.text
  BY <1>1 DEF Content
<1>4. ParsedBlocks(m.content) = blocks
  BY <1>2 DEF ParsedBlocks, IsWellFormed
<1>5. PICK uses : uses = OfType("tool_use", blocks)
  OBVIOUS
<1>6. PICK results : results = OfType("tool_result", blocks)
  OBVIOUS
<1>7. PICK rs : rs = [n \in DOMAIN results |-> [id |-> results[n].id, text |-> results[n].text]]
  OBVIOUS
<1>8. PICK ids : ids = [n \in DOMAIN uses |-> uses[n].id]
  OBVIOUS
<1>9. AnthropicTurn(m) = Turn(m.role, text \o JoinedText(blocks), ids, rs)
  BY <1>2, <1>3, <1>5, <1>6, <1>7, <1>8 DEF AnthropicTurn
<1>10. CASE blocks = <<>>
  <2>1. DecodeAnthropicMessage(m) = <<Saying(m.role, text)>>
    BY <1>3, <1>4, <1>10 DEF DecodeAnthropicMessage
  <2>2. Meaning(Saying(m.role, text)) = Turn(m.role, text, <<>>, <<>>)
    BY <1>1 DEF Meaning, Saying, CallIds
  <2>3. Meanings(DecodeAnthropicMessage(m)) = <<Turn(m.role, text, <<>>, <<>>)>>
    BY <2>1, <2>2, MeaningsOne
  <2>4. \A n \in DOMAIN blocks : FALSE
    BY <1>10
  <2>5. uses = <<>> /\ results = <<>> /\ JoinedText(blocks) = <<>>
    BY <1>5, <1>6, <2>4, NoneOfType, JoinedNone
  <2>6. ids = <<>> /\ rs = <<>>
    BY <1>7, <1>8, <2>5
  <2>7. text \o <<>> = text
    BY AfterNothing
  <2> QED
    BY <1>9, <2>3, <2>5, <2>6, <2>7, OntoOne
<1>11. CASE blocks # <<>> /\ m.role = "assistant"
  <2>1. DecodeAnthropicMessage(m) = DecodeAssistant(blocks)
    BY <1>4, <1>11 DEF DecodeAnthropicMessage
  <2>2. Meanings(DecodeAssistant(blocks))
           = <<Turn("assistant", JoinedText(blocks), ids, <<>>)>>
    BY <1>5, <1>8, AssistantDecoded
  <2>3. \A n \in DOMAIN blocks : blocks[n].type # "tool_result"
    BY <1>2, <1>11 DEF IsWellFormed
  <2>4. results = <<>>
    BY <1>6, <2>3, NoneOfType
  <2>5. rs = <<>>
    BY <1>7, <2>4
  <2>6. text = <<>>
    BY <1>2, <1>3, <1>11 DEF IsWellFormed
  <2>7. JoinedText(blocks) \in Text
    BY JoinedTextType
  <2>8. text \o JoinedText(blocks) = JoinedText(blocks)
    BY <2>6, <2>7, AfterNothing
  <2> QED
    BY <1>9, <1>11, <2>1, <2>2, <2>5, <2>8, OntoOne
<1>12. CASE blocks # <<>> /\ m.role = "user"
  <2>1. DecodeAnthropicMessage(m) = DecodeUser(blocks)
    BY <1>4, <1>12 DEF DecodeAnthropicMessage
  <2>2. \A n \in DOMAIN blocks : blocks[n].type \in {"text", "tool_result"}
    BY <1>2, <1>12 DEF IsWellFormed
  <2>3. Onto(turns, Meanings(DecodeUser(blocks)))
           = AddTurn(turns, Turn("user", JoinedText(blocks), <<>>, rs))
    BY <1>6, <1>7, <1>12, <2>2, UserDecoded
  <2>4. \A n \in DOMAIN blocks : blocks[n].type # "tool_use"
    BY <2>2
  <2>5. uses = <<>>
    BY <1>5, <2>4, NoneOfType
  <2>6. ids = <<>>
    BY <1>8, <2>5
  <2>7. text = <<>>
    BY <1>2, <1>3, <1>12 DEF IsWellFormed
  <2>8. JoinedText(blocks) \in Text
    BY JoinedTextType
  <2>9. text \o JoinedText(blocks) = JoinedText(blocks)
    BY <2>7, <2>8, AfterNothing
  <2> QED
    BY <1>9, <1>12, <2>1, <2>3, <2>6, <2>9
<1> QED
  BY <1>1, <1>10, <1>11, <1>12

ProperMessage == {m \in Message : IsProper(m)}

LEMMA UserDecodesProper ==
    ASSUME NEW blocks \in Seq(Block),
           \A n \in DOMAIN blocks : blocks[n].type = "tool_result" => blocks[n].id # 0
    PROVE  DecodeUser(blocks) \in Seq(ProperMessage)
<1> DEFINE A == {b \in Block : b.type = "tool_result" => b.id # 0}
           results == OfType("tool_result", blocks)
           run == [n \in DOMAIN results |-> Answering(results[n].id, results[n].text)]
           text == JoinedText(blocks)
           said == IF OfType("text", blocks) = <<>> THEN <<>> ELSE <<Saying("user", text)>>
<1>1. \A n \in 1..Len(blocks) : blocks[n] \in A
  OBVIOUS
<1>2. DecodeUser(blocks) = run \o said
  BY DEF DecodeUser
<1>3. results \in Seq({b \in A : b.type = "tool_result"})
  <2> HIDE DEF A
  <2>1. blocks \in Seq(A)
    BY <1>1, NarrowSeq
  <2> QED
    BY <2>1, OfTypeType
<1>4. text \in Text
  BY JoinedTextType
<1> HIDE DEF results, text
<1>5. \A n \in DOMAIN results : /\ results[n].id \in Nat /\ results[n].text \in Text
                                /\ results[n].id # 0
  <2>1. \A n \in DOMAIN results : results[n] \in A /\ results[n].type = "tool_result"
    <3> HIDE DEF A
    <3> QED
      BY <1>3
  <2>2. \A n \in DOMAIN results : results[n] \in Block /\ results[n].id # 0
    BY <2>1
  <2> QED
    BY <2>2 DEF Block
<1>6. \A n \in DOMAIN results :
         Answering(results[n].id, results[n].text) \in ProperMessage
  <2> SUFFICES ASSUME NEW n \in DOMAIN results
               PROVE  Answering(results[n].id, results[n].text) \in ProperMessage
    OBVIOUS
  <2>1. Answering(results[n].id, results[n].text) \in Whole
    BY <1>5, AnsweringWhole
  <2>2. IsProper(Answering(results[n].id, results[n].text))
    BY <1>5 DEF IsProper, Answering
  <2> QED
    BY <2>1, <2>2 DEF Whole, ProperMessage
<1>7. run \in [DOMAIN results -> ProperMessage]
  BY <1>6
<1> HIDE DEF run
<1>8. run \in Seq(ProperMessage)
  <2> HIDE DEF A
  <2> QED
    BY <1>3, <1>7, SeqOnDomain
<1>9. Saying("user", text) \in ProperMessage
  <2>1. Saying("user", text) \in Whole
    BY <1>4, SayingWhole DEF Roles
  <2>2. IsProper(Saying("user", text))
    BY DEF IsProper, Saying
  <2> QED
    BY <2>1, <2>2 DEF Whole, ProperMessage
<1>10. said \in Seq(ProperMessage)
  BY <1>9
<1> HIDE DEF said
<1> QED
  BY <1>2, <1>8, <1>10

LEMMA DecodesProper ==
    ASSUME NEW m \in AnthropicMessage, IsWellFormed(m)
    PROVE  DecodeAnthropicMessage(m) \in Seq(ProperMessage)
<1>1. m.role \in {"user", "assistant"} /\ m.content \in Content
  BY DEF AnthropicMessage
<1>2. PICK blocks \in Seq(Block) : blocks = m.content.blocks
  BY <1>1 DEF Content
<1>3. PICK text \in Text : text = m.content.text
  BY <1>1 DEF Content
<1>4. ParsedBlocks(m.content) = blocks
  BY <1>2 DEF ParsedBlocks, IsWellFormed
<1>5. CASE blocks = <<>>
  <2>1. DecodeAnthropicMessage(m) = <<Saying(m.role, text)>>
    BY <1>3, <1>4, <1>5 DEF DecodeAnthropicMessage
  <2>2. Saying(m.role, text) \in Whole
    BY <1>1, SayingWhole DEF Roles
  <2>3. IsProper(Saying(m.role, text))
    BY <1>1 DEF IsProper, Saying
  <2>4. Saying(m.role, text) \in ProperMessage
    BY <2>2, <2>3 DEF Whole, ProperMessage
  <2> QED
    BY <2>1, <2>4
<1>6. CASE blocks # <<>> /\ m.role = "assistant"
  <2>1. DecodeAnthropicMessage(m) = DecodeAssistant(blocks)
    BY <1>4, <1>6 DEF DecodeAnthropicMessage
  <2> DEFINE D == Decoded(IsBroken(OfType("tool_use", blocks)))
  <2>2. DecodeAssistant(blocks) \in Seq(D)
    BY DecodeAssistantType
  <2>3. PICK a : DecodeAssistant(blocks) = <<a>> /\ a.role = "assistant"
    <3>1. \A calls : Calling(JoinedText(blocks), calls).role = "assistant"
      BY DEF Calling
    <3> QED
      BY <3>1 DEF DecodeAssistant
  <2>4. a \in D
    <3> HIDE DEF D
    <3> QED
      BY <2>2, <2>3
  <2>5. a \in ProperMessage
    BY <2>3, <2>4 DEF Decoded, ProperMessage, IsProper
  <2> QED
    BY <2>1, <2>3, <2>5
<1>7. CASE blocks # <<>> /\ m.role = "user"
  <2>1. DecodeAnthropicMessage(m) = DecodeUser(blocks)
    BY <1>4, <1>7 DEF DecodeAnthropicMessage
  <2>2. \A n \in DOMAIN blocks : blocks[n].type = "tool_result" => blocks[n].id # 0
    BY <1>2 DEF IsWellFormed
  <2> QED
    BY <2>1, <2>2, UserDecodesProper
<1> QED
  BY <1>1, <1>5, <1>6, <1>7

(* An Anthropic body has the turns of what it is decoded to.               *)
LEMMA DecodeAnthropicMeans ==
    ASSUME NEW b \in MessagesRequest, \A n \in 1..Len(b.messages) : IsWellFormed(b.messages[n])
    PROVE  /\ Turns(MessagesOf("anthropic", b))
                 = Turns(Meanings(DecodeMessagesRequest(b).messages))
           /\ DecodeMessagesRequest(b).messages \in Seq(ProperMessage)
<1>1. b.messages \in Seq(AnthropicMessage)
  BY DEF MessagesRequest, AnthropicMessage
<1>2. PICK ms \in Seq(AnthropicMessage) : ms = b.messages
  BY <1>1
<1>3. PICK L \in Nat : L = Len(ms)
  OBVIOUS
<1>4. PICK ds : ds = [n \in DOMAIN ms |-> DecodeAnthropicMessage(ms[n])]
  OBVIOUS
<1>5. PICK d : d = FlattenSeq(ds)
  OBVIOUS
<1>6. DecodeMessagesRequest(b).messages = d
  BY <1>2, <1>4, <1>5 DEF DecodeMessagesRequest, PlainRequest
<1>7. \A n \in DOMAIN ms : ms[n] \in AnthropicMessage /\ IsWellFormed(ms[n])
  BY <1>2
<1>8. ds \in [DOMAIN ms -> Seq(ProperMessage)]
  BY <1>4, <1>7, DecodesProper
<1>9. ds \in Seq(Seq(ProperMessage)) /\ Len(ds) = L
  BY <1>3, <1>8, SeqOnDomain
<1>10. d \in Seq(ProperMessage)
  BY <1>5, <1>9, FlattenType
<1>11. \A n \in 1..L : ds[n] \in Seq(Message) /\ ds[n] = DecodeAnthropicMessage(ms[n])
  <2>1. ASSUME NEW n \in 1..L
        PROVE  ds[n] \in Seq(Message) /\ ds[n] = DecodeAnthropicMessage(ms[n])
    <3>1. ds[n] \in Seq(ProperMessage)
      BY <1>9
    <3>2. \A k \in 1..Len(ds[n]) : ds[n][k] \in Message
      BY <3>1 DEF ProperMessage
    <3>3. ds[n] \in Seq(Message)
      BY <3>1, <3>2, NarrowSeq
    <3>4. n \in DOMAIN ms
      BY <1>3
    <3> QED
      BY <1>4, <3>3, <3>4
  <2> QED
    BY <2>1
<1>12. ds \in Seq(Seq(Message))
  <2>1. \A n \in 1..Len(ds) : ds[n] \in Seq(Message)
    BY <1>9, <1>11
  <2> QED
    BY <1>9, <2>1, NarrowSeq
<1>13. d \in Seq(Message)
  BY <1>5, <1>12, FlattenType
<1>14. PICK g : /\ g[0] = <<>>
                /\ \A n \in 1..Len(ds) : g[n] = Onto(g[n - 1], Mapped(MeaningOf, ds[n]))
                /\ Onto(<<>>, Mapped(MeaningOf, FlattenSeq(ds))) = g[Len(ds)]
  BY <1>12, MeaningOfMaps, OntoFlatten
<1>15. ASSUME NEW n \in 1..L PROVE g[n] = Onto(g[n - 1], Meanings(DecodeAnthropicMessage(ms[n])))
  <2>1. ds[n] \in Seq(Message) /\ ds[n] = DecodeAnthropicMessage(ms[n])
    BY <1>11
  <2>2. Mapped(MeaningOf, ds[n]) = Meanings(ds[n])
    BY <2>1, MappedMeanings
  <2>3. g[n] = Onto(g[n - 1], Mapped(MeaningOf, ds[n]))
    BY <1>9, <1>14
  <2> QED
    BY <2>1, <2>2, <2>3
<1>16. PICK t : t = MessagesOf("anthropic", b)
  OBVIOUS
<1>17. t = [n \in DOMAIN ms |-> AnthropicTurn(ms[n])]
  BY <1>2, <1>16 DEF MessagesOf
<1>18. t \in Seq(AnyTurn) /\ Len(t) = L /\ \A n \in 1..L : t[n] = AnthropicTurn(ms[n])
  <2>1. t \in [DOMAIN ms -> AnyTurn]
    BY <1>7, <1>17, AnthropicTurnType
  <2>2. t \in Seq(AnyTurn) /\ Len(t) = L
    BY <1>3, <2>1, SeqOnDomain
  <2>3. DOMAIN ms = 1..L
    BY <1>3
  <2> QED
    BY <1>17, <2>2, <2>3
<1> DEFINE T == {n \in Nat : n <= L => g[n] \in Seq(AnyTurn)}
<1>19. ASSUME NEW n \in 1..L, g[n - 1] \in Seq(AnyTurn)
       PROVE  g[n] = AddTurn(g[n - 1], t[n]) /\ g[n] \in Seq(AnyTurn)
  <2>1. n \in DOMAIN ms
    BY <1>3
  <2>2. ms[n] \in AnthropicMessage /\ IsWellFormed(ms[n])
    BY <1>7, <2>1
  <2>3. PICK p \in Seq(AnyTurn) : p = g[n - 1]
    BY <1>19
  <2>4. PICK m \in AnthropicMessage : m = ms[n] /\ IsWellFormed(m)
    BY <2>2
  <2>5. Onto(p, Meanings(DecodeAnthropicMessage(m))) = AddTurn(p, AnthropicTurn(m))
    BY <2>4, AnthropicMeans
  <2>6. g[n] = AddTurn(p, AnthropicTurn(m))
    BY <1>15, <2>3, <2>4, <2>5
  <2>7. AnthropicTurn(m) \in AnyTurn
    BY AnthropicTurnType
  <2>8. AddTurn(p, AnthropicTurn(m)) \in Seq(AnyTurn)
    BY <2>7, AddTurnType
  <2> QED
    BY <1>18, <2>3, <2>4, <2>6, <2>8
<1>20. 0 \in T
  <2>1. <<>> \in Seq(AnyTurn)
    OBVIOUS
  <2>2. g[0] \in Seq(AnyTurn)
    BY <1>14, <2>1
  <2> QED
    BY <2>2
<1>21. ASSUME NEW n \in Nat, n \in T PROVE n + 1 \in T
  <2> SUFFICES ASSUME n + 1 <= L PROVE g[n + 1] \in Seq(AnyTurn)
    OBVIOUS
  <2>1. n + 1 \in 1..L /\ (n + 1) - 1 = n /\ n <= L
    OBVIOUS
  <2> QED
    BY <1>19, <1>21, <2>1
<1>22. \A n \in Nat : n \in T
  <2> HIDE DEF T
  <2> QED
    BY <1>20, <1>21, FromZeroOn
<1>23. \A n \in 1..L : g[n] = AddTurn(g[n - 1], t[n])
  <2>1. ASSUME NEW n \in 1..L PROVE g[n] = AddTurn(g[n - 1], t[n])
    <3>1. n - 1 \in Nat /\ n - 1 <= L
      OBVIOUS
    <3>2. n - 1 \in T
      BY <1>22, <3>1
    <3>3. g[n - 1] \in Seq(AnyTurn)
      BY <3>1, <3>2
    <3> QED
      BY <1>19, <3>3
  <2> QED
    BY <2>1
<1> HIDE DEF T
<1>24. Adds(<<>>, t, g)
  BY <1>14, <1>18, <1>23 DEF Adds
<1>25. Onto(<<>>, t) = g[L]
  BY <1>18, <1>24, OntoBy
<1>26. Onto(<<>>, Mapped(MeaningOf, d)) = g[L]
  BY <1>5, <1>9, <1>14
<1>27. Mapped(MeaningOf, d) = Meanings(d)
  BY <1>13, MappedMeanings
<1>28. Turns(t) = Onto(<<>>, t)
  BY <1>18, TurnsAreOnto
<1>29. Turns(Meanings(d)) = Onto(<<>>, Meanings(d))
  <2>1. Len(Meanings(d)) \in Nat
    BY <1>13, MeaningsType
  <2> QED
    BY <2>1, TurnsAreOnto
<1> QED
  BY <1>6, <1>10, <1>16, <1>25, <1>26, <1>27, <1>28, <1>29

-----------------------------------------------------------------------------
(* What the modifiers of an exchange leave alone.                          *)
TargetIn(x, speaker) ==
    \E n \in DOMAIN x.pre : x.pre[n].target \in {"all", speaker}

ResultLeft(x) == [r \in Result |-> [r EXCEPT !.text = Unless(TargetIn(x, "tool"), @)]]

LeftAlone(x, t) ==
    Turn(t.by, Unless(TargetIn(x, t.by), t.text), t.calls, Mapped(ResultLeft(x), t.results))

LeftOf(x) == [t \in AnyTurn |-> LeftAlone(x, t)]

LeftAll(x, turns) == Mapped(LeftOf(x), turns)

LEMMA UnlessType ==
    ASSUME NEW c \in BOOLEAN, NEW a \in Text, NEW b \in Text
    PROVE  /\ Unless(c, a) \in Text
           /\ Unless(c, a \o b) = Unless(c, a) \o Unless(c, b)
<1>1. <<>> \in Text /\ <<>> \o <<>> = <<>>
  BY DEF Text
<1> QED
  BY <1>1 DEF Unless

LEMMA ResultLeftMaps ==
    ASSUME NEW x
    PROVE  IsMap(ResultLeft(x), Result, Result)
<1>1. ASSUME NEW r \in Result
      PROVE  [r EXCEPT !.text = Unless(TargetIn(x, "tool"), r.text)] \in Result
  <2>1. r.text \in Text /\ r.id \in Nat
    BY DEF Result
  <2>2. Unless(TargetIn(x, "tool"), r.text) \in Text
    BY <2>1, UnlessType DEF TargetIn
  <2> QED
    BY <2>1, <2>2 DEF Result
<1> QED
  BY <1>1 DEF IsMap, ResultLeft

LEMMA LeftAloneType ==
    ASSUME NEW x, NEW t \in AnyTurn
    PROVE  LeftAlone(x, t) \in AnyTurn
<1>1. t.by \in {"user", "assistant"} /\ t.text \in Text /\ t.calls \in Seq(Nat)
      /\ t.results \in Seq(Result)
  BY DEF AnyTurn
<1>2. Unless(TargetIn(x, t.by), t.text) \in Text
  BY <1>1, UnlessType DEF TargetIn
<1>3. Mapped(ResultLeft(x), t.results) \in Seq(Result)
  BY <1>1, ResultLeftMaps, MappedType
<1> QED
  BY <1>1, <1>2, <1>3 DEF LeftAlone, Turn, AnyTurn

LEMMA LeftOfMaps ==
    ASSUME NEW x
    PROVE  IsMap(LeftOf(x), AnyTurn, AnyTurn)
BY LeftAloneType DEF IsMap, LeftOf

LEMMA LeftMerged ==
    ASSUME NEW x, NEW t \in AnyTurn, NEW u \in AnyTurn, t.by = u.by
    PROVE  LeftAlone(x, Merged(t, u)) = Merged(LeftAlone(x, t), LeftAlone(x, u))
<1>1. /\ t.text \in Text /\ t.calls \in Seq(Nat) /\ t.results \in Seq(Result)
      /\ u.text \in Text /\ u.calls \in Seq(Nat) /\ u.results \in Seq(Result)
  BY DEF AnyTurn
<1>2. PICK c \in BOOLEAN : c = TargetIn(x, t.by)
  BY DEF TargetIn
<1>3. Unless(c, t.text \o u.text) = Unless(c, t.text) \o Unless(c, u.text)
  BY <1>1, UnlessType
<1>4. PICK f : f = ResultLeft(x)
  OBVIOUS
<1>5. IsMap(f, Result, Result)
  BY <1>4, ResultLeftMaps
<1>6. Mapped(f, t.results \o u.results) = Mapped(f, t.results) \o Mapped(f, u.results)
  BY <1>1, <1>5, MappedConcat
<1> QED
  BY <1>2, <1>3, <1>4, <1>6 DEF LeftAlone, Merged, Turn

LEMMA LeftAppend ==
    ASSUME NEW x, NEW turns \in Seq(AnyTurn), NEW t \in AnyTurn
    PROVE  LeftAll(x, Append(turns, t)) = Append(LeftAll(x, turns), LeftAlone(x, t))
<1>1. PICK f : f = LeftOf(x)
  OBVIOUS
<1>2. IsMap(f, AnyTurn, AnyTurn)
  BY <1>1, LeftOfMaps
<1>3. f[t] = LeftAlone(x, t)
  BY <1>1 DEF LeftOf
<1>4. <<t>> \in Seq(AnyTurn)
  OBVIOUS
<1>5. Mapped(f, turns \o <<t>>) = Mapped(f, turns) \o Mapped(f, <<t>>)
  <2>1. PICK o \in Seq(AnyTurn) : o = <<t>>
    BY <1>4
  <2>2. Mapped(f, turns \o o) = Mapped(f, turns) \o Mapped(f, o)
    BY <1>2, MappedConcat
  <2> QED
    BY <2>1, <2>2
<1>6. Mapped(f, <<t>>) = <<LeftAlone(x, t)>>
  <2>1. Mapped(f, <<t>>) = [n \in {1} |-> f[<<t>>[n]]]
    BY DEF Mapped
  <2>2. \A n \in {1} : f[<<t>>[n]] = LeftAlone(x, t)
    BY <1>3
  <2> QED
    BY <2>1, <2>2
<1>7. Append(turns, t) = turns \o <<t>>
  OBVIOUS
<1>8. PICK v : v = Mapped(f, turns)
  OBVIOUS
<1>9. v \in Seq(AnyTurn)
  BY <1>2, <1>8, MappedType
<1>10. LeftAlone(x, t) \in AnyTurn
  BY LeftAloneType
<1>11. Append(v, LeftAlone(x, t)) = v \o <<LeftAlone(x, t)>>
  BY <1>9, <1>10
<1> QED
  BY <1>1, <1>5, <1>6, <1>7, <1>8, <1>11 DEF LeftAll

LEMMA LeftAdd ==
    ASSUME NEW x, NEW turns \in Seq(AnyTurn), NEW t \in AnyTurn
    PROVE  LeftAll(x, AddTurn(turns, t)) = AddTurn(LeftAll(x, turns), LeftAlone(x, t))
<1>1. PICK v : v = LeftAll(x, turns)
  OBVIOUS
<1>2. v \in Seq(AnyTurn) /\ Len(v) = Len(turns)
  BY <1>1, LeftOfMaps, MappedType DEF LeftAll
<1>3. PICK u : u = LeftAlone(x, t)
  OBVIOUS
<1>4. u \in AnyTurn /\ u.by = t.by
  BY <1>3, LeftAloneType DEF LeftAlone, Turn
<1>5. CASE turns = <<>>
  <2>1. v = <<>>
    BY <1>2, <1>5
  <2>2. AddTurn(turns, t) = Append(turns, t) /\ AddTurn(v, u) = Append(v, u)
    BY <1>5, <2>1 DEF AddTurn
  <2> QED
    BY <1>1, <1>3, <2>2, LeftAppend
<1>6. CASE turns # <<>>
  <2>1. PICK l \in AnyTurn : l = Last(turns)
    BY <1>6, EndOfSeq
  <2>2. PICK s \in Seq(AnyTurn) : s = Front(turns)
    BY <1>6, EndOfSeq
  <2>3. turns = Append(s, l)
    BY <1>6, <2>1, <2>2 DEF Front, Last
  <2>4. PICK w : w = LeftAll(x, s)
    OBVIOUS
  <2>5. w \in Seq(AnyTurn)
    BY <2>4, LeftOfMaps, MappedType DEF LeftAll
  <2>6. PICK k : k = LeftAlone(x, l)
    OBVIOUS
  <2>7. k \in AnyTurn /\ k.by = l.by
    BY <2>6, LeftAloneType DEF LeftAlone, Turn
  <2>8. v = Append(w, k)
    BY <1>1, <2>3, <2>4, <2>6, LeftAppend
  <2>9. v # <<>> /\ Last(v) = k /\ Front(v) = w
    BY <2>5, <2>7, <2>8, EndOfSeq
  <2>10. CASE l.by = t.by
    <3>1. AddTurn(turns, t) = Append(s, Merged(l, t))
      BY <1>6, <2>1, <2>2, <2>10 DEF AddTurn
    <3>2. AddTurn(v, u) = Append(w, Merged(k, u))
      BY <1>4, <2>7, <2>9, <2>10 DEF AddTurn
    <3>3. Merged(l, t) \in AnyTurn
      BY MergedType
    <3>4. LeftAll(x, Append(s, Merged(l, t))) = Append(w, LeftAlone(x, Merged(l, t)))
      BY <2>4, <3>3, LeftAppend
    <3>5. LeftAlone(x, Merged(l, t)) = Merged(k, u)
      BY <1>3, <2>6, <2>10, LeftMerged
    <3> QED
      BY <1>1, <1>3, <3>1, <3>2, <3>4, <3>5
  <2>11. CASE l.by # t.by
    <3>1. AddTurn(turns, t) = Append(turns, t)
      BY <2>1, <2>11 DEF AddTurn
    <3>2. AddTurn(v, u) = Append(v, u)
      BY <1>4, <2>7, <2>9, <2>11 DEF AddTurn
    <3> QED
      BY <1>1, <1>3, <3>1, <3>2, LeftAppend
  <2> QED
    BY <2>10, <2>11
<1> QED
  BY <1>5, <1>6

(* Messages that say the same, but for what modifiers may change, have the *)
(* turns that do.                                                          *)
LEMMA LeftTurns ==
    ASSUME NEW x, NEW ms \in Seq(AnyTurn), NEW ns \in Seq(AnyTurn), Len(ms) = Len(ns),
           \A n \in 1..Len(ms) : LeftAlone(x, ms[n]) = LeftAlone(x, ns[n])
    PROVE  LeftAll(x, Turns(ms)) = LeftAll(x, Turns(ns))
<1>1. PICK L \in Nat : L = Len(ms)
  OBVIOUS
<1>2. PICK f : Adds(<<>>, ms, f) /\ Turns(ms) = f[L]
  BY <1>1, TurnsAre
<1>3. PICK g : Adds(<<>>, ns, g) /\ Turns(ns) = g[L]
  BY <1>1, TurnsAre
<1>4. <<>> \in Seq(AnyTurn)
  OBVIOUS
<1>5. \A n \in 0..L : f[n] \in Seq(AnyTurn)
  BY <1>1, <1>2, <1>4, AddsType
<1>6. \A n \in 0..L : g[n] \in Seq(AnyTurn)
  BY <1>1, <1>3, <1>4, AddsType
<1> DEFINE T == {n \in Nat : n <= L => LeftAll(x, f[n]) = LeftAll(x, g[n])}
<1>7. 0 \in T
  BY <1>2, <1>3 DEF Adds
<1>8. ASSUME NEW n \in Nat, n \in T PROVE n + 1 \in T
  <2> SUFFICES ASSUME n + 1 <= L PROVE LeftAll(x, f[n + 1]) = LeftAll(x, g[n + 1])
    OBVIOUS
  <2>1. n \in 0..L /\ n + 1 \in 1..L /\ (n + 1) - 1 = n /\ n <= L
    OBVIOUS
  <2>2. LeftAll(x, f[n]) = LeftAll(x, g[n])
    BY <1>8, <2>1
  <2>3. f[n + 1] = AddTurn(f[n], ms[n + 1]) /\ g[n + 1] = AddTurn(g[n], ns[n + 1])
    BY <1>1, <1>2, <1>3, <2>1 DEF Adds
  <2>4. PICK p \in Seq(AnyTurn) : p = f[n]
    BY <1>5, <2>1
  <2>5. PICK q \in Seq(AnyTurn) : q = g[n]
    BY <1>6, <2>1
  <2>6. PICK t \in AnyTurn : t = ms[n + 1]
    BY <1>1, <2>1
  <2>7. PICK u \in AnyTurn : u = ns[n + 1]
    BY <1>1, <2>1
  <2>8. LeftAlone(x, t) = LeftAlone(x, u)
    BY <1>1, <2>1, <2>6, <2>7
  <2>9. LeftAll(x, AddTurn(p, t)) = AddTurn(LeftAll(x, p), LeftAlone(x, t))
    BY LeftAdd
  <2>10. LeftAll(x, AddTurn(q, u)) = AddTurn(LeftAll(x, q), LeftAlone(x, u))
    BY LeftAdd
  <2> QED
    BY <2>2, <2>3, <2>4, <2>5, <2>6, <2>7, <2>8, <2>9, <2>10
<1>9. L \in T
  <2> HIDE DEF T
  <2> QED
    BY <1>7, <1>8, FromZeroOn
<1>10. LeftAll(x, f[L]) = LeftAll(x, g[L])
  BY <1>9
<1> QED
  BY <1>2, <1>3, <1>10

LEMMA MeaningLeft ==
    ASSUME NEW x, NEW m \in Message, NEW q \in Message, SameMessage(m, q),
           ~TargetIn(x, m.role) => m.content = q.content
    PROVE  LeftAlone(x, Meaning(m)) = LeftAlone(x, Meaning(q))
<1>1. /\ m.role = q.role /\ m.calls = q.calls /\ m.answers = q.answers
  BY DEF SameMessage
<1>2. \A c \in BOOLEAN : \A a, b : (~c => a = b) => Unless(c, a) = Unless(c, b)
  BY DEF Unless
<1>3. Unless(TargetIn(x, m.role), m.content) = Unless(TargetIn(x, m.role), q.content)
  BY <1>2 DEF TargetIn
<1>4. CASE m.role = "tool"
  <2>1. PICK r : r = [id |-> m.answers, text |-> m.content]
    OBVIOUS
  <2>2. PICK s : s = [id |-> q.answers, text |-> q.content]
    OBVIOUS
  <2>3. r \in Result /\ s \in Result
    BY <2>1, <2>2 DEF Message, Result
  <2>4. ResultLeft(x)[r] = [r EXCEPT !.text = Unless(TargetIn(x, "tool"), r.text)]
        /\ ResultLeft(x)[s] = [s EXCEPT !.text = Unless(TargetIn(x, "tool"), s.text)]
    BY <2>3 DEF ResultLeft
  <2>5. ResultLeft(x)[r] = ResultLeft(x)[s]
    BY <1>1, <1>3, <1>4, <2>1, <2>2, <2>4
  <2>6. \A e : Mapped(ResultLeft(x), <<e>>) = <<ResultLeft(x)[e]>>
    <3>1. PICK f : f = ResultLeft(x)
      OBVIOUS
    <3>2. ASSUME NEW e PROVE Mapped(f, <<e>>) = <<f[e]>>
      <4>1. Mapped(f, <<e>>) = [n \in {1} |-> f[<<e>>[n]]]
        BY DEF Mapped
      <4>2. \A n \in {1} : f[<<e>>[n]] = f[e]
        OBVIOUS
      <4> QED
        BY <4>1, <4>2
    <3> QED
      BY <3>1, <3>2
  <2>7. Meaning(m) = Turn("user", <<>>, <<>>, <<r>>) /\ Meaning(q) = Turn("user", <<>>, <<>>, <<s>>)
    BY <1>1, <1>4, <2>1, <2>2 DEF Meaning
  <2>8. Mapped(ResultLeft(x), <<r>>) = Mapped(ResultLeft(x), <<s>>)
    BY <2>5, <2>6
  <2> QED
    BY <2>7, <2>8 DEF LeftAlone, Turn
<1>5. CASE m.role # "tool"
  <2>1. /\ Meaning(m) = Turn(m.role, m.content, CallIds(m.calls), <<>>)
        /\ Meaning(q) = Turn(m.role, q.content, CallIds(m.calls), <<>>)
    BY <1>1, <1>5 DEF Meaning
  <2> QED
    BY <1>3, <2>1 DEF LeftAlone, Turn
<1> QED
  BY <1>4, <1>5

(* Requests that differ in texts only, and in those only that a modifier   *)
(* is set upon.                                                            *)
SaysTheRest(x, r, q) ==
    /\ SameRequest(r, q)
    /\ ~TargetIn(x, "system") => r.system = q.system
    /\ \A n \in DOMAIN r.messages :
          ~TargetIn(x, r.messages[n].role) => r.messages[n].content = q.messages[n].content

LEMMA RestHasTurns ==
    ASSUME NEW x, NEW r \in NormalizedRequest, NEW q \in NormalizedRequest,
           SaysTheRest(x, r, q)
    PROVE  LeftAll(x, Turns(Meanings(r.messages))) = LeftAll(x, Turns(Meanings(q.messages)))
<1>1. PICK ms \in Seq(Message) : ms = r.messages
  BY DEF NormalizedRequest
<1>2. PICK ns \in Seq(Message) : ns = q.messages
  BY DEF NormalizedRequest
<1>3. DOMAIN ms = DOMAIN ns
  BY <1>1, <1>2 DEF SaysTheRest, SameRequest
<1>4. PICK L \in Nat : L = Len(ms) /\ L = Len(ns)
  BY <1>3
<1>5. /\ Meanings(ms) \in Seq(AnyTurn) /\ Len(Meanings(ms)) = L
      /\ \A n \in 1..L : Meanings(ms)[n] = Meaning(ms[n])
  BY <1>4, MeaningsType
<1>6. /\ Meanings(ns) \in Seq(AnyTurn) /\ Len(Meanings(ns)) = L
      /\ \A n \in 1..L : Meanings(ns)[n] = Meaning(ns[n])
  BY <1>4, MeaningsType
<1>7. ASSUME NEW n \in 1..L PROVE LeftAlone(x, Meanings(ms)[n]) = LeftAlone(x, Meanings(ns)[n])
  <2>1. n \in DOMAIN ms /\ ms[n] \in Message /\ ns[n] \in Message
    <3>1. n \in 1..Len(ms) /\ n \in 1..Len(ns)
      BY <1>4
    <3>2. n \in DOMAIN ms /\ ms[n] \in Message
      BY <3>1
    <3>3. ns[n] \in Message
      BY <3>1
    <3> QED
      BY <3>2, <3>3
  <2>2. SameMessage(ms[n], ns[n])
    BY <1>1, <1>2, <2>1 DEF SaysTheRest, SameRequest
  <2>3. ~TargetIn(x, ms[n].role) => ms[n].content = ns[n].content
    BY <1>1, <1>2, <2>1 DEF SaysTheRest
  <2> QED
    BY <1>5, <1>6, <2>1, <2>2, <2>3, MeaningLeft
<1> QED
  BY <1>1, <1>2, <1>5, <1>6, <1>7, LeftTurns

-----------------------------------------------------------------------------
(* The system prompts.                                                     *)
Speaking(m) == IsSystem(m) /\ m.content # Null

SpeakSifted(s) == [n \in DOMAIN s |-> IF Speaking(s[n]) THEN <<s[n]>> ELSE <<>>]

(* Of the first n messages the k-th is the last that speaks for the system.*)
SpeaksLast(s, n, k) ==
    k \in 1..n /\ Speaking(s[k]) /\ \A j \in (k + 1)..n : ~Speaking(s[j])

LEMMA LastSpeaker ==
    ASSUME NEW s \in Seq(OpenAIMessage)
    PROVE  \/ /\ \A j \in 1..Len(s) : ~Speaking(s[j])
              /\ FlattenSeq(SpeakSifted(s)) = <<>>
           \/ \E k \in 1..Len(s) :
                 /\ SpeaksLast(s, Len(s), k)
                 /\ FlattenSeq(SpeakSifted(s)) # <<>>
                 /\ Last(FlattenSeq(SpeakSifted(s))) = s[k]
<1>1. PICK L \in Nat : L = Len(s)
  OBVIOUS
<1>2. PICK f : f = SpeakSifted(s)
  OBVIOUS
<1>3. \A n \in 1..L : /\ s[n] \in OpenAIMessage
                      /\ f[n] = IF Speaking(s[n]) THEN <<s[n]>> ELSE <<>>
  BY <1>1, <1>2 DEF SpeakSifted
<1>4. f \in [DOMAIN s -> Seq(OpenAIMessage)]
  <2>1. \A n \in DOMAIN s : (IF Speaking(s[n]) THEN <<s[n]>> ELSE <<>>) \in Seq(OpenAIMessage)
    OBVIOUS
  <2> QED
    BY <1>2, <2>1 DEF SpeakSifted
<1>5. f \in Seq(Seq(OpenAIMessage)) /\ Len(f) = L
  BY <1>1, <1>4, SeqOnDomain
<1>6. PICK h : /\ Steps(f, h) /\ FlattenSeq(f) = h[Len(f)]
               /\ \A n \in 0..Len(f) : h[n] \in Seq(OpenAIMessage)
  BY <1>5, FlattenSteps
<1> DEFINE None(n) == (\A j \in 1..n : ~Speaking(s[j])) /\ h[n] = <<>>
           Some(n) == \E k \in 1..n : /\ SpeaksLast(s, n, k)
                                      /\ h[n] # <<>> /\ Last(h[n]) = s[k]
           T == {n \in Nat : n <= L => None(n) \/ Some(n)}
<1>7. 0 \in T
  BY <1>6 DEF Steps
<1>8. ASSUME NEW n \in Nat, n \in T PROVE n + 1 \in T
  <2> SUFFICES ASSUME n + 1 <= L PROVE None(n + 1) \/ Some(n + 1)
    OBVIOUS
  <2>1. n + 1 \in 1..L /\ n <= L /\ (n + 1) - 1 = n /\ n \in 0..L
    OBVIOUS
  <2>2. h[n + 1] = h[n] \o f[n + 1]
    BY <1>5, <1>6, <2>1 DEF Steps
  <2>3. PICK p \in Seq(OpenAIMessage) : p = h[n]
    BY <1>5, <1>6, <2>1
  <2>4. CASE Speaking(s[n + 1])
    <3>1. h[n + 1] = p \o <<s[n + 1]>> /\ s[n + 1] \in OpenAIMessage
      BY <1>3, <2>1, <2>2, <2>3, <2>4
    <3>2. h[n + 1] = Append(p, s[n + 1])
      BY <3>1
    <3>3. h[n + 1] # <<>> /\ Last(h[n + 1]) = s[n + 1]
      <4>1. PICK e \in OpenAIMessage : e = s[n + 1]
        BY <3>1
      <4>2. PICK a : a = Append(p, e)
        OBVIOUS
      <4>3. a # <<>> /\ Last(a) = e
        BY <4>2, EndOfSeq
      <4> QED
        BY <3>2, <4>1, <4>2, <4>3
    <3>4. n + 1 \in 1..(n + 1) /\ \A j \in ((n + 1) + 1)..(n + 1) : FALSE
      OBVIOUS
    <3>5. SpeaksLast(s, n + 1, n + 1)
      BY <2>4, <3>4 DEF SpeaksLast
    <3> QED
      BY <3>3, <3>4, <3>5
  <2>5. CASE ~Speaking(s[n + 1])
    <3>1. h[n + 1] = h[n]
      <4>1. p \o <<>> = p
        OBVIOUS
      <4> QED
        BY <1>3, <2>1, <2>2, <2>3, <2>5, <4>1
    <3>2. CASE None(n)
      <4>1. \A j \in 1..(n + 1) : j \in 1..n \/ j = n + 1
        OBVIOUS
      <4> QED
        BY <2>5, <3>1, <3>2, <4>1
    <3>3. CASE Some(n)
      <4>1. PICK k \in 1..n : SpeaksLast(s, n, k) /\ h[n] # <<>> /\ Last(h[n]) = s[k]
        BY <3>3
      <4>2. k \in 1..(n + 1) /\ \A j \in (k + 1)..(n + 1) : j \in (k + 1)..n \/ j = n + 1
        OBVIOUS
      <4>3. SpeaksLast(s, n + 1, k)
        BY <2>5, <4>1, <4>2 DEF SpeaksLast
      <4> QED
        BY <3>1, <4>1, <4>2, <4>3
    <3> QED
      BY <1>8, <2>1, <3>2, <3>3
  <2> QED
    BY <2>4, <2>5
<1>9. L \in T
  <2> HIDE DEF T
  <2> QED
    BY <1>7, <1>8, FromZeroOn
<1>10. None(L) \/ Some(L)
  BY <1>9
<1>11. FlattenSeq(SpeakSifted(s)) = h[L]
  BY <1>2, <1>5, <1>6
<1> QED
  BY <1>1, <1>10, <1>11

LEMMA OpenAISystem ==
    ASSUME NEW b, b.messages \in Seq(OpenAIMessage)
    PROVE  SystemPromptOf("openai", b) = SystemOf(b.messages)
<1>1. PICK s \in Seq(OpenAIMessage) : s = b.messages
  OBVIOUS
<1>2. PICK systems : systems = {n \in DOMAIN s : IsSystem(s[n]) /\ s[n].content # Null}
  OBVIOUS
<1>3. SystemPromptOf("openai", b)
         = IF systems = {} THEN <<>>
           ELSE s[CHOOSE n \in systems : \A k \in systems : k <= n].content
  BY <1>1, <1>2 DEF SystemPromptOf
<1>4. PICK f : f = FlattenSeq(SpeakSifted(s))
  OBVIOUS
<1>5. SystemOf(s) = IF f = <<>> THEN <<>> ELSE Last(f).content
  BY <1>4 DEF SystemOf, Those, SpeakSifted, Speaking
<1>6. systems = {n \in 1..Len(s) : Speaking(s[n])}
  BY <1>2 DEF Speaking
<1>7. CASE (\A j \in 1..Len(s) : ~Speaking(s[j])) /\ f = <<>>
  BY <1>1, <1>3, <1>5, <1>6, <1>7
<1>8. CASE \E k \in 1..Len(s) : SpeaksLast(s, Len(s), k) /\ f # <<>> /\ Last(f) = s[k]
  <2>1. PICK k \in 1..Len(s) : SpeaksLast(s, Len(s), k) /\ f # <<>> /\ Last(f) = s[k]
    BY <1>8
  <2>2. k \in systems
    BY <1>6, <2>1 DEF SpeaksLast
  <2>3. \A j \in systems : j <= k
    <3>1. ASSUME NEW j \in systems PROVE j <= k
      <4>1. j \in 1..Len(s) /\ Speaking(s[j])
        BY <1>6
      <4>2. j \notin (k + 1)..Len(s)
        BY <2>1, <4>1 DEF SpeaksLast
      <4> QED
        BY <4>1, <4>2
    <3> QED
      BY <3>1
  <2>4. PICK c : c = CHOOSE n \in systems : \A j \in systems : j <= n
    OBVIOUS
  <2>5. c \in systems /\ \A j \in systems : j <= c
    BY <2>2, <2>3, <2>4
  <2>6. c = k
    <3>1. c \in Nat /\ k \in Nat /\ c <= k /\ k <= c
      BY <1>6, <2>2, <2>3, <2>5
    <3> QED
      BY <3>1
  <2>7. systems # {}
    BY <2>2
  <2>8. SystemPromptOf("openai", b) = s[k].content
    BY <1>3, <2>4, <2>6, <2>7
  <2> QED
    BY <1>1, <1>5, <2>1, <2>8
<1> QED
  BY <1>4, <1>7, <1>8, LastSpeaker

LEMMA EncodedOpenAISystem ==
    ASSUME NEW r \in NormalizedRequest
    PROVE  SystemPromptOf("openai", EncodeChatRequest(r)) = r.system
<1>1. PICK ms \in Seq(Message) : ms = r.messages
  BY DEF NormalizedRequest
<1>2. r.system \in Text
  BY DEF NormalizedRequest
<1>3. PICK es : es = [n \in DOMAIN ms |-> EncodeOpenAIMessage(ms[n])]
  OBVIOUS
<1>4. PICK s : s = IF r.system = <<>> THEN <<>> ELSE <<Saying("system", r.system)>>
  OBVIOUS
<1>5. PICK c : c = s \o es
  OBVIOUS
<1>6. EncodeChatRequest(r).messages = c
  BY <1>1, <1>3, <1>4, <1>5 DEF EncodeChatRequest
<1>7. \A n \in DOMAIN ms : ms[n] \in Message
  OBVIOUS
<1>8. es \in [DOMAIN ms -> OpenAIMessage]
  BY <1>3, <1>7, EncodedMeans
<1>9. es \in Seq(OpenAIMessage) /\ Len(es) = Len(ms)
  BY <1>8, SeqOnDomain
<1>10. \A n \in 1..Len(es) : ~IsSystem(es[n])
  <2>1. \A n \in DOMAIN ms : IsNotSystem(es[n])
    BY <1>3, <1>7, EncodedMeans
  <2> QED
    BY <1>9, <2>1 DEF IsNotSystem
<1>11. SystemPromptOf("openai", EncodeChatRequest(r))
          = LET systems == {n \in DOMAIN c : IsSystem(c[n]) /\ c[n].content # Null}
            IN  IF systems = {} THEN <<>>
                ELSE c[CHOOSE n \in systems : \A k \in systems : k <= n].content
  BY <1>6 DEF SystemPromptOf
<1>12. CASE r.system = <<>>
  <2>1. c = es
    BY <1>4, <1>5, <1>9, <1>12
  <2>2. DOMAIN c = 1..Len(es)
    BY <1>9, <2>1
  <2>3. {n \in DOMAIN c : IsSystem(c[n]) /\ c[n].content # Null} = {}
    BY <1>10, <2>1, <2>2
  <2> QED
    BY <1>11, <1>12, <2>3
<1>13. CASE r.system # <<>>
  <2>1. s = <<Saying("system", r.system)>>
    BY <1>4, <1>13
  <2>2. PICK q : q = Saying("system", r.system)
    OBVIOUS
  <2>3. IsSystem(q) /\ q.content = r.system /\ q.content # Null
    BY <1>2, <2>2, NullIsNoText DEF Saying, IsSystem
  <2>4. c = <<q>> \o es
    BY <1>5, <2>1, <2>2
  <2>5. /\ DOMAIN c = 1..(1 + Len(es)) /\ c[1] = q
        /\ \A n \in 1..Len(es) : c[1 + n] = es[n]
    <3>1. q \in OpenAIMessage
      <4>1. <<>> \in Seq(ToolCall)
        OBVIOUS
      <4> QED
        BY <1>2, <2>2, <4>1 DEF Saying, OpenAIMessage
    <3> QED
      BY <1>9, <2>4, <3>1
  <2>6. ASSUME NEW n \in DOMAIN c, n # 1 PROVE ~IsSystem(c[n])
    <3>1. n - 1 \in 1..Len(es) /\ n = 1 + (n - 1)
      BY <1>9, <2>5, <2>6
    <3>2. c[n] = es[n - 1]
      BY <2>5, <3>1
    <3> QED
      BY <1>10, <3>1, <3>2
  <2>7. 1 \in DOMAIN c
    BY <1>9, <2>5
  <2>8. {n \in DOMAIN c : IsSystem(c[n]) /\ c[n].content # Null} = {1}
    BY <2>3, <2>5, <2>6, <2>7
  <2>9. (CHOOSE n \in {1} : \A k \in {1} : k <= n) = 1
    OBVIOUS
  <2>10. SystemPromptOf("openai", EncodeChatRequest(r)) = c[1].content
    BY <1>11, <2>8, <2>9
  <2> QED
    BY <2>3, <2>5, <2>10
<1> QED
  BY <1>12, <1>13

LEMMA AnthropicSystem ==
    ASSUME NEW b, b.system \in Content, IsSystemContent(b.system)
    PROVE  SystemPromptOf("anthropic", b) = ParseSystemPrompt(b.system)
<1>1. PICK c \in Content : c = b.system
  OBVIOUS
<1>2. PICK blocks \in Seq(Block) : blocks = c.blocks
  BY DEF Content
<1>3. ParsedBlocks(c) = blocks
  BY <1>1, <1>2 DEF ParsedBlocks, IsSystemContent
<1>4. \A n \in DOMAIN blocks : blocks[n].type = "text" /\ blocks[n].text # <<>>
  BY <1>1, <1>2 DEF IsSystemContent
<1>5. PICK f : f = [n \in DOMAIN blocks |->
                       IF blocks[n].type = "text" /\ blocks[n].text # <<>>
                       THEN <<blocks[n]>> ELSE <<>>]
  OBVIOUS
<1>6. f = [n \in DOMAIN blocks |-> <<blocks[n]>>]
  BY <1>4, <1>5
<1>7. FlattenSeq(f) = blocks
  BY <1>6, FlattenOnes
<1>8. ParseSystemPrompt(c) = c.text \o FlattenSeq([n \in DOMAIN blocks |->
            IF n = 1 THEN blocks[n].text ELSE <<"newline">> \o blocks[n].text])
  BY <1>3, <1>5, <1>7 DEF ParseSystemPrompt, Those
<1>9. SystemPromptOf("anthropic", b) = c.text \o FlattenSeq([n \in DOMAIN blocks |->
            (IF n = 1 THEN <<>> ELSE <<"newline">>) \o blocks[n].text])
  BY <1>1, <1>2 DEF SystemPromptOf
<1>10. ASSUME NEW n \in DOMAIN blocks
       PROVE  (IF n = 1 THEN <<>> ELSE <<"newline">>) \o blocks[n].text
                 = IF n = 1 THEN blocks[n].text ELSE <<"newline">> \o blocks[n].text
  <2>1. blocks[n] \in Block
    OBVIOUS
  <2>2. blocks[n].text \in Text
    BY <2>1 DEF Block
  <2>3. <<>> \o blocks[n].text = blocks[n].text
    BY <2>2, AfterNothing
  <2> QED
    BY <2>3
<1>11. [n \in DOMAIN blocks |-> (IF n = 1 THEN <<>> ELSE <<"newline">>) \o blocks[n].text]
          = [n \in DOMAIN blocks |->
                IF n = 1 THEN blocks[n].text ELSE <<"newline">> \o blocks[n].text]
  BY <1>10
<1> QED
  BY <1>1, <1>8, <1>9, <1>11

LEMMA EncodedAnthropicSystem ==
    ASSUME NEW r \in NormalizedRequest
    PROVE  SystemPromptOf("anthropic", EncodeMessagesRequest(r)) = r.system
<1>1. PICK t \in Text : t = r.system
  BY DEF NormalizedRequest
<1>2. PICK c : c = StringContent(t)
  OBVIOUS
<1>3. c.text = t /\ c.blocks = <<>>
  BY <1>2 DEF StringContent
<1>4. EncodeMessagesRequest(r).system = c
  BY <1>1, <1>2 DEF EncodeMessagesRequest
<1>5. PICK f : f = [n \in DOMAIN c.blocks |->
                       (IF n = 1 THEN <<>> ELSE <<"newline">>) \o c.blocks[n].text]
  OBVIOUS
<1>6. SystemPromptOf("anthropic", EncodeMessagesRequest(r)) = t \o FlattenSeq(f)
  BY <1>3, <1>4, <1>5 DEF SystemPromptOf
<1>7. f = <<>>
  BY <1>3, <1>5
<1>8. t \o <<>> = t
  BY AfterNothing
<1> QED
  BY <1>1, <1>6, <1>7, <1>8, FlattenEmpty

-----------------------------------------------------------------------------
(* The conversation of a body, of any exchange.                            *)
LimitIn(x, protocol, b) ==
    IF b.maxTokens = <<>> /\ protocol = "openai" /\ x.backend = "anthropic"
    THEN <<1024>> ELSE b.maxTokens

TurnLeftIn(x, t) ==
    Turn(t.by, Unless(TargetIn(x, t.by), t.text), t.calls,
         [n \in DOMAIN t.results |->
             [t.results[n] EXCEPT !.text = Unless(TargetIn(x, "tool"), @)]])

ConversationIn(x, protocol, b) ==
    LET turns == TurnsOf(protocol, b)
    IN  [system |-> Unless(TargetIn(x, "system"), SystemPromptOf(protocol, b)),
         turns |-> [n \in DOMAIN turns |-> TurnLeftIn(x, turns[n])],
         limit |-> LimitIn(x, protocol, b),
         tools |-> b.tools,
         use |-> ToolUseOf(b)]

(* The conversation of a request that no protocol has put into words.      *)
ConversationMeant(x, r) ==
    [system |-> Unless(TargetIn(x, "system"), r.system),
     turns |-> LeftAll(x, Turns(Meanings(r.messages))),
     limit |-> IF r.maxTokens = <<>> /\ x.backend = "anthropic"
               THEN << 1024 >> ELSE r.maxTokens,
     tools |-> r.tools,
     use |-> ToolUseOf(r)]

LEMMA TurnLeft ==
    ASSUME NEW x, NEW t \in AnyTurn
    PROVE  TurnLeftIn(x, t) = LeftAlone(x, t)
<1>1. PICK rs \in Seq(Result) : rs = t.results
  BY DEF AnyTurn
<1>2. ASSUME NEW n \in DOMAIN rs
      PROVE  [rs[n] EXCEPT !.text = Unless(TargetIn(x, "tool"), rs[n].text)]
                = ResultLeft(x)[rs[n]]
  <2>1. rs[n] \in Result
    OBVIOUS
  <2> QED
    BY <2>1 DEF ResultLeft
<1>3. [n \in DOMAIN rs |-> [rs[n] EXCEPT !.text = Unless(TargetIn(x, "tool"), rs[n].text)]]
         = Mapped(ResultLeft(x), rs)
  BY <1>2 DEF Mapped
<1> QED
  BY <1>1, <1>3 DEF TurnLeftIn, LeftAlone

LEMMA TurnsLeft ==
    ASSUME NEW x, NEW turns \in Seq(AnyTurn)
    PROVE  [n \in DOMAIN turns |-> TurnLeftIn(x, turns[n])] = LeftAll(x, turns)
<1>1. ASSUME NEW n \in DOMAIN turns PROVE TurnLeftIn(x, turns[n]) = LeftOf(x)[turns[n]]
  <2>1. turns[n] \in AnyTurn
    OBVIOUS
  <2> QED
    BY <2>1, TurnLeft DEF LeftOf
<1> QED
  BY <1>1 DEF LeftAll, Mapped

LEMMA TurnsMeantType ==
    ASSUME NEW ms \in Seq(Message)
    PROVE  Turns(Meanings(ms)) \in Seq(AnyTurn)
<1>1. PICK t \in Seq(AnyTurn) : t = Meanings(ms)
  BY MeaningsType
<1>2. Turns(t) = Onto(<<>>, t)
  BY TurnsAreOnto
<1>3. <<>> \in Seq(AnyTurn)
  OBVIOUS
<1>4. Onto(<<>>, t) \in Seq(AnyTurn)
  BY <1>3, OntoType
<1> QED
  BY <1>1, <1>2, <1>4

(* A body means what a request does that agrees with it in every part.     *)
LEMMA MeansTheSame ==
    ASSUME NEW x, NEW protocol, NEW b, NEW r \in NormalizedRequest,
           TurnsOf(protocol, b) = Turns(Meanings(r.messages)),
           SystemPromptOf(protocol, b) = r.system,
           LimitIn(x, protocol, b) = IF r.maxTokens = <<>> /\ x.backend = "anthropic"
                                     THEN << 1024 >> ELSE r.maxTokens,
           b.tools = r.tools, ToolUseOf(b) = ToolUseOf(r)
    PROVE  ConversationIn(x, protocol, b) = ConversationMeant(x, r)
<1>1. r.messages \in Seq(Message)
  BY DEF NormalizedRequest
<1>2. PICK turns \in Seq(AnyTurn) : turns = TurnsOf(protocol, b)
  BY <1>1, TurnsMeantType
<1>3. [n \in DOMAIN turns |-> TurnLeftIn(x, turns[n])] = LeftAll(x, turns)
  BY TurnsLeft
<1> QED
  BY <1>2, <1>3 DEF ConversationIn, ConversationMeant

(* What the encoders write.                                                *)
LEMMA ChatBodyMeans ==
    ASSUME NEW x, NEW r \in NormalizedRequest, x.backend = "openai"
    PROVE  ConversationIn(x, "openai", EncodeChatRequest(r)) = ConversationMeant(x, r)
<1>1. PICK b : b = EncodeChatRequest(r)
  OBVIOUS
<1>2. b.maxTokens = r.maxTokens /\ b.tools = r.tools /\ b.choice = r.choice
  BY <1>1 DEF EncodeChatRequest
<1>3. TurnsOf("openai", b) = Turns(Meanings(r.messages))
  BY <1>1, EncodeOpenAIMeans DEF TurnsOf
<1>4. SystemPromptOf("openai", b) = r.system
  BY <1>1, EncodedOpenAISystem
<1>5. LimitIn(x, "openai", b) = r.maxTokens
  BY <1>2 DEF LimitIn
<1>6. ToolUseOf(b) = ToolUseOf(r)
  BY <1>2 DEF ToolUseOf
<1>7. x.backend # "anthropic"
  OBVIOUS
<1>8. ConversationIn(x, "openai", b) = ConversationMeant(x, r)
  BY <1>2, <1>3, <1>4, <1>5, <1>6, <1>7, MeansTheSame
<1> QED
  BY <1>1, <1>8

LEMMA MessagesBodyMeans ==
    ASSUME NEW x, NEW r \in NormalizedRequest, x.backend = "anthropic",
           \A n \in 1..Len(r.messages) : IsProper(r.messages[n]), r.choice # "none"
    PROVE  ConversationIn(x, "anthropic", EncodeMessagesRequest(r)) = ConversationMeant(x, r)
<1>1. PICK b : b = EncodeMessagesRequest(r)
  OBVIOUS
<1>2. /\ b.maxTokens = IF r.maxTokens = <<>> THEN <<1024>> ELSE r.maxTokens
      /\ b.tools = r.tools /\ b.choice = EncodeAnthropicChoice(r.choice)
  BY <1>1 DEF EncodeMessagesRequest
<1>3. TurnsOf("anthropic", b) = Turns(Meanings(r.messages))
  BY <1>1, EncodeAnthropicMeans DEF TurnsOf
<1>4. SystemPromptOf("anthropic", b) = r.system
  BY <1>1, EncodedAnthropicSystem
<1>5. LimitIn(x, "anthropic", b) = b.maxTokens
  BY DEF LimitIn
<1>6. ToolUseOf(b) = ToolUseOf(r)
  <2>1. r.choice \in {"", "auto", "required", "specific"}
    BY DEF NormalizedRequest, ToolChoice
  <2> QED
    BY <1>2, <2>1 DEF ToolUseOf, EncodeAnthropicChoice
<1>7. LimitIn(x, "anthropic", b) = IF r.maxTokens = <<>> /\ x.backend = "anthropic"
                                   THEN <<1024>> ELSE r.maxTokens
  BY <1>2, <1>5
<1>8. ConversationIn(x, "anthropic", b) = ConversationMeant(x, r)
  BY <1>2, <1>3, <1>4, <1>6, <1>7, MeansTheSame
<1> QED
  BY <1>1, <1>8

-----------------------------------------------------------------------------
LEMMA ChatAskedMeans ==
    ASSUME NEW x \in Exchanges, x.kind = "chat", x.client = "openai", ChatIsProper(x)
    PROVE  ConversationIn(x, x.client, x.body) = ConversationMeant(x, Asked(x))
<1>1. PICK b \in ChatRequest : b = x.body
  BY ExchangeType
<1>2. PICK r \in NormalizedRequest : r = DecodeChatRequest(b)
  BY ChatRequestType
<1>3. Asked(x) = r
  BY <1>1, <1>2 DEF Asked
<1>4. b.messages \in Seq(OpenAIMessage)
  BY DEF ChatRequest
<1>5. /\ r.messages = DecodeOpenAIMessages(b.messages) /\ r.system = SystemOf(b.messages)
      /\ r.maxTokens = b.maxTokens /\ r.tools = b.tools
      /\ r.choice = DecodeOpenAIChoice(b.choice)
  BY <1>2 DEF DecodeChatRequest, PlainRequest
<1>6. TurnsOf("openai", b) = Turns(Meanings(r.messages))
  BY <1>4, <1>5, OpenAIMeans DEF TurnsOf
<1>7. SystemPromptOf("openai", b) = r.system
  BY <1>4, <1>5, OpenAISystem
<1>8. LimitIn(x, "openai", b) = IF r.maxTokens = <<>> /\ x.backend = "anthropic"
                                THEN <<1024>> ELSE r.maxTokens
  BY <1>5 DEF LimitIn
<1>9. ToolUseOf(b) = ToolUseOf(r)
  <2>1. b.choice \in {"", "auto", "none", "required", "specific"}
    BY <1>1 DEF ChatIsProper, ToolChoice
  <2>2. r.choice = b.choice
    BY <1>5, <2>1 DEF DecodeOpenAIChoice
  <2> QED
    BY <2>2 DEF ToolUseOf
<1>10. ConversationIn(x, "openai", b) = ConversationMeant(x, r)
  BY <1>5, <1>6, <1>7, <1>8, <1>9, MeansTheSame
<1> QED
  BY <1>1, <1>3, <1>10

LEMMA MessagesAskedMeans ==
    ASSUME NEW x \in Exchanges, x.kind = "chat", x.client = "anthropic", MessagesAreProper(x)
    PROVE  ConversationIn(x, x.client, x.body) = ConversationMeant(x, Asked(x))
<1>1. PICK b \in MessagesRequest : b = x.body
  BY ExchangeType
<1>2. PICK r \in NormalizedRequest : r = DecodeMessagesRequest(b)
  BY MessagesRequestType
<1>3. Asked(x) = r
  BY <1>1, <1>2 DEF Asked
<1>4. b.system \in Content
  BY DEF MessagesRequest
<1>5. /\ r.system = ParseSystemPrompt(b.system) /\ r.tools = b.tools
      /\ r.maxTokens = IF b.maxTokens = <<>> THEN <<0>> ELSE b.maxTokens
      /\ r.choice = DecodeAnthropicChoice(b.choice)
  BY <1>2 DEF DecodeMessagesRequest, PlainRequest
<1>6. TurnsOf("anthropic", b) = Turns(Meanings(r.messages))
  <2>1. \A n \in 1..Len(b.messages) : IsWellFormed(b.messages[n])
    BY <1>1 DEF MessagesAreProper
  <2>2. Turns(MessagesOf("anthropic", b)) = Turns(Meanings(DecodeMessagesRequest(b).messages))
    BY <2>1, DecodeAnthropicMeans
  <2> QED
    BY <1>2, <2>2 DEF TurnsOf
<1>7. SystemPromptOf("anthropic", b) = r.system
  <2>1. IsSystemContent(b.system)
    BY <1>1 DEF MessagesAreProper
  <2> QED
    BY <1>4, <1>5, <2>1, AnthropicSystem
<1>8. LimitIn(x, "anthropic", b) = IF r.maxTokens = <<>> /\ x.backend = "anthropic"
                                   THEN <<1024>> ELSE r.maxTokens
  <2>1. b.maxTokens # <<>>
    BY <1>1 DEF MessagesAreProper
  <2> QED
    BY <1>5, <2>1 DEF LimitIn
<1>9. ToolUseOf(b) = ToolUseOf(r)
  <2>1. b.choice \in {"", "auto", "any", "tool"}
    BY <1>1 DEF MessagesAreProper
  <2> QED
    BY <1>5, <2>1 DEF ToolUseOf, DecodeAnthropicChoice
<1>10. ConversationIn(x, "anthropic", b) = ConversationMeant(x, r)
  BY <1>5, <1>6, <1>7, <1>8, <1>9, MeansTheSame
<1> QED
  BY <1>1, <1>3, <1>10

LEMMA AskedMeans ==
    ASSUME BodiesAreProper, NEW x \in Exchanges, x.kind = "chat"
    PROVE  ConversationIn(x, x.client, x.body) = ConversationMeant(x, Asked(x))
<1>1. x.client \in {"openai", "anthropic"}
  BY ExchangeType
<1>2. CASE x.client = "openai"
  <2>1. ChatIsProper(x)
    BY <1>2 DEF BodiesAreProper
  <2> QED
    BY <1>2, <2>1, ChatAskedMeans
<1>3. CASE x.client = "anthropic"
  <2>1. MessagesAreProper(x)
    BY <1>3 DEF BodiesAreProper
  <2> QED
    BY <1>3, <2>1, MessagesAskedMeans
<1> QED
  BY <1>1, <1>2, <1>3

(* What is asked of an Anthropic backend is proper.                        *)
LEMMA AskedIsProper ==
    ASSUME BodiesAreProper, NEW x \in Exchanges, x.kind = "chat", x.backend = "anthropic"
    PROVE  \A n \in 1..Len(Asked(x).messages) : IsProper(Asked(x).messages[n])
<1>1. x.client \in {"openai", "anthropic"}
  BY ExchangeType
<1>2. CASE x.client = "openai"
  <2>1. PICK ms \in Seq(OpenAIMessage) : ms = x.body.messages
    BY <1>2, ExchangeType DEF ChatRequest
  <2>2. \A n \in 1..Len(ms) : IsProper(ms[n])
    BY <1>2, <2>1 DEF BodiesAreProper, ChatIsProper
  <2>3. PICK others : others = Those(ms, IsNotSystem)
    OBVIOUS
  <2>4. others \in Seq({m \in OpenAIMessage : m.role # "system"})
    BY <2>3, OthersType
  <2>5. Asked(x).messages = [n \in DOMAIN others |-> DecodeMessage(others[n])]
    BY <1>2, <2>1, <2>3 DEF Asked, DecodeChatRequest, PlainRequest, DecodeOpenAIMessages
  <2>6. ASSUME NEW n \in DOMAIN others PROVE IsProper(DecodeMessage(others[n]))
    <3>1. PICK k \in DOMAIN ms : ms[k] = others[n]
      BY <2>3, OthersAreSome
    <3>2. IsProper(others[n])
      BY <2>2, <3>1
    <3> QED
      BY <3>2 DEF IsProper, DecodeMessage
  <2>7. DOMAIN others = 1..Len(others) /\ Len(others) \in Nat
    BY <2>4
  <2>8. Len(Asked(x).messages) = Len(others)
    BY <2>5, <2>7
  <2> QED
    BY <2>5, <2>6, <2>7, <2>8
<1>3. CASE x.client = "anthropic"
  <2>1. PICK b \in MessagesRequest : b = x.body
    BY <1>3, ExchangeType
  <2>2. \A n \in 1..Len(b.messages) : IsWellFormed(b.messages[n])
    BY <1>3, <2>1 DEF BodiesAreProper, MessagesAreProper
  <2>3. PICK ds \in Seq(ProperMessage) : ds = DecodeMessagesRequest(b).messages
    BY <2>2, DecodeAnthropicMeans
  <2>4. Asked(x).messages = ds
    BY <1>3, <2>1, <2>3 DEF Asked
  <2>5. \A n \in 1..Len(ds) : ds[n] \in ProperMessage
    OBVIOUS
  <2> QED
    BY <2>4, <2>5 DEF ProperMessage
<1> QED
  BY <1>1, <1>2, <1>3

LEMMA ProperAsWell ==
    ASSUME NEW r \in NormalizedRequest, NEW q \in NormalizedRequest, SameRequest(r, q),
           \A n \in 1..Len(q.messages) : IsProper(q.messages[n])
    PROVE  \A n \in 1..Len(r.messages) : IsProper(r.messages[n])
<1>1. PICK ms \in Seq(Message) : ms = r.messages
  BY DEF NormalizedRequest
<1>2. PICK ns \in Seq(Message) : ns = q.messages
  BY DEF NormalizedRequest
<1>3. DOMAIN ms = DOMAIN ns /\ \A n \in DOMAIN ms : SameMessage(ms[n], ns[n])
  BY <1>1, <1>2 DEF SameRequest
<1>4. DOMAIN ms = 1..Len(ms) /\ DOMAIN ns = 1..Len(ns)
  OBVIOUS
<1>5. \A n \in DOMAIN ms : IsProper(ns[n])
  BY <1>2, <1>3, <1>4
<1> QED
  BY <1>1, <1>3, <1>4, <1>5 DEF IsProper, SameMessage

LEMMA RestMeansTheSame ==
    ASSUME NEW x, NEW r \in NormalizedRequest, NEW q \in NormalizedRequest,
           SaysTheRest(x, r, q)
    PROVE  ConversationMeant(x, r) = ConversationMeant(x, q)
<1>1. LeftAll(x, Turns(Meanings(r.messages))) = LeftAll(x, Turns(Meanings(q.messages)))
  BY RestHasTurns
<1>2. Unless(TargetIn(x, "system"), r.system) = Unless(TargetIn(x, "system"), q.system)
  BY DEF SaysTheRest, Unless
<1>3. r.maxTokens = q.maxTokens /\ r.tools = q.tools /\ r.choice = q.choice
  BY DEF SaysTheRest, SameRequest
<1>4. ToolUseOf(r) = ToolUseOf(q)
  BY <1>3 DEF ToolUseOf
<1> QED
  BY <1>1, <1>2, <1>3, <1>4 DEF ConversationMeant

-----------------------------------------------------------------------------
(* The prompt of a completion.                                             *)
PromptIn(x, b) ==
    [given |-> b.form # "none",
     tokens |-> b.form = "raw",
     prompt |-> IF b.form = "raw" THEN b.prompt
                ELSE [n \in DOMAIN b.prompt |-> Unless(TargetIn(x, "user"), b.prompt[n])],
     limit |-> b.maxTokens, n |-> b.n, temperature |-> b.temperature]

LEMMA PromptSurvives ==
    ASSUME BodiesAreProper, NEW x \in Exchanges, x.kind = "completion",
           NEW r \in NormalizedRequest, SaysTheRest(x, r, Asked(x))
    PROVE  PromptIn(x, EncodeCompletionRequest(r)) = PromptIn(x, x.body)
<1>1. PICK b \in CompletionRequest : b = x.body
  BY ExchangeType
<1>2. PICK q : q = DecodeCompletionRequest(b)
  OBVIOUS
<1>3. Asked(x) = q
  BY <1>1, <1>2 DEF Asked
<1>4. SaysTheRest(x, r, q)
  BY <1>3
<1>5. PICK f : f = EncodeCompletionRequest(r)
  OBVIOUS
<1>6. f.maxTokens = r.maxTokens /\ f.n = r.n /\ f.temperature = r.temperature
  BY <1>5 DEF EncodeCompletionRequest
<1>7. q.maxTokens = b.maxTokens /\ q.n = b.n /\ q.temperature = b.temperature
  BY <1>2 DEF DecodeCompletionRequest, PlainRequest
<1>8. f.maxTokens = b.maxTokens /\ f.n = b.n /\ f.temperature = b.temperature /\ r.raw = q.raw
  BY <1>4, <1>6, <1>7 DEF SaysTheRest, SameRequest
<1>9. PICK prompt \in Seq(Text) : prompt = b.prompt
  BY DEF CompletionRequest
<1>10. CASE b.form = "raw"
  <2>1. Len(prompt) = 1 /\ prompt[1] # <<>>
    BY <1>1, <1>9, <1>10 DEF CompletionRequest, BodiesAreProper
  <2>2. q.raw = prompt[1]
    BY <1>2, <1>9, <1>10 DEF DecodeCompletionRequest, PlainRequest
  <2>3. f.form = "raw" /\ f.prompt = <<prompt[1]>>
    <3>1. r.raw = prompt[1] /\ r.raw # <<>>
      BY <1>8, <2>1, <2>2
    <3> QED
      BY <1>5, <3>1 DEF EncodeCompletionRequest
  <2>4. <<prompt[1]>> = prompt
    BY <2>1
  <2>5. f.form = b.form /\ f.prompt = b.prompt
    BY <1>9, <1>10, <2>3, <2>4
  <2> QED
    BY <1>1, <1>5, <1>8, <1>10, <2>5 DEF PromptIn
<1>11. CASE b.form # "raw"
  <2>1. q.raw = <<>>
    BY <1>2, <1>11 DEF DecodeCompletionRequest, PlainRequest
  <2>2. q.messages = [n \in DOMAIN prompt |-> Saying("user", prompt[n])]
    BY <1>2, <1>9, <1>11 DEF DecodeCompletionRequest, PlainRequest
  <2>3. PICK ms \in Seq(Message) : ms = r.messages
    BY DEF NormalizedRequest
  <2>4. f.form # "raw"
    <3>1. r.raw = <<>>
      BY <1>8, <2>1
    <3>2. ms = <<>> => Len(ms) # 1
      OBVIOUS
    <3> QED
      BY <1>5, <2>3, <3>1, <3>2 DEF EncodeCompletionRequest
  <2>5. f.prompt = [n \in DOMAIN ms |-> ms[n].content]
    <3>1. r.raw = <<>>
      BY <1>8, <2>1
    <3> QED
      BY <1>5, <2>3, <3>1 DEF EncodeCompletionRequest
  <2>6. DOMAIN ms = DOMAIN prompt /\ \A n \in DOMAIN ms : SameMessage(ms[n], q.messages[n])
    <3>1. DOMAIN r.messages = DOMAIN q.messages
          /\ \A n \in DOMAIN r.messages : SameMessage(r.messages[n], q.messages[n])
      BY <1>4 DEF SaysTheRest, SameRequest
    <3>2. DOMAIN q.messages = DOMAIN prompt
      BY <2>2
    <3> QED
      BY <2>3, <3>1, <3>2
  <2>7. \A n \in DOMAIN ms : ~TargetIn(x, ms[n].role) => ms[n].content = q.messages[n].content
    BY <1>4, <2>3 DEF SaysTheRest
  <2>8. ASSUME NEW n \in DOMAIN prompt
        PROVE  Unless(TargetIn(x, "user"), ms[n].content)
                  = Unless(TargetIn(x, "user"), prompt[n])
    <3>1. q.messages[n].role = "user" /\ q.messages[n].content = prompt[n]
      BY <2>2 DEF Saying
    <3>2. ms[n].role = "user"
      BY <2>6, <3>1 DEF SameMessage
    <3>3. ~TargetIn(x, "user") => ms[n].content = prompt[n]
      BY <2>6, <2>7, <3>1, <3>2
    <3> QED
      BY <3>3 DEF Unless
  <2>9. [n \in DOMAIN f.prompt |-> Unless(TargetIn(x, "user"), f.prompt[n])]
           = [n \in DOMAIN prompt |-> Unless(TargetIn(x, "user"), prompt[n])]
    BY <2>5, <2>6, <2>8
  <2>10. f.form = "none" <=> ms = <<>>
    <3>1. r.raw = <<>>
      BY <1>8, <2>1
    <3>2. ASSUME ms = <<>> PROVE f.form = "none"
      <4>1. Len(ms) # 1
        BY <3>2
      <4> QED
        BY <1>5, <2>3, <3>1, <3>2, <4>1 DEF EncodeCompletionRequest
    <3>3. ASSUME ms # <<>> PROVE f.form # "none"
      <4>1. CASE Len(ms) = 1
        BY <1>5, <2>3, <3>1, <3>3, <4>1 DEF EncodeCompletionRequest
      <4>2. CASE Len(ms) # 1
        BY <1>5, <2>3, <3>1, <3>3, <4>2 DEF EncodeCompletionRequest
      <4> QED
        BY <4>1, <4>2
    <3> QED
      BY <3>2, <3>3
  <2>11. ms = <<>> <=> prompt = <<>>
    BY <2>6
  <2>12. prompt = <<>> <=> b.form = "none"
    <3>1. b.form \in {"none", "string", "array"}
      BY <1>11 DEF CompletionRequest
    <3>2. b.form = "string" => Len(prompt) = 1
      BY <1>9 DEF CompletionRequest
    <3>3. b.form = "array" => prompt # <<>>
      BY <1>1, <1>9 DEF BodiesAreProper
    <3>4. b.form = "none" => prompt = <<>>
      BY <1>9 DEF CompletionRequest
    <3>5. prompt = <<>> => Len(prompt) # 1
      OBVIOUS
    <3> QED
      BY <3>1, <3>2, <3>3, <3>4, <3>5
  <2>13. f.form # "none" <=> b.form # "none"
    BY <2>10, <2>11, <2>12
  <2> QED
    BY <1>1, <1>5, <1>8, <1>9, <1>11, <2>4, <2>9, <2>13 DEF PromptIn
<1> QED
  BY <1>10, <1>11

-----------------------------------------------------------------------------
(* What no modifier is set upon stays as the client said it.               *)
RestInv == phase # "body" => SaysTheRest(exchange, request, Asked(exchange))

LEMMA RestEdited ==
    ASSUME NEW x, NEW k \in DOMAIN x.pre, NEW r \in NormalizedRequest,
           NEW rs \in Modifications, NEW target, target = x.pre[k].target,
           NEW orders \in [0..Len(r.messages) -> Orders(rs)]
    PROVE  SaysTheRest(x, EditRequest(r, target, orders), r)
<1>1. PICK ms \in Seq(Message) : ms = r.messages
  BY DEF NormalizedRequest
<1>2. PICK es : es = [n \in DOMAIN ms |-> EditMessage(ms[n], target, orders[n])]
  OBVIOUS
<1>3. PICK system : system = IF target \in {"system", "all"}
                             THEN ReplaceInOrder(r.system, orders[0]) ELSE r.system
  OBVIOUS
<1>4. PICK e : e = EditRequest(r, target, orders)
  OBVIOUS
<1>5. e = [r EXCEPT !.system = system, !.messages = es]
  BY <1>1, <1>2, <1>3, <1>4 DEF EditRequest
<1>6. e.system = system /\ e.messages = es
  BY <1>5 DEF NormalizedRequest
<1>7. SameRequest(e, r)
  BY <1>4, EditRequestType
<1>8. ~TargetIn(x, "system") => e.system = r.system
  BY <1>3, <1>6 DEF TargetIn
<1>9. ASSUME NEW n \in DOMAIN ms, ~TargetIn(x, es[n].role) PROVE es[n] = ms[n]
  <2>1. SameMessage(es[n], ms[n])
    <3>1. DOMAIN es = DOMAIN ms
      BY <1>2
    <3> QED
      BY <1>1, <1>6, <1>7, <3>1 DEF SameRequest
  <2>2. target # "all" /\ target # ms[n].role
    BY <1>9, <2>1 DEF TargetIn, SameMessage
  <2>3. ~Edits(target, ms[n])
    BY <2>2 DEF Edits
  <2> QED
    BY <1>2, <2>3 DEF EditMessage
<1>10. DOMAIN es = DOMAIN ms
  BY <1>2
<1>11. SaysTheRest(x, e, r)
  BY <1>1, <1>6, <1>7, <1>8, <1>9, <1>10 DEF SaysTheRest
<1> QED
  BY <1>4, <1>11

LEMMA RestAgain ==
    ASSUME NEW x, NEW r, NEW s, NEW q, SaysTheRest(x, r, s), SaysTheRest(x, s, q)
    PROVE  SaysTheRest(x, r, q)
<1>1. SameRequest(r, q)
  BY SameRequestAgain DEF SaysTheRest
<1>2. ~TargetIn(x, "system") => r.system = q.system
  BY DEF SaysTheRest
<1>3. /\ DOMAIN r.messages = DOMAIN s.messages
      /\ \A n \in DOMAIN r.messages : r.messages[n].role = s.messages[n].role
  BY DEF SaysTheRest, SameRequest, SameMessage
<1>4. \A n \in DOMAIN r.messages :
         ~TargetIn(x, r.messages[n].role) => r.messages[n].content = q.messages[n].content
  <2>1. ASSUME NEW n \in DOMAIN r.messages, ~TargetIn(x, r.messages[n].role)
        PROVE  r.messages[n].content = q.messages[n].content
    <3>1. r.messages[n].content = s.messages[n].content
      BY <2>1 DEF SaysTheRest
    <3>2. n \in DOMAIN s.messages /\ ~TargetIn(x, s.messages[n].role)
      BY <1>3, <2>1
    <3>3. s.messages[n].content = q.messages[n].content
      BY <3>2 DEF SaysTheRest
    <3> QED
      BY <3>1, <3>3
  <2> QED
    BY <2>1
<1> QED
  BY <1>1, <1>2, <1>4 DEF SaysTheRest

LEMMA RestNext == ExchangeInv /\ RestInv /\ [Next]_vars => RestInv'
<1> SUFFICES ASSUME ExchangeInv, RestInv, [Next]_vars PROVE RestInv'
  OBVIOUS
<1>1. CASE DecodeRequest
  <2>1. exchange' = exchange /\ request' = Asked(exchange)
    BY <1>1 DEF DecodeRequest, Asked, IsCompletion, ExchangeInv, TypeInv
  <2>2. SaysTheRest(exchange, request', request')
    BY DEF SaysTheRest, SameRequest, SameMessage
  <2> QED
    BY <2>1, <2>2 DEF RestInv
<1>2. CASE PreRequestHook
  <2>1. /\ phase = "pre" /\ exchange \in Exchanges /\ ran \in Nat /\ ran < Len(pre)
        /\ exchange' = exchange /\ request \in NormalizedRequest
    BY <1>2 DEF PreRequestHook, ExchangeInv, TypeInv
  <2>2. PICK k : k = ran + 1
    OBVIOUS
  <2>3. exchange.pre \in Seq(PreHook)
    BY <2>1, ExchangeType
  <2>4. k \in DOMAIN exchange.pre /\ exchange.pre[k] \in PreHook
    BY <2>1, <2>2, <2>3 DEF pre
  <2>5. PICK rs \in Modifications : rs = exchange.pre[k].replacements
    BY <2>4 DEF PreHook
  <2>6. PICK target : target = exchange.pre[k].target
    OBVIOUS
  <2>7. PICK orders \in [0..Len(request.messages) -> Orders(rs)] :
           request' = EditRequest(request, target, orders)
    BY <1>2, <2>2, <2>5, <2>6 DEF PreRequestHook, pre
  <2>8. SaysTheRest(exchange, EditRequest(request, target, orders), request)
    BY <2>1, <2>4, <2>6, RestEdited
  <2>9. SaysTheRest(exchange, request, Asked(exchange))
    BY <2>1 DEF RestInv
  <2>10. SaysTheRest(exchange, request', Asked(exchange))
    BY <2>7, <2>8, <2>9, RestAgain
  <2> QED
    BY <2>1, <2>10 DEF RestInv
<1>3. CASE UNCHANGED <<exchange, request>> /\ (phase' # "body" => phase # "body")
  BY <1>3 DEF RestInv
<1> QED
  BY <1>1, <1>2, <1>3 DEF Next, Terminated, vars, RefuseRequest, Send, Receive,
                          PostResponseHook, Sync, RefuseReply, Reply

LEMMA RestInvariant == Spec => [](ExchangeInv /\ RestInv)
<1>1. Init => RestInv
  BY DEF Init, RestInv
<1> QED
  BY <1>1, RestNext, ExchangeInvariant, PTL DEF Spec

(* What is sent.                                                           *)
LEMMA SentMeans ==
    ASSUME BodiesAreProper, ExchangeInv, RestInv, Send
    PROVE  /\ exchange.kind = "completion" =>
                 PromptIn(exchange, forwarded') = PromptIn(exchange, exchange.body)
           /\ exchange.kind # "completion" =>
                 ConversationIn(exchange, exchange.backend, forwarded')
                    = ConversationIn(exchange, exchange.client, exchange.body)
<1>1. PICK x \in Exchanges : x = exchange
  BY DEF ExchangeInv, TypeInv
<1>2. PICK r \in NormalizedRequest : r = request
  BY DEF ExchangeInv, TypeInv
<1>3. SaysTheRest(x, r, Asked(x))
  BY <1>1, <1>2 DEF RestInv, Send
<1>4. Asked(x) \in NormalizedRequest
  BY AskedType
<1>5. x.kind \in {"chat", "completion"} /\ x.backend \in {"openai", "anthropic"}
  BY ExchangeType
<1>6. CASE x.kind = "completion"
  <2>1. forwarded' = EncodeCompletionRequest(r)
    BY <1>1, <1>2, <1>6 DEF Send, IsCompletion
  <2> QED
    BY <1>1, <1>3, <1>6, <2>1, PromptSurvives
<1>7. CASE x.kind = "chat"
  <2>1. ConversationMeant(x, r) = ConversationMeant(x, Asked(x))
    BY <1>3, <1>4, RestMeansTheSame
  <2>2. ConversationIn(x, x.client, x.body) = ConversationMeant(x, Asked(x))
    BY <1>7, AskedMeans
  <2>3. ConversationIn(x, x.backend, forwarded') = ConversationMeant(x, r)
    <3>1. CASE x.backend = "openai"
      <4>1. forwarded' = EncodeChatRequest(r)
        BY <1>1, <1>2, <1>7, <3>1 DEF Send, IsCompletion
      <4> QED
        BY <3>1, <4>1, ChatBodyMeans
    <3>2. CASE x.backend = "anthropic"
      <4>1. forwarded' = EncodeMessagesRequest(r)
        BY <1>1, <1>2, <1>7, <3>2 DEF Send, IsCompletion
      <4>2. r.choice # "none"
        BY <1>1, <1>2, <3>2 DEF Send, CannotSend, CannotEncodeRequest
      <4>3. \A n \in 1..Len(Asked(x).messages) : IsProper(Asked(x).messages[n])
        BY <1>7, <3>2, AskedIsProper
      <4>4. \A n \in 1..Len(r.messages) : IsProper(r.messages[n])
        BY <1>3, <1>4, <4>3, ProperAsWell DEF SaysTheRest
      <4> QED
        BY <3>2, <4>1, <4>2, <4>4, MessagesBodyMeans
    <3> QED
      BY <1>5, <3>1, <3>2
  <2> QED
    BY <1>1, <1>7, <2>1, <2>2, <2>3
<1> QED
  BY <1>5, <1>6, <1>7

(* ConversationSurvives, of any exchange and any body.                     *)
SurvivesIn(x, b) ==
    b # NoBody =>
        IF x.kind = "completion" THEN PromptIn(x, b) = PromptIn(x, x.body)
        ELSE ConversationIn(x, x.backend, b) = ConversationIn(x, x.client, x.body)

LEMMA SurvivesSaid == ConversationSurvives <=> SurvivesIn(exchange, forwarded)
<1>1. \A speaker : IsTarget(speaker) <=> TargetIn(exchange, speaker)
  BY DEF IsTarget, TargetIn, pre
<1>2. \A b : PromptOf(b) = PromptIn(exchange, b)
  BY <1>1 DEF PromptOf, PromptIn, Unless
<1>3. \A protocol, b : LimitOf(protocol, b) = LimitIn(exchange, protocol, b)
  BY DEF LimitOf, LimitIn
<1>4. \A t : TurnLeftAlone(t) = TurnLeftIn(exchange, t)
  BY <1>1 DEF TurnLeftAlone, TurnLeftIn, Unless
<1>5. \A protocol, b : ConversationOf(protocol, b) = ConversationIn(exchange, protocol, b)
  BY <1>1, <1>3, <1>4 DEF ConversationOf, ConversationIn, Unless
<1> QED
  BY <1>2, <1>5 DEF ConversationSurvives, SurvivesIn, IsCompletion

(* What the backend is asked is what the client asked, whatever the two    *)
(* protocols and the hooks: the system prompt, who said what in which      *)
(* order, the calls and their results, the tools, the choice of them and   *)
(* the limit; and what no modifier is set upon is the client's own.        *)
THEOREM ConversationsSurvive ==
    ASSUME BodiesAreProper
    PROVE  Spec => []ConversationSurvives
<1> DEFINE Said == SurvivesIn(exchange, forwarded)
<1>1. Init => Said
  BY DEF Init, SurvivesIn
<1>2. ExchangeInv /\ RestInv /\ Said /\ [Next]_vars => Said'
  <2> SUFFICES ASSUME ExchangeInv, RestInv, Said, [Next]_vars PROVE Said'
    OBVIOUS
  <2>1. CASE Send
    <3>1. exchange' = exchange
      BY <2>1 DEF Send
    <3> QED
      BY <2>1, <3>1, SentMeans DEF SurvivesIn
  <2>2. CASE UNCHANGED <<exchange, forwarded>>
    BY <2>2
  <2> QED
    BY <2>1, <2>2 DEF Next, Terminated, vars, DecodeRequest, PreRequestHook,
                      RefuseRequest, Receive, PostResponseHook, Sync, RefuseReply, Reply
<1>3. ConversationSurvives <=> Said
  BY SurvivesSaid
<1> HIDE DEF Said
<1> QED
  BY <1>1, <1>2, <1>3, RestInvariant, PTL DEF Spec

-----------------------------------------------------------------------------
(* The rule for tools, of a sequence of messages with roles, calls and     *)
(* answers, as OpenAIIsValid says it.                                      *)
ToolsAfter(ms, n) ==
    {k \in (n + 1)..Len(ms) : \A j \in (n + 1)..k : ms[j].role = "tool"}

OpenAIRule(ms) ==
    /\ \A n \in DOMAIN ms : ms[n].role = "assistant" =>
          ResultsFollow(CallIds(ms[n].calls),
                        [k \in 1..Cardinality(ToolsAfter(ms, n)) |->
                            [id |-> ms[n + k].answers]])
    /\ \A n \in DOMAIN ms : ms[n].role = "tool" =>
          n > 1 /\ ms[n - 1].role \in {"assistant", "tool"}

(* The same without counting: after n there are c results and no more.     *)
RunAfter(ms, n, c) ==
    /\ n + c <= Len(ms)
    /\ \A j \in (n + 1)..(n + c) : ms[j].role = "tool"
    /\ n + c < Len(ms) => ms[(n + c) + 1].role # "tool"

Answers(ms, n, c) == [k \in 1..c |-> [id |-> ms[n + k].answers]]

CallsAnswered(ms, n) ==
    ms[n].role = "assistant" =>
        \A c \in Nat : RunAfter(ms, n, c) =>
            ResultsFollow(CallIds(ms[n].calls), Answers(ms, n, c))

IsAsked(ms, n) ==
    ms[n].role = "tool" => n > 1 /\ ms[n - 1].role \in {"assistant", "tool"}

RunRule(ms) == \A n \in 1..Len(ms) : CallsAnswered(ms, n) /\ IsAsked(ms, n)

LEMMA RunExists ==
    ASSUME NEW ms, Len(ms) \in Nat, NEW n \in 1..Len(ms)
    PROVE  \E c \in Nat : RunAfter(ms, n, c)
<1> DEFINE Tools(c) == \A j \in (n + 1)..(n + c) : ms[j].role = "tool"
           T == {c \in Nat : n + c <= Len(ms) /\ Tools(c)}
<1> SUFFICES ASSUME \A c \in Nat : ~RunAfter(ms, n, c) PROVE FALSE
  OBVIOUS
<1>1. 0 \in T
  OBVIOUS
<1>2. ASSUME NEW c \in Nat, c \in T PROVE c + 1 \in T
  <2>1. n + c < Len(ms) /\ ms[(n + c) + 1].role = "tool"
    BY <1>2 DEF RunAfter
  <2>2. \A j \in (n + 1)..(n + (c + 1)) : j \in (n + 1)..(n + c) \/ j = (n + c) + 1
    OBVIOUS
  <2>3. Tools(c + 1)
    BY <1>2, <2>1, <2>2
  <2>4. n + (c + 1) <= Len(ms)
    BY <2>1
  <2> QED
    BY <2>3, <2>4
<1>3. Len(ms) \in T
  <2> HIDE DEF T
  <2> QED
    BY <1>1, <1>2, FromZeroOn
<1> QED
  BY <1>3

LEMMA RunIsCounted ==
    ASSUME NEW ms, Len(ms) \in Nat, NEW n \in 1..Len(ms), NEW c \in Nat, RunAfter(ms, n, c)
    PROVE  Cardinality(ToolsAfter(ms, n)) = c
<1>1. n + c <= Len(ms) /\ \A j \in (n + 1)..(n + c) : ms[j].role = "tool"
  BY DEF RunAfter
<1>2. \A k \in (n + 1)..(n + c) : k \in ToolsAfter(ms, n)
  BY <1>1 DEF ToolsAfter
<1>3. ASSUME NEW k \in ToolsAfter(ms, n) PROVE k \in (n + 1)..(n + c)
  <2>1. k \in (n + 1)..Len(ms) /\ \A j \in (n + 1)..k : ms[j].role = "tool"
    BY DEF ToolsAfter
  <2> SUFFICES ASSUME k > n + c PROVE FALSE
    BY <2>1
  <2>2. (n + c) + 1 \in (n + 1)..k /\ n + c < Len(ms)
    BY <2>1
  <2> QED
    BY <2>1, <2>2 DEF RunAfter
<1>4. ToolsAfter(ms, n) = (n + 1)..(n + c)
  BY <1>2, <1>3
<1>5. Cardinality((n + 1)..(n + c)) = IF n + 1 > n + c THEN 0 ELSE (n + c) - (n + 1) + 1
  BY FS_Interval
<1> QED
  BY <1>4, <1>5

LEMMA RuleIsRunRule ==
    ASSUME NEW ms, Len(ms) \in Nat, DOMAIN ms = 1..Len(ms)
    PROVE  OpenAIRule(ms) <=> RunRule(ms)
<1>1. ASSUME NEW n \in 1..Len(ms), ms[n].role = "assistant"
      PROVE  CallsAnswered(ms, n) <=>
                ResultsFollow(CallIds(ms[n].calls),
                              [k \in 1..Cardinality(ToolsAfter(ms, n)) |->
                                  [id |-> ms[n + k].answers]])
  <2>1. PICK c \in Nat : RunAfter(ms, n, c)
    BY RunExists
  <2>2. Cardinality(ToolsAfter(ms, n)) = c
    BY <2>1, RunIsCounted
  <2>3. \A d \in Nat : RunAfter(ms, n, d) => d = c
    BY <2>2, RunIsCounted
  <2> QED
    BY <1>1, <2>1, <2>2, <2>3 DEF CallsAnswered, Answers
<1>2. \A n \in 1..Len(ms) : ms[n].role # "assistant" => CallsAnswered(ms, n)
  BY DEF CallsAnswered
<1> QED
  BY <1>1, <1>2 DEF OpenAIRule, RunRule, IsAsked

(* Messages that agree in what the rule is about.                          *)
SameToTheRule(m, q) ==
    /\ m.role = q.role
    /\ m.role = "assistant" => m.calls = q.calls
    /\ m.role = "tool" => m.answers = q.answers

LEMMA RuleOfTheSame ==
    ASSUME NEW ms, NEW ns, Len(ms) \in Nat, Len(ns) = Len(ms), RunRule(ms),
           \A n \in 1..Len(ms) : SameToTheRule(ms[n], ns[n])
    PROVE  RunRule(ns)
<1>1. ASSUME NEW n \in 1..Len(ms), NEW c \in Nat, RunAfter(ns, n, c)
      PROVE  RunAfter(ms, n, c) /\ Answers(ms, n, c) = Answers(ns, n, c)
  <2>1. n + c <= Len(ms) /\ \A j \in (n + 1)..(n + c) : j \in 1..Len(ms) /\ ns[j].role = "tool"
    BY <1>1 DEF RunAfter
  <2>2. \A j \in (n + 1)..(n + c) : ms[j].role = "tool" /\ ms[j].answers = ns[j].answers
    BY <2>1 DEF SameToTheRule
  <2>3. n + c < Len(ms) => ms[(n + c) + 1].role # "tool"
    <3> SUFFICES ASSUME n + c < Len(ms) PROVE ms[(n + c) + 1].role # "tool"
      OBVIOUS
    <3>1. (n + c) + 1 \in 1..Len(ms)
      OBVIOUS
    <3> QED
      BY <1>1, <3>1 DEF RunAfter, SameToTheRule
  <2>4. RunAfter(ms, n, c)
    BY <2>1, <2>2, <2>3 DEF RunAfter
  <2>5. \A k \in 1..c : n + k \in (n + 1)..(n + c)
    OBVIOUS
  <2>6. \A k \in 1..c : ms[n + k].answers = ns[n + k].answers
    BY <2>2, <2>5
  <2> QED
    BY <2>4, <2>6 DEF Answers
<1>2. ASSUME NEW n \in 1..Len(ms) PROVE CallsAnswered(ns, n)
  <2> SUFFICES ASSUME ns[n].role = "assistant", NEW c \in Nat, RunAfter(ns, n, c)
               PROVE  ResultsFollow(CallIds(ns[n].calls), Answers(ns, n, c))
    BY DEF CallsAnswered
  <2>1. ms[n].role = "assistant" /\ ms[n].calls = ns[n].calls
    BY DEF SameToTheRule
  <2>2. RunAfter(ms, n, c) /\ Answers(ms, n, c) = Answers(ns, n, c)
    BY <1>1
  <2>3. CallsAnswered(ms, n)
    BY DEF RunRule
  <2> QED
    BY <2>1, <2>2, <2>3 DEF CallsAnswered
<1>3. ASSUME NEW n \in 1..Len(ms), ns[n].role = "tool"
      PROVE  n > 1 /\ ns[n - 1].role \in {"assistant", "tool"}
  <2>1. ms[n].role = "tool"
    BY <1>3 DEF SameToTheRule
  <2>2. n > 1 /\ ms[n - 1].role \in {"assistant", "tool"}
    BY <2>1 DEF RunRule, IsAsked
  <2>3. n - 1 \in 1..Len(ms)
    BY <2>2
  <2> QED
    BY <2>2, <2>3 DEF SameToTheRule
<1> QED
  BY <1>2, <1>3 DEF RunRule, IsAsked

-----------------------------------------------------------------------------
LEMMA OpenAIValidRule ==
    ASSUME NEW b
    PROVE  OpenAIIsValid(b) <=> OpenAIRule(Those(b.messages, IsNotSystem))
BY DEF OpenAIIsValid, OpenAIRule, ToolsAfter

(* An OpenAI body keeps the rule, and what it is decoded to.               *)
LEMMA OpenAIDecodedFollows ==
    ASSUME NEW b, b.messages \in Seq(OpenAIMessage), OpenAIIsValid(b)
    PROVE  RunRule(DecodeOpenAIMessages(b.messages))
<1>1. PICK others : others = Those(b.messages, IsNotSystem)
  OBVIOUS
<1>2. others \in Seq({m \in OpenAIMessage : m.role # "system"})
  BY <1>1, OthersType
<1>3. Len(others) \in Nat /\ DOMAIN others = 1..Len(others)
  BY <1>2
<1>4. RunRule(others)
  BY <1>1, <1>3, OpenAIValidRule, RuleIsRunRule
<1>5. PICK ds : ds = [n \in DOMAIN others |-> DecodeMessage(others[n])]
  OBVIOUS
<1>6. DecodeOpenAIMessages(b.messages) = ds
  BY <1>1, <1>5 DEF DecodeOpenAIMessages
<1>7. Len(ds) = Len(others) /\ \A n \in 1..Len(others) : ds[n] = DecodeMessage(others[n])
  BY <1>3, <1>5
<1>8. \A n \in 1..Len(others) : SameToTheRule(others[n], ds[n])
  <2>1. \A m : SameToTheRule(m, DecodeMessage(m))
    BY DEF SameToTheRule, DecodeMessage
  <2> QED
    BY <1>7, <2>1
<1> QED
  BY <1>3, <1>4, <1>6, <1>7, <1>8, RuleOfTheSame

LEMMA EncodedFollows ==
    ASSUME NEW m \in Message
    PROVE  SameToTheRule(m, EncodeOpenAIMessage(m))
<1>1. CASE m.role = "tool" /\ m.answers # 0
  <2>1. EncodeOpenAIMessage(m) = [m EXCEPT !.calls = <<>>]
    BY <1>1 DEF EncodeOpenAIMessage
  <2> QED
    BY <1>1, <2>1 DEF Message, SameToTheRule
<1>2. CASE ~(m.role = "tool" /\ m.answers # 0) /\ m.calls # <<>>
  <2>1. PICK c : c = IF m.content = <<>> THEN Null ELSE m.content
    OBVIOUS
  <2>2. EncodeOpenAIMessage(m) = [m EXCEPT !.content = c, !.answers = 0]
    BY <1>2, <2>1 DEF EncodeOpenAIMessage
  <2> QED
    BY <1>2, <2>2 DEF Message, SameToTheRule
<1>3. CASE ~(m.role = "tool" /\ m.answers # 0) /\ m.calls = <<>>
  <2>1. EncodeOpenAIMessage(m) = [m EXCEPT !.answers = 0]
    BY <1>3 DEF EncodeOpenAIMessage
  <2> QED
    BY <1>3, <2>1 DEF Message, SameToTheRule
<1> QED
  BY <1>1, <1>2, <1>3

LEMMA OpenAIEncodedFollows ==
    ASSUME NEW r \in NormalizedRequest, RunRule(r.messages)
    PROVE  OpenAIIsValid(EncodeChatRequest(r))
<1>1. PICK ms \in Seq(Message) : ms = r.messages
  BY DEF NormalizedRequest
<1>2. r.system \in Text
  BY DEF NormalizedRequest
<1>3. PICK es : es = [n \in DOMAIN ms |-> EncodeOpenAIMessage(ms[n])]
  OBVIOUS
<1>4. PICK s : s = IF r.system = <<>> THEN <<>> ELSE <<Saying("system", r.system)>>
  OBVIOUS
<1>5. EncodeChatRequest(r).messages = s \o es
  BY <1>1, <1>3, <1>4 DEF EncodeChatRequest
<1>6. \A n \in DOMAIN ms : ms[n] \in Message
  OBVIOUS
<1>7. es \in [DOMAIN ms -> OpenAIMessage]
  BY <1>3, <1>6, EncodedMeans
<1>8. es \in Seq(OpenAIMessage) /\ Len(es) = Len(ms)
  BY <1>7, SeqOnDomain
<1>9. \A n \in 1..Len(es) : IsNotSystem(es[n])
  <2>1. \A n \in DOMAIN ms : IsNotSystem(es[n])
    BY <1>3, <1>6, EncodedMeans
  <2>2. DOMAIN ms = 1..Len(es)
    BY <1>8
  <2> QED
    BY <2>1, <2>2
<1>10. s \in Seq(OpenAIMessage) /\ \A n \in 1..Len(s) : ~IsNotSystem(s[n])
  <2>1. PICK q : q = Saying("system", r.system)
    OBVIOUS
  <2>2. <<>> \in Seq(ToolCall)
    OBVIOUS
  <2>3. q \in OpenAIMessage /\ ~IsNotSystem(q)
    BY <1>2, <2>1, <2>2 DEF Saying, OpenAIMessage, IsNotSystem, IsSystem
  <2>4. CASE s = <<>>
    BY <2>4
  <2>5. CASE s = <<q>>
    BY <2>3, <2>5
  <2>6. s = <<>> \/ s = <<q>>
    BY <1>4, <2>1
  <2> QED
    BY <2>4, <2>5, <2>6
<1>11. Those(s \o es, IsNotSystem) = es
  BY <1>8, <1>9, <1>10, OthersAreKept
<1>12. \A n \in 1..Len(ms) : SameToTheRule(ms[n], es[n])
  <2>1. \A n \in 1..Len(ms) : n \in DOMAIN ms
    OBVIOUS
  <2> QED
    BY <1>3, <1>6, <2>1, EncodedFollows
<1>13. RunRule(es)
  <2>1. Len(ms) \in Nat /\ RunRule(ms)
    BY <1>1
  <2> QED
    BY <1>8, <1>12, <2>1, RuleOfTheSame
<1>14. OpenAIRule(es)
  <2>1. Len(es) \in Nat /\ DOMAIN es = 1..Len(es)
    BY <1>8
  <2> QED
    BY <1>13, <2>1, RuleIsRunRule
<1> QED
  BY <1>5, <1>11, <1>14, OpenAIValidRule

(* Hooks change texts only.                                                *)
LEMMA EditedFollows ==
    ASSUME NEW r \in NormalizedRequest, NEW q \in NormalizedRequest, SameRequest(r, q),
           RunRule(q.messages)
    PROVE  RunRule(r.messages)
<1>1. PICK ms \in Seq(Message) : ms = r.messages
  BY DEF NormalizedRequest
<1>2. PICK ns \in Seq(Message) : ns = q.messages
  BY DEF NormalizedRequest
<1>3. DOMAIN ms = DOMAIN ns /\ \A n \in DOMAIN ms : SameMessage(ms[n], ns[n])
  BY <1>1, <1>2 DEF SameRequest
<1>4. DOMAIN ms = 1..Len(ms) /\ DOMAIN ns = 1..Len(ns) /\ Len(ms) \in Nat /\ Len(ns) \in Nat
  OBVIOUS
<1>5. Len(ms) = Len(ns)
  <2>1. DOMAIN ms = DOMAIN ns
    BY <1>3
  <2> QED
    BY <2>1
<1>6. \A n \in 1..Len(ns) : SameToTheRule(ns[n], ms[n])
  BY <1>3, <1>4 DEF SameMessage, SameToTheRule
<1>7. RunRule(ns)
  BY <1>2
<1> QED
  BY <1>1, <1>4, <1>5, <1>6, <1>7, RuleOfTheSame

-----------------------------------------------------------------------------
(* Anthropic's rule, of a sequence of turns.                               *)
CallsAt(t, n) == IF n \in DOMAIN t THEN t[n].calls ELSE <<>>

ResultsAt(t, n) == IF n \in DOMAIN t THEN t[n].results ELSE <<>>

AnthropicRule(t) == \A n \in 0..Len(t) : ResultsFollow(CallsAt(t, n), ResultsAt(t, n + 1))

(* All but the last turn's calls are answered.                             *)
Answered(t) == \A n \in 0..(Len(t) - 1) : ResultsFollow(CallsAt(t, n), ResultsAt(t, n + 1))

LastCalls(t) == CallsAt(t, Len(t))

LEMMA AnthropicValidRule ==
    ASSUME NEW b
    PROVE  AnthropicIsValid(b)
              <=> AnthropicRule([n \in DOMAIN b.messages |-> AnthropicTurn(b.messages[n])])
BY DEF AnthropicIsValid, AnthropicRule, CallsAt, ResultsAt

LEMMA NothingFollows == ResultsFollow(<<>>, <<>>)
BY DEF ResultsFollow, Range

LEMMA NothingAnswered == Answered(<<>>) /\ LastCalls(<<>>) = <<>>
<1>1. Len(<<>>) = 0 /\ DOMAIN <<>> = {} /\ \A n \in 0..(0 - 1) : FALSE
  OBVIOUS
<1> QED
  BY <1>1 DEF Answered, LastCalls, CallsAt

LEMMA AnsweredMore ==
    ASSUME NEW t \in Seq(AnyTurn), NEW u \in AnyTurn, Answered(t),
           ResultsFollow(LastCalls(t), u.results)
    PROVE  Answered(t \o <<u>>) /\ LastCalls(t \o <<u>>) = u.calls
<1>1. PICK L \in Nat : L = Len(t)
  OBVIOUS
<1>2. PICK s : s = t \o <<u>>
  OBVIOUS
<1>3. /\ Len(s) = L + 1 /\ DOMAIN s = 1..(L + 1) /\ s[L + 1] = u
      /\ DOMAIN t = 1..L /\ \A n \in 1..L : s[n] = t[n]
  BY <1>1, <1>2
<1>4. LastCalls(s) = u.calls
  BY <1>3 DEF LastCalls, CallsAt
<1>5. \A n \in 0..L : CallsAt(s, n) = CallsAt(t, n)
  BY <1>3 DEF CallsAt
<1>6. ASSUME NEW n \in 0..L PROVE ResultsFollow(CallsAt(s, n), ResultsAt(s, n + 1))
  <2>1. CASE n = L
    <3>1. ResultsAt(s, n + 1) = u.results
      BY <1>3, <2>1 DEF ResultsAt
    <3>2. CallsAt(s, n) = LastCalls(t)
      BY <1>1, <1>5, <2>1 DEF LastCalls
    <3> QED
      BY <3>1, <3>2
  <2>2. CASE n # L
    <3>1. n \in 0..(Len(t) - 1) /\ n + 1 \in 1..L
      BY <1>1, <2>2
    <3>2. ResultsAt(s, n + 1) = ResultsAt(t, n + 1)
      BY <1>3, <3>1 DEF ResultsAt
    <3> QED
      BY <1>5, <3>1, <3>2 DEF Answered
  <2> QED
    BY <2>1, <2>2
<1>7. Answered(s)
  <2>1. Len(s) - 1 = L
    BY <1>3
  <2> QED
    BY <1>6, <2>1 DEF Answered
<1> QED
  BY <1>2, <1>4, <1>7

LEMMA AllAnswered ==
    ASSUME NEW t \in Seq(AnyTurn), Answered(t), ResultsFollow(LastCalls(t), <<>>)
    PROVE  AnthropicRule(t)
<1>1. PICK L \in Nat : L = Len(t)
  OBVIOUS
<1>2. ResultsAt(t, L + 1) = <<>>
  BY <1>1 DEF ResultsAt
<1>3. \A n \in 0..L : n = L \/ n \in 0..(Len(t) - 1)
  BY <1>1
<1> QED
  BY <1>1, <1>2, <1>3 DEF AnthropicRule, Answered, LastCalls

(* The rule asks for nothing of a result but its id.                       *)
LEMMA FollowsByIds ==
    ASSUME NEW asked, NEW c \in Nat, NEW r, NEW q, DOMAIN r = 1..c, DOMAIN q = 1..c,
           Len(r) = c, Len(q) = c, \A k \in 1..c : r[k].id = q[k].id,
           ResultsFollow(asked, r)
    PROVE  ResultsFollow(asked, q)
<1>1. {r[k].id : k \in DOMAIN r} = {q[k].id : k \in DOMAIN q}
  OBVIOUS
<1> QED
  BY <1>1 DEF ResultsFollow

LEMMA AnswersAre ==
    ASSUME NEW ms \in Seq(Message), NEW n \in Nat, NEW c \in Nat, n + c <= Len(ms)
    PROVE  /\ DOMAIN Answers(ms, n, c) = 1..c /\ Len(Answers(ms, n, c)) = c
           /\ \A k \in 1..c : Answers(ms, n, c)[k].id = ms[n + k].answers
<1>1. \A k \in 1..c : ms[n + k] \in Message
  OBVIOUS
<1>2. PICK f : f = Answers(ms, n, c)
  OBVIOUS
<1>3. f = [k \in 1..c |-> [id |-> ms[n + k].answers]]
  BY <1>2 DEF Answers
<1>4. f \in [1..c -> [id: Nat]]
  BY <1>1, <1>3 DEF Message
<1>5. Len(f) = c /\ DOMAIN f = 1..c
  <2>1. PICK S : S = [id: Nat]
    OBVIOUS
  <2>2. f \in [1..c -> S]
    BY <1>4, <2>1
  <2>3. f \in Seq(S)
    BY <2>2
  <2> QED
    BY <2>2, <2>3
<1>6. \A k \in 1..c : f[k].id = ms[n + k].answers
  BY <1>3
<1> QED
  BY <1>2, <1>5, <1>6

-----------------------------------------------------------------------------
(* The calls that the n-th message leaves to be answered.                  *)
PendingAt(ms, n) ==
    IF n >= 1 /\ ms[n].role = "assistant" THEN CallIds(ms[n].calls) ELSE <<>>

LEMMA NothingPending ==
    ASSUME NEW ms \in Seq(Message), RunRule(ms), NEW n \in 0..Len(ms),
           n < Len(ms) => ms[n + 1].role # "tool"
    PROVE  ResultsFollow(PendingAt(ms, n), <<>>)
<1>1. CASE n >= 1 /\ ms[n].role = "assistant"
  <2>1. n \in 1..Len(ms) /\ n + 0 = n /\ \A j \in (n + 1)..(n + 0) : FALSE
    BY <1>1
  <2>2. RunAfter(ms, n, 0)
    BY <2>1 DEF RunAfter
  <2>3. CallsAnswered(ms, n)
    BY <2>1 DEF RunRule
  <2>4. ResultsFollow(CallIds(ms[n].calls), Answers(ms, n, 0))
    BY <1>1, <2>2, <2>3 DEF CallsAnswered
  <2>5. Answers(ms, n, 0) = <<>>
    <3>1. \A k \in 1..0 : FALSE
      OBVIOUS
    <3> QED
      BY <3>1 DEF Answers
  <2> QED
    BY <1>1, <2>4, <2>5 DEF PendingAt
<1>2. CASE ~(n >= 1 /\ ms[n].role = "assistant")
  BY <1>2, NothingFollows DEF PendingAt
<1> QED
  BY <1>1, <1>2

EncodedUpTo(ms, n, t) ==
    t \in Seq(AnyTurn) /\ Answered(t) /\ LastCalls(t) = PendingAt(ms, n)

LEMMA RunFollows ==
    ASSUME NEW ms \in Seq(Message), \A k \in 1..Len(ms) : IsProper(ms[k]), RunRule(ms),
           NEW n \in Nat, n + 1 \in 1..Len(ms), StartsRun(ms, n + 1)
    PROVE  ResultsFollow(PendingAt(ms, n), RunTurn(RunFrom(ms, n + 1)).results)
<1>1. PICK m \in 1..Len(ms) : m = n + 1
  OBVIOUS
<1>2. IsResult(ms[m]) /\ (m = 1 \/ ~IsResult(ms[m - 1]))
  BY <1>1 DEF StartsRun
<1>3. m > 1 /\ ms[m - 1].role \in {"assistant", "tool"}
  BY <1>2 DEF RunRule, IsAsked, IsResult
<1>4. n \in 1..Len(ms) /\ m - 1 = n
  BY <1>1, <1>3
<1>5. ms[n].role = "assistant"
  <2>1. IsProper(ms[n])
    BY <1>4
  <2> QED
    BY <1>2, <1>3, <1>4, <2>1 DEF IsProper, IsResult
<1>6. PICK d \in m..Len(ms) : /\ RunFrom(ms, m) = SubSeq(ms, m, d)
                              /\ \A k \in m..d : IsResult(ms[k])
                              /\ d < Len(ms) => ~IsResult(ms[d + 1])
  BY <1>2, RunIs
<1>7. PICK c \in Nat : c = d - n
  BY <1>1
<1>8. n + c = d /\ d <= Len(ms)
  BY <1>4, <1>7
<1>9. RunAfter(ms, n, c)
  <2>1. \A j \in (n + 1)..(n + c) : ms[j].role = "tool"
    BY <1>1, <1>6, <1>8 DEF IsResult
  <2>2. ASSUME n + c < Len(ms) PROVE ms[(n + c) + 1].role # "tool"
    <3>1. d + 1 \in 1..Len(ms) /\ ~IsResult(ms[d + 1])
      BY <1>6, <1>8, <2>2
    <3>2. IsProper(ms[d + 1])
      BY <3>1
    <3> QED
      BY <1>8, <3>1, <3>2 DEF IsProper, IsResult
  <2> QED
    BY <1>8, <2>1, <2>2 DEF RunAfter
<1>10. ResultsFollow(CallIds(ms[n].calls), Answers(ms, n, c))
  <2>1. CallsAnswered(ms, n)
    BY <1>4 DEF RunRule
  <2> QED
    BY <1>5, <1>9, <2>1 DEF CallsAnswered
<1>11. PICK run : run = RunFrom(ms, m)
  OBVIOUS
<1>12. /\ run \in Seq(Message) /\ Len(run) = c
       /\ \A k \in 1..c : run[k] = ms[n + k]
  <2>1. run = SubSeq(ms, m, d)
    BY <1>6, <1>11
  <2>2. /\ SubSeq(ms, m, d) \in Seq(Message) /\ Len(SubSeq(ms, m, d)) = d - m + 1
        /\ \A k \in 1..(d - m + 1) : SubSeq(ms, m, d)[k] = ms[m + k - 1]
    OBVIOUS
  <2>3. d - m + 1 = c /\ \A k \in 1..c : m + k - 1 = n + k
    BY <1>1, <1>7
  <2> QED
    BY <2>1, <2>2, <2>3
<1>13. PICK rs : rs = [k \in DOMAIN run |-> [id |-> run[k].answers, text |-> run[k].content]]
  OBVIOUS
<1>14. RunTurn(run).results = rs
  BY <1>13 DEF RunTurn, Turn
<1>15. DOMAIN rs = 1..c /\ Len(rs) = c /\ \A k \in 1..c : rs[k].id = ms[n + k].answers
  <2>1. DOMAIN run = 1..c /\ \A k \in DOMAIN run : run[k] \in Message
    BY <1>12
  <2>2. rs \in [DOMAIN run -> Result]
    BY <1>13, <2>1 DEF Message, Result
  <2>3. Len(rs) = c /\ DOMAIN rs = 1..c
    BY <1>12, <2>2, SeqOnDomain
  <2> QED
    BY <1>12, <1>13, <2>1, <2>3
<1>16. ResultsFollow(CallIds(ms[n].calls), rs)
  <2>1. PICK a : a = Answers(ms, n, c)
    OBVIOUS
  <2>2. DOMAIN a = 1..c /\ Len(a) = c /\ \A k \in 1..c : a[k].id = ms[n + k].answers
    BY <1>8, <2>1, AnswersAre
  <2>3. \A k \in 1..c : a[k].id = rs[k].id
    BY <1>15, <2>2
  <2> QED
    BY <1>10, <1>15, <2>1, <2>2, <2>3, FollowsByIds
<1>17. PendingAt(ms, n) = CallIds(ms[n].calls)
  BY <1>4, <1>5 DEF PendingAt
<1> QED
  BY <1>1, <1>11, <1>14, <1>16, <1>17

LEMMA EncodeStep ==
    ASSUME NEW ms \in Seq(Message), \A k \in 1..Len(ms) : IsProper(ms[k]), RunRule(ms),
           NEW n \in Nat, n + 1 \in 1..Len(ms), NEW t, EncodedUpTo(ms, n, t)
    PROVE  EncodedUpTo(ms, n + 1, t \o Mapped(TurnOf, EncodeAt(ms, n + 1)))
<1>1. PICK m \in 1..Len(ms) : m = n + 1
  OBVIOUS
<1>2. t \in Seq(AnyTurn) /\ Answered(t) /\ LastCalls(t) = PendingAt(ms, n)
  BY DEF EncodedUpTo
<1>3. ms[m] \in Message /\ IsProper(ms[m])
  OBVIOUS
<1>4. ASSUME NEW x \in AnthropicMessage, EncodeAt(ms, m) = <<x>>,
             ResultsFollow(PendingAt(ms, n), AnthropicTurn(x).results),
             AnthropicTurn(x).calls = PendingAt(ms, m)
      PROVE  EncodedUpTo(ms, m, t \o Mapped(TurnOf, EncodeAt(ms, m)))
  <2>1. PICK u \in AnyTurn : u = AnthropicTurn(x)
    BY AnthropicTurnType
  <2>2. Mapped(TurnOf, EncodeAt(ms, m)) = <<u>>
    BY <1>4, <2>1, MappedOne
  <2>3. Answered(t \o <<u>>) /\ LastCalls(t \o <<u>>) = u.calls
    BY <1>2, <1>4, <2>1, AnsweredMore
  <2>4. t \o <<u>> \in Seq(AnyTurn)
    BY <1>2
  <2> QED
    BY <1>4, <2>1, <2>2, <2>3, <2>4 DEF EncodedUpTo
<1>5. CASE StartsRun(ms, m)
  <2>1. PICK x \in AnthropicMessage :
           EncodeAt(ms, m) = <<x>> /\ AnthropicTurn(x) = RunTurn(RunFrom(ms, m))
    BY <1>5, RunEncodes
  <2>2. ResultsFollow(PendingAt(ms, n), RunTurn(RunFrom(ms, m)).results)
    BY <1>1, <1>5, RunFollows
  <2>3. ms[m].role = "tool"
    BY <1>5 DEF StartsRun, IsResult
  <2>4. PendingAt(ms, m) = <<>>
    BY <2>3 DEF PendingAt
  <2>5. RunTurn(RunFrom(ms, m)).calls = <<>>
    BY DEF RunTurn, Turn
  <2> QED
    BY <1>1, <1>4, <2>1, <2>2, <2>4, <2>5
<1>6. CASE IsResult(ms[m]) /\ ~StartsRun(ms, m)
  <2>1. EncodeAt(ms, m) = <<>>
    BY <1>6 DEF EncodeAt, StartsRun, IsResult
  <2>2. Mapped(TurnOf, <<>>) = <<>>
    BY DEF Mapped
  <2>3. t \o <<>> = t
    BY <1>2
  <2>4. ms[n].role = "tool" /\ ms[m].role = "tool"
    <3>1. IsResult(ms[m - 1]) /\ m - 1 = n
      BY <1>1, <1>6 DEF StartsRun
    <3> QED
      BY <1>6, <3>1 DEF IsResult
  <2>5. PendingAt(ms, n) = <<>> /\ PendingAt(ms, m) = <<>>
    BY <2>4 DEF PendingAt
  <2> QED
    BY <1>1, <1>2, <2>1, <2>2, <2>3, <2>5 DEF EncodedUpTo
<1>7. CASE ~IsResult(ms[m])
  <2>1. PICK x \in AnthropicMessage :
           EncodeAt(ms, m) = <<x>> /\ AnthropicTurn(x) = Meaning(ms[m])
    BY <1>3, <1>7, OtherEncodes
  <2>2. ms[m].role \in {"user", "assistant"} /\ ms[m].role # "tool"
    BY <1>3, <1>7 DEF Message, Roles, IsProper, IsResult
  <2>3. Meaning(ms[m]).calls = CallIds(ms[m].calls) /\ Meaning(ms[m]).results = <<>>
    BY <2>2 DEF Meaning, Turn
  <2>4. ResultsFollow(PendingAt(ms, n), <<>>)
    <3>1. n \in 0..Len(ms)
      BY <1>1
    <3> QED
      BY <1>1, <2>2, <3>1, NothingPending
  <2>5. CallIds(ms[m].calls) = PendingAt(ms, m)
    <3>1. CASE ms[m].role = "assistant"
      BY <3>1 DEF PendingAt
    <3>2. CASE ms[m].role = "user"
      <4>1. ms[m].calls = <<>>
        BY <1>3, <3>2 DEF IsProper
      <4>2. CallIds(<<>>) = <<>>
        BY DEF CallIds
      <4> QED
        BY <3>2, <4>1, <4>2 DEF PendingAt
    <3> QED
      BY <2>2, <3>1, <3>2
  <2> QED
    BY <1>1, <1>4, <2>1, <2>3, <2>4, <2>5
<1> QED
  BY <1>1, <1>5, <1>6, <1>7

LEMMA EncodeAtType ==
    ASSUME NEW ms \in Seq(Message), NEW n \in 1..Len(ms), IsProper(ms[n])
    PROVE  EncodeAt(ms, n) \in Seq(AnthropicMessage)
<1>1. CASE ~IsResult(ms[n])
  <2>1. PICK x \in AnthropicMessage : EncodeAt(ms, n) = <<x>>
    BY <1>1, OtherEncodes
  <2> QED
    BY <2>1
<1>2. CASE StartsRun(ms, n)
  <2>1. PICK x \in AnthropicMessage : EncodeAt(ms, n) = <<x>>
    BY <1>2, RunEncodes
  <2> QED
    BY <2>1
<1>3. CASE IsResult(ms[n]) /\ ~StartsRun(ms, n)
  <2>1. EncodeAt(ms, n) = <<>>
    BY <1>3 DEF EncodeAt, StartsRun, IsResult
  <2> QED
    BY <2>1
<1> QED
  BY <1>1, <1>2, <1>3

(* A request that keeps the rule does in Anthropic's words.                *)
LEMMA AnthropicEncodedFollows ==
    ASSUME NEW r \in NormalizedRequest, \A n \in 1..Len(r.messages) : IsProper(r.messages[n]),
           RunRule(r.messages)
    PROVE  AnthropicIsValid(EncodeMessagesRequest(r))
<1>1. PICK ms \in Seq(Message) : ms = r.messages
  BY DEF NormalizedRequest
<1>2. RunRule(ms) /\ \A n \in 1..Len(ms) : IsProper(ms[n])
  BY <1>1
<1>3. PICK L \in Nat : L = Len(ms)
  OBVIOUS
<1>4. PICK es : es = [n \in DOMAIN ms |-> EncodeAt(ms, n)]
  OBVIOUS
<1>5. PICK body : body = FlattenSeq(es)
  OBVIOUS
<1>6. EncodeMessagesRequest(r).messages = body
  BY <1>1, <1>4, <1>5 DEF EncodeMessagesRequest
<1>7. es \in [DOMAIN ms -> Seq(AnthropicMessage)]
  BY <1>2, <1>4, EncodeAtType
<1>8. es \in Seq(Seq(AnthropicMessage)) /\ Len(es) = L
  BY <1>3, <1>7, SeqOnDomain
<1>9. \A n \in 1..L : es[n] = EncodeAt(ms, n)
  BY <1>3, <1>4
<1>10. PICK h : /\ Steps(es, h) /\ body = h[L]
                /\ \A n \in 0..L : h[n] \in Seq(AnthropicMessage)
  BY <1>5, <1>8, FlattenSteps
<1>11. body \in Seq(AnthropicMessage)
  BY <1>10
<1> DEFINE T == {n \in Nat : n <= L => EncodedUpTo(ms, n, Mapped(TurnOf, h[n]))}
<1>12. 0 \in T
  <2>1. h[0] = <<>>
    BY <1>10 DEF Steps
  <2>2. Mapped(TurnOf, <<>>) = <<>> /\ <<>> \in Seq(AnyTurn)
    BY DEF Mapped
  <2>3. PendingAt(ms, 0) = <<>>
    BY DEF PendingAt
  <2>4. EncodedUpTo(ms, 0, <<>>)
    BY <2>2, <2>3, NothingAnswered DEF EncodedUpTo
  <2> QED
    BY <2>1, <2>2, <2>4
<1>13. ASSUME NEW n \in Nat, n \in T PROVE n + 1 \in T
  <2> SUFFICES ASSUME n + 1 <= L PROVE EncodedUpTo(ms, n + 1, Mapped(TurnOf, h[n + 1]))
    OBVIOUS
  <2>1. n + 1 \in 1..L /\ n <= L /\ (n + 1) - 1 = n /\ n \in 0..L
    OBVIOUS
  <2>2. h[n + 1] = h[n] \o EncodeAt(ms, n + 1)
    BY <1>8, <1>9, <1>10, <2>1 DEF Steps
  <2>3. PICK p \in Seq(AnthropicMessage) : p = h[n]
    BY <1>10, <2>1
  <2>4. PICK e \in Seq(AnthropicMessage) : e = EncodeAt(ms, n + 1)
    BY <1>2, <1>3, <2>1, EncodeAtType
  <2>5. Mapped(TurnOf, p \o e) = Mapped(TurnOf, p) \o Mapped(TurnOf, e)
    BY TurnOfMaps, MappedConcat
  <2>6. EncodedUpTo(ms, n, Mapped(TurnOf, p))
    BY <1>13, <2>1, <2>3
  <2>7. EncodedUpTo(ms, n + 1, Mapped(TurnOf, p) \o Mapped(TurnOf, EncodeAt(ms, n + 1)))
    <3>1. PICK t : t = Mapped(TurnOf, p)
      OBVIOUS
    <3>2. n + 1 \in 1..Len(ms)
      BY <1>3, <2>1
    <3> HIDE DEF T
    <3>3. EncodedUpTo(ms, n + 1, t \o Mapped(TurnOf, EncodeAt(ms, n + 1)))
      BY <1>2, <2>6, <3>1, <3>2, EncodeStep
    <3> QED
      BY <3>1, <3>3
  <2> QED
    BY <2>2, <2>3, <2>4, <2>5, <2>7
<1>14. L \in T
  <2> HIDE DEF T
  <2> QED
    BY <1>12, <1>13, FromZeroOn
<1>15. EncodedUpTo(ms, L, Mapped(TurnOf, body))
  BY <1>10, <1>14
<1>16. ResultsFollow(PendingAt(ms, L), <<>>)
  BY <1>2, <1>3, NothingPending
<1>17. AnthropicRule(Mapped(TurnOf, body))
  BY <1>15, <1>16, AllAnswered DEF EncodedUpTo
<1>18. Mapped(TurnOf, body) = [n \in DOMAIN body |-> AnthropicTurn(body[n])]
  BY <1>11, MappedTurns
<1> QED
  BY <1>6, <1>17, <1>18, AnthropicValidRule

-----------------------------------------------------------------------------
(* An Anthropic message is decoded to its results and what it says.        *)
DecodesTo(m, t, rs, y) ==
    /\ DecodeAnthropicMessage(m) = rs \o y
    /\ Len(rs) = Len(t.results)
    /\ \A k \in 1..Len(rs) : rs[k].role = "tool" /\ rs[k].answers = t.results[k].id
    /\ y = <<>> => rs # <<>> /\ m.role = "user"
    /\ y # <<>> => Len(y) = 1 /\ y[1].role = m.role
    /\ m.role = "assistant" => rs = <<>> /\ y # <<>> /\ CallIds(y[1].calls) = t.calls
    /\ m.role = "user" => t.calls = <<>>

LEMMA DecodedAs ==
    ASSUME NEW m \in AnthropicMessage, IsWellFormed(m)
    PROVE  \E rs \in Seq(Message), y \in Seq(Message) : DecodesTo(m, AnthropicTurn(m), rs, y)
<1>1. m.role \in {"user", "assistant"} /\ m.content \in Content
  BY DEF AnthropicMessage
<1>2. PICK blocks \in Seq(Block) : blocks = m.content.blocks
  BY <1>1 DEF Content
<1>3. PICK text \in Text : text = m.content.text
  BY <1>1 DEF Content
<1>4. ParsedBlocks(m.content) = blocks
  BY <1>2 DEF ParsedBlocks, IsWellFormed
<1>5. PICK uses : uses = OfType("tool_use", blocks)
  OBVIOUS
<1>6. PICK results : results = OfType("tool_result", blocks)
  OBVIOUS
<1>7. PICK rs : rs = [n \in DOMAIN results |-> [id |-> results[n].id, text |-> results[n].text]]
  OBVIOUS
<1>8. PICK ids : ids = [n \in DOMAIN uses |-> uses[n].id]
  OBVIOUS
<1>9. PICK t \in AnyTurn : t = AnthropicTurn(m)
  BY AnthropicTurnType
<1>10. t = Turn(m.role, text \o JoinedText(blocks), ids, rs)
  BY <1>2, <1>3, <1>5, <1>6, <1>7, <1>8, <1>9 DEF AnthropicTurn
<1>11. t.calls = ids /\ t.results = rs
  BY <1>10 DEF Turn
<1>12. results \in Seq(Block) /\ uses \in Seq(Block)
  <2>1. results \in Seq({b \in Block : b.type = "tool_result"})
    BY <1>6, OfTypeType
  <2>2. uses \in Seq({b \in Block : b.type = "tool_use"})
    BY <1>5, OfTypeType
  <2>3. (\A n \in 1..Len(results) : results[n] \in Block)
        /\ (\A n \in 1..Len(uses) : uses[n] \in Block)
    BY <2>1, <2>2
  <2> QED
    BY <2>1, <2>2, <2>3, NarrowSeq
<1>13. ASSUME NEW z \in Message, z.role = m.role, DecodeAnthropicMessage(m) = <<z>>,
              rs = <<>>, m.role = "assistant" => CallIds(z.calls) = ids,
              m.role = "user" => ids = <<>>
       PROVE  \E r \in Seq(Message), y \in Seq(Message) : DecodesTo(m, t, r, y)
  <2>1. <<>> \in Seq(Message) /\ <<z>> \in Seq(Message) /\ <<>> \o <<z>> = <<z>>
    OBVIOUS
  <2>2. Len(<<>>) = 0 /\ Len(<<z>>) = 1 /\ <<z>> # <<>> /\ <<z>>[1] = z
    OBVIOUS
  <2>3. DecodesTo(m, t, <<>>, <<z>>)
    BY <1>11, <1>13, <2>1, <2>2 DEF DecodesTo
  <2> QED
    BY <2>1, <2>3
<1>14. CASE blocks = <<>>
  <2>1. DecodeAnthropicMessage(m) = <<Saying(m.role, text)>>
    BY <1>3, <1>4, <1>14 DEF DecodeAnthropicMessage
  <2>2. \A n \in DOMAIN blocks : FALSE
    BY <1>14
  <2>3. uses = <<>> /\ results = <<>>
    BY <1>5, <1>6, <2>2, NoneOfType
  <2>4. ids = <<>> /\ rs = <<>>
    BY <1>7, <1>8, <2>3
  <2>5. Saying(m.role, text) \in Message
    <3>1. m.role \in Roles
      BY <1>1 DEF Roles
    <3> QED
      BY <3>1, SayingWhole DEF Whole
  <2>6. Saying(m.role, text).role = m.role /\ CallIds(Saying(m.role, text).calls) = <<>>
    BY DEF Saying, CallIds
  <2> QED
    BY <1>9, <1>13, <2>1, <2>4, <2>5, <2>6
<1>15. CASE blocks # <<>> /\ m.role = "assistant"
  <2>1. PICK calls : calls = CallsIn(blocks)
    OBVIOUS
  <2>2. PICK z : z = Calling(JoinedText(blocks), calls)
    OBVIOUS
  <2>3. DecodeAssistant(blocks) = <<z>>
    BY <2>1, <2>2 DEF DecodeAssistant
  <2>4. DecodeAnthropicMessage(m) = <<z>>
    BY <1>4, <1>15, <2>3 DEF DecodeAnthropicMessage
  <2>5. z \in Message
    <3> DEFINE D == Decoded(IsBroken(OfType("tool_use", blocks)))
    <3>1. <<z>> \in Seq(D)
      BY <2>3, DecodeAssistantType
    <3>2. z \in D
      <4> HIDE DEF D
      <4> QED
        BY <3>1
    <3> QED
      BY <3>2 DEF Decoded
  <2>6. z.role = "assistant" /\ z.calls = calls
    BY <2>2 DEF Calling
  <2>7. CallIds(calls) = ids
    BY <1>5, <1>8, <2>1, CallsInType
  <2>8. \A n \in DOMAIN blocks : blocks[n].type # "tool_result"
    BY <1>2, <1>15 DEF IsWellFormed
  <2>9. results = <<>>
    BY <1>6, <2>8, NoneOfType
  <2>10. rs = <<>>
    BY <1>7, <2>9
  <2> QED
    BY <1>9, <1>13, <1>15, <2>4, <2>5, <2>6, <2>7, <2>10
<1>16. CASE blocks # <<>> /\ m.role = "user"
  <2>1. DecodeAnthropicMessage(m) = DecodeUser(blocks)
    BY <1>4, <1>16 DEF DecodeAnthropicMessage
  <2>2. \A n \in DOMAIN blocks : blocks[n].type \in {"text", "tool_result"}
    BY <1>2, <1>16 DEF IsWellFormed
  <2>3. uses = <<>>
    BY <1>5, <2>2, NoneOfType
  <2>4. ids = <<>>
    BY <1>8, <2>3
  <2>5. \A n \in DOMAIN results : results[n].id \in Nat /\ results[n].text \in Text
    <3>1. \A n \in DOMAIN results : results[n] \in Block
      BY <1>12
    <3> QED
      BY <3>1 DEF Block
  <2>6. PICK run : run = [n \in DOMAIN results |-> Answering(results[n].id, results[n].text)]
    OBVIOUS
  <2>7. run \in [DOMAIN results -> Message]
    BY <2>5, <2>6, AnsweringWhole DEF Whole
  <2>8. run \in Seq(Message) /\ Len(run) = Len(results) /\ DOMAIN run = 1..Len(results)
    BY <1>12, <2>7, SeqOnDomain
  <2>9. \A n \in 1..Len(run) : run[n].role = "tool" /\ run[n].answers = results[n].id
    BY <2>6, <2>8 DEF Answering
  <2>10. Len(rs) = Len(results)
    <3>1. rs \in [DOMAIN results -> Result]
      BY <1>7, <2>5 DEF Result
    <3> QED
      BY <1>12, <3>1, SeqOnDomain
  <2>11. \A n \in 1..Len(run) : rs[n].id = results[n].id
    <3>1. DOMAIN results = 1..Len(run)
      BY <2>6, <2>8
    <3> QED
      BY <1>7, <3>1
  <2>12. PICK said : said = IF OfType("text", blocks) = <<>> THEN <<>>
                            ELSE <<Saying("user", JoinedText(blocks))>>
    OBVIOUS
  <2>13. DecodeUser(blocks) = run \o said
    BY <1>6, <2>6, <2>12 DEF DecodeUser
  <2>14. Saying("user", JoinedText(blocks)) \in Message
    BY SayingWhole, JoinedTextType DEF Whole, Roles
  <2>15. said \in Seq(Message) /\ (said # <<>> => Len(said) = 1 /\ said[1].role = "user")
    BY <2>12, <2>14 DEF Saying
  <2>16. said = <<>> => run # <<>>
    <3>1. OfType(blocks[1].type, blocks) # <<>>
      BY <1>16, FirstOfType
    <3>2. blocks[1].type \in {"text", "tool_result"}
      BY <1>16, <2>2
    <3>3. ASSUME said = <<>> PROVE results # <<>>
      <4>1. OfType("text", blocks) = <<>>
        BY <2>12, <3>3
      <4> QED
        BY <1>6, <3>1, <3>2, <4>1
    <3> QED
      BY <1>12, <2>8, <3>3
  <2>17. DecodesTo(m, t, run, said)
    <3>1. DecodeAnthropicMessage(m) = run \o said
      BY <2>1, <2>13
    <3>2. Len(run) = Len(t.results)
      BY <1>11, <2>8, <2>10
    <3>3. \A k \in 1..Len(run) : run[k].role = "tool" /\ run[k].answers = t.results[k].id
      BY <1>11, <2>9, <2>11
    <3> QED
      BY <1>11, <1>16, <2>4, <2>15, <2>16, <3>1, <3>2, <3>3 DEF DecodesTo
  <2> QED
    BY <1>9, <2>8, <2>15, <2>17
<1> QED
  BY <1>1, <1>14, <1>15, <1>16

(* What the first n turns are decoded to keeps the rule, but for the calls *)
(* of the last, which are the last message's.                              *)
DecodedUpTo(t, n, d) ==
    /\ d \in Seq(Message)
    /\ \A k \in 1..Len(d) : IsAsked(d, k)
    /\ \A k \in 1..(Len(d) - 1) : CallsAnswered(d, k)
    /\ PendingAt(d, Len(d)) = CallsAt(t, n)

LEMMA NothingAsked ==
    ASSUME NEW asked, NEW told, ResultsFollow(asked, told),
           Len(told) \in Nat, DOMAIN told = 1..Len(told), asked = <<>>
    PROVE  Len(told) = 0
<1>1. Len(asked) = 0
  OBVIOUS
<1> QED
  BY <1>1 DEF ResultsFollow

LEMMA DecodeStep ==
    ASSUME NEW t, NEW n \in Nat, NEW d, DecodedUpTo(t, n, d),
           NEW m \in AnthropicMessage, NEW u \in AnyTurn,
           NEW rs \in Seq(Message), NEW y \in Seq(Message), DecodesTo(m, u, rs, y),
           ResultsFollow(CallsAt(t, n), u.results), CallsAt(t, n + 1) = u.calls
    PROVE  DecodedUpTo(t, n + 1, d \o (rs \o y))
<1>1. d \in Seq(Message) /\ PendingAt(d, Len(d)) = CallsAt(t, n)
  BY DEF DecodedUpTo
<1>2. PICK D \in Nat : D = Len(d)
  BY <1>1
<1>3. PICK R \in Nat : R = Len(rs)
  OBVIOUS
<1>4. PICK e : e = d \o (rs \o y)
  OBVIOUS
<1>5. e \in Seq(Message)
  BY <1>1, <1>4
<1>6. PICK E \in Nat : E = Len(e)
  BY <1>5
<1>7. m.role \in {"user", "assistant"}
  BY DEF AnthropicMessage
<1>8. \A k \in 1..D : e[k] = d[k]
  BY <1>1, <1>2, <1>4
<1>9. \A k \in 1..R : e[D + k].role = "tool" /\ e[D + k].answers = u.results[k].id
  <2>1. \A k \in 1..R : e[D + k] = rs[k]
    BY <1>1, <1>2, <1>3, <1>4
  <2> QED
    BY <1>3, <2>1 DEF DecodesTo
<1>10. y = <<>> => E = D + R /\ R > 0 /\ m.role = "user"
  <2>1. y = <<>> => rs # <<>> /\ m.role = "user"
    BY DEF DecodesTo
  <2>2. y = <<>> => Len(rs \o y) = R
    BY <1>3
  <2>3. rs # <<>> => R > 0
    BY <1>3
  <2>4. E = D + Len(rs \o y)
    BY <1>1, <1>2, <1>4, <1>6
  <2> QED
    BY <2>1, <2>2, <2>3, <2>4
<1>11. y # <<>> => E = (D + R) + 1 /\ e[E] = y[1] /\ e[E].role = m.role
  <2> SUFFICES ASSUME y # <<>> PROVE E = (D + R) + 1 /\ e[E] = y[1] /\ e[E].role = m.role
    OBVIOUS
  <2>1. Len(y) = 1 /\ y[1].role = m.role
    BY DEF DecodesTo
  <2>2. PICK q \in Seq(Message) : q = rs \o y
    <3>1. rs \o y \in Seq(Message)
      OBVIOUS
    <3> QED
      BY <3>1
  <2>3. Len(q) = R + 1 /\ q[R + 1] = y[1]
    <3>1. Len(rs \o y) = Len(rs) + Len(y)
      OBVIOUS
    <3>2. \A i \in 1..Len(y) : (rs \o y)[Len(rs) + i] = y[i]
      OBVIOUS
    <3> QED
      BY <1>3, <2>1, <2>2, <3>1, <3>2
  <2>4. Len(e) = Len(d) + Len(q) /\ \A i \in 1..Len(q) : e[Len(d) + i] = q[i]
    BY <1>1, <1>4, <2>2
  <2>5. E = (D + R) + 1 /\ e[D + (R + 1)] = q[R + 1]
    BY <1>2, <1>6, <2>3, <2>4
  <2>6. D + (R + 1) = (D + R) + 1
    OBVIOUS
  <2> QED
    BY <2>1, <2>3, <2>5, <2>6
<1>12. E \in {D + R, (D + R) + 1} /\ E > D
       /\ (E = (D + R) + 1 => y # <<>> /\ e[E].role # "tool")
  BY <1>7, <1>10, <1>11
<1>13. R = Len(u.results) /\ DOMAIN u.results = 1..R
  <2>1. u.results \in Seq(Result)
    BY DEF AnyTurn
  <2>2. R = Len(u.results)
    BY <1>3 DEF DecodesTo
  <2> QED
    BY <2>1, <2>2
<1>14. PendingAt(d, D) = <<>> => R = 0
  <2> SUFFICES ASSUME PendingAt(d, D) = <<>> PROVE R = 0
    OBVIOUS
  <2>1. CallsAt(t, n) = <<>>
    BY <1>1, <1>2
  <2> QED
    BY <1>13, <2>1, NothingAsked
<1>15. R > 0 => D >= 1 /\ d[D].role = "assistant"
  BY <1>14 DEF PendingAt
<1>16. ASSUME NEW k \in 1..E PROVE IsAsked(e, k)
  <2>1. CASE k <= D
    <3>1. k \in 1..D /\ (k > 1 => k - 1 \in 1..D)
      BY <2>1
    <3>2. IsAsked(d, k)
      BY <1>2, <3>1 DEF DecodedUpTo
    <3> QED
      BY <1>8, <3>1, <3>2 DEF IsAsked
  <2>2. CASE k = D + 1 /\ k <= D + R
    <3>1. D >= 1 /\ d[D].role = "assistant" /\ D \in 1..D
      BY <1>15, <2>2
    <3>2. k > 1 /\ k - 1 = D /\ e[k - 1].role = "assistant"
      BY <1>8, <2>2, <3>1
    <3> QED
      BY <3>2 DEF IsAsked
  <2>3. CASE k > D + 1 /\ k <= D + R
    <3>1. PICK j \in 1..R : j = (k - 1) - D
      BY <2>3
    <3>2. e[D + j].role = "tool"
      BY <1>9
    <3>3. D + j = k - 1 /\ k > 1
      BY <2>3, <3>1
    <3>4. e[k - 1].role = "tool" /\ k > 1
      BY <3>2, <3>3
    <3> QED
      BY <3>4 DEF IsAsked
  <2>4. CASE k > D + R
    <3>1. k = E /\ E = (D + R) + 1
      BY <1>12, <2>4
    <3> QED
      BY <1>12, <3>1 DEF IsAsked
  <2> QED
    BY <2>1, <2>2, <2>3, <2>4
<1>17. ASSUME NEW k \in 1..(E - 1) PROVE CallsAnswered(e, k)
  <2> SUFFICES ASSUME e[k].role = "assistant", NEW c \in Nat, RunAfter(e, k, c)
               PROVE  ResultsFollow(CallIds(e[k].calls), Answers(e, k, c))
    BY DEF CallsAnswered
  <2>1. /\ k + c <= E /\ \A j \in (k + 1)..(k + c) : e[j].role = "tool"
        /\ k + c < E => e[(k + c) + 1].role # "tool"
    BY <1>6 DEF RunAfter
  <2>2. CASE k < D
    <3>1. k + c <= D /\ (k + c < D => d[(k + c) + 1].role # "tool")
      <4>1. CASE k + c < D
        <5>1. (k + c) + 1 \in 1..D /\ k + c < E
          BY <1>12, <4>1
        <5> QED
          BY <1>8, <2>1, <5>1
      <4>2. CASE k + c = D
        BY <4>2
      <4>3. CASE k + c > D
        <5>1. D \in (k + 1)..(k + c) /\ D + 1 \in (k + 1)..(k + c) /\ D \in 1..D /\ D + 1 <= E
          BY <2>1, <2>2, <4>3
        <5>2. e[D].role = "tool" /\ e[D + 1].role = "tool"
          BY <2>1, <5>1
        <5>3. d[D].role = "tool"
          BY <1>8, <5>1, <5>2
        <5>4. R = 0
          BY <1>14, <5>3 DEF PendingAt
        <5>5. E = (D + R) + 1 /\ E = D + 1
          BY <1>12, <5>4
        <5> QED
          BY <1>12, <5>2, <5>5
      <4> QED
        BY <4>1, <4>2, <4>3
    <3>2. \A j \in (k + 1)..(k + c) : j \in 1..D
      BY <3>1
    <3>3. \A j \in (k + 1)..(k + c) : d[j].role = "tool"
      BY <1>8, <2>1, <3>2
    <3>4. RunAfter(d, k, c)
      BY <1>2, <3>1, <3>3 DEF RunAfter
    <3>5. k \in 1..D /\ e[k] = d[k] /\ k \in 1..(Len(d) - 1)
      BY <1>2, <1>8, <2>2
    <3>6. ResultsFollow(CallIds(d[k].calls), Answers(d, k, c))
      <4>1. CallsAnswered(d, k)
        BY <3>5 DEF DecodedUpTo
      <4> QED
        BY <3>4, <3>5, <4>1 DEF CallsAnswered
    <3>7. Answers(d, k, c) = Answers(e, k, c)
      <4>1. \A i \in 1..c : k + i \in (k + 1)..(k + c)
        OBVIOUS
      <4>2. \A i \in 1..c : e[k + i] = d[k + i]
        BY <1>8, <3>2, <4>1
      <4> QED
        BY <4>2 DEF Answers
    <3> QED
      BY <3>5, <3>6, <3>7
  <2>3. CASE k = D
    <3>1. D >= 1 /\ e[D] = d[D] /\ d[D].role = "assistant"
      BY <1>8, <2>3
    <3>2. CallIds(e[k].calls) = CallsAt(t, n)
      BY <1>1, <1>2, <2>3, <3>1 DEF PendingAt
    <3>3. c = R
      <4>1. ~(c < R)
        <5> SUFFICES ASSUME c < R PROVE FALSE
          OBVIOUS
        <5>1. c + 1 \in 1..R /\ D + (c + 1) = (k + c) + 1 /\ k + c < E
          BY <1>12, <2>3
        <5> QED
          BY <1>9, <2>1, <5>1
      <4>2. ~(c > R)
        <5> SUFFICES ASSUME c > R PROVE FALSE
          OBVIOUS
        <5>1. (D + R) + 1 \in (k + 1)..(k + c) /\ E = (D + R) + 1
          BY <1>12, <2>1, <2>3
        <5> QED
          BY <1>12, <2>1, <5>1
      <4> QED
        BY <4>1, <4>2
    <3>4. PICK a : a = Answers(e, k, c)
      OBVIOUS
    <3>5. DOMAIN a = 1..c /\ Len(a) = c /\ \A i \in 1..c : a[i].id = e[k + i].answers
      <4>1. k + c <= Len(e) /\ k \in Nat
        BY <1>6, <2>1
      <4> QED
        BY <1>5, <3>4, <4>1, AnswersAre
    <3>6. \A i \in 1..c : u.results[i].id = a[i].id
      BY <1>9, <2>3, <3>3, <3>5
    <3>7. DOMAIN u.results = 1..c /\ Len(u.results) = c
      BY <1>13, <3>3
    <3>8. ResultsFollow(CallsAt(t, n), a)
      BY <3>5, <3>6, <3>7, FollowsByIds
    <3> QED
      BY <3>2, <3>4, <3>8
  <2>4. CASE k > D
    <3>1. PICK j \in 1..R : j = k - D
      BY <1>12, <2>4
    <3>2. e[D + j].role = "tool" /\ D + j = k
      BY <1>9, <3>1
    <3> QED
      BY <3>2
  <2> QED
    BY <2>2, <2>3, <2>4
<1>18. PendingAt(e, E) = CallsAt(t, n + 1)
  <2>1. CASE y = <<>>
    <3>1. E = D + R /\ R \in 1..R /\ m.role = "user"
      BY <1>10, <2>1
    <3>2. e[E].role = "tool"
      BY <1>9, <3>1
    <3>3. u.calls = <<>>
      BY <3>1 DEF DecodesTo
    <3> QED
      BY <3>2, <3>3 DEF PendingAt
  <2>2. CASE y # <<>> /\ m.role = "user"
    <3>1. e[E].role = "user"
      BY <1>11, <2>2
    <3>2. u.calls = <<>>
      BY <2>2 DEF DecodesTo
    <3> QED
      BY <3>1, <3>2 DEF PendingAt
  <2>3. CASE y # <<>> /\ m.role = "assistant"
    <3>1. e[E].role = "assistant" /\ e[E] = y[1] /\ E >= 1
      BY <1>11, <2>3
    <3>2. CallIds(y[1].calls) = u.calls
      BY <2>3 DEF DecodesTo
    <3> QED
      BY <3>1, <3>2 DEF PendingAt
  <2> QED
    BY <1>7, <2>1, <2>2, <2>3
<1> QED
  BY <1>4, <1>5, <1>6, <1>16, <1>17, <1>18 DEF DecodedUpTo

(* All of it, where nothing follows the last turn.                         *)
LEMMA DecodedFollows ==
    ASSUME NEW t, NEW n \in Nat, NEW d, DecodedUpTo(t, n, d), ResultsFollow(CallsAt(t, n), <<>>)
    PROVE  RunRule(d)
<1>1. d \in Seq(Message) /\ PendingAt(d, Len(d)) = CallsAt(t, n)
  BY DEF DecodedUpTo
<1>2. PICK D \in Nat : D = Len(d)
  BY <1>1
<1>3. \A k \in 1..D : IsAsked(d, k)
  BY <1>2 DEF DecodedUpTo
<1>4. \A k \in 1..(D - 1) : CallsAnswered(d, k)
  BY <1>2 DEF DecodedUpTo
<1>5. ASSUME D >= 1, d[D].role = "assistant", NEW c \in Nat, RunAfter(d, D, c)
      PROVE  ResultsFollow(CallIds(d[D].calls), Answers(d, D, c))
  <2>1. c = 0
    BY <1>2, <1>5 DEF RunAfter
  <2>2. Answers(d, D, c) = <<>>
    <3>1. \A k \in 1..0 : FALSE
      OBVIOUS
    <3> QED
      BY <2>1, <3>1 DEF Answers
  <2>3. CallIds(d[D].calls) = CallsAt(t, n)
    BY <1>1, <1>2, <1>5 DEF PendingAt
  <2> QED
    BY <2>2, <2>3
<1>6. ASSUME NEW k \in 1..D PROVE CallsAnswered(d, k)
  <2>1. CASE k = D
    BY <1>5, <2>1 DEF CallsAnswered
  <2>2. CASE k # D
    <3>1. k \in 1..(D - 1)
      BY <2>2
    <3> QED
      BY <1>4, <3>1
  <2> QED
    BY <2>1, <2>2
<1> QED
  BY <1>2, <1>3, <1>6 DEF RunRule

(* A body that keeps Anthropic's rule is a request that keeps it.          *)
LEMMA AnthropicDecodedFollows ==
    ASSUME NEW b \in MessagesRequest, \A n \in 1..Len(b.messages) : IsWellFormed(b.messages[n]),
           AnthropicIsValid(b)
    PROVE  RunRule(DecodeMessagesRequest(b).messages)
<1>1. b.messages \in Seq(AnthropicMessage)
  BY DEF MessagesRequest, AnthropicMessage
<1>2. PICK ms \in Seq(AnthropicMessage) : ms = b.messages
  BY <1>1
<1>3. PICK L \in Nat : L = Len(ms)
  OBVIOUS
<1>4. PICK ds : ds = [n \in DOMAIN ms |-> DecodeAnthropicMessage(ms[n])]
  OBVIOUS
<1>5. PICK d : d = FlattenSeq(ds)
  OBVIOUS
<1>6. DecodeMessagesRequest(b).messages = d
  BY <1>2, <1>4, <1>5 DEF DecodeMessagesRequest, PlainRequest
<1>7. \A n \in 1..L : ms[n] \in AnthropicMessage /\ IsWellFormed(ms[n])
  BY <1>2, <1>3
<1>8. \A n \in 1..L : DecodeAnthropicMessage(ms[n]) \in Seq(Message)
  <2>1. ASSUME NEW n \in 1..L PROVE DecodeAnthropicMessage(ms[n]) \in Seq(Message)
    <3>1. PICK rs \in Seq(Message), y \in Seq(Message) :
             DecodesTo(ms[n], AnthropicTurn(ms[n]), rs, y)
      BY <1>7, DecodedAs
    <3>2. DecodeAnthropicMessage(ms[n]) = rs \o y
      BY <3>1 DEF DecodesTo
    <3>3. rs \o y \in Seq(Message)
      OBVIOUS
    <3> QED
      BY <3>2, <3>3
  <2> QED
    BY <2>1
<1>9. ds \in Seq(Seq(Message)) /\ Len(ds) = L /\ \A n \in 1..L : ds[n] = DecodeAnthropicMessage(ms[n])
  <2>1. DOMAIN ms = 1..L
    BY <1>3
  <2>2. ds \in [DOMAIN ms -> Seq(Message)]
    BY <1>4, <1>8, <2>1
  <2>3. ds \in Seq(Seq(Message)) /\ Len(ds) = L
    BY <1>3, <2>2, SeqOnDomain
  <2> QED
    BY <1>4, <2>1, <2>3
<1>10. PICK h : /\ Steps(ds, h) /\ d = h[L]
                /\ \A n \in 0..L : h[n] \in Seq(Message)
  BY <1>5, <1>9, FlattenSteps
<1>11. PICK t : t = [n \in DOMAIN ms |-> AnthropicTurn(ms[n])]
  OBVIOUS
<1>12. t = Mapped(TurnOf, ms)
  BY <1>11, MappedTurns
<1>13. Len(t) = L /\ DOMAIN t = 1..L /\ \A n \in 1..L : t[n] = AnthropicTurn(ms[n])
  <2>1. Len(t) = L
    BY <1>3, <1>12, TurnOfMaps, MappedType
  <2> QED
    BY <1>3, <1>11, <2>1
<1>14. AnthropicRule(t)
  BY <1>2, <1>11, AnthropicValidRule
<1>15. \A n \in 0..L : ResultsFollow(CallsAt(t, n), ResultsAt(t, n + 1))
  BY <1>13, <1>14 DEF AnthropicRule
<1>16. ASSUME NEW n \in Nat, n + 1 \in 1..L, DecodedUpTo(t, n, h[n])
       PROVE  DecodedUpTo(t, n + 1, h[n + 1])
  <2>1. PICK m \in AnthropicMessage : m = ms[n + 1] /\ IsWellFormed(m)
    BY <1>7, <1>16
  <2>2. PICK u \in AnyTurn : u = AnthropicTurn(m)
    BY AnthropicTurnType
  <2>3. PICK rs \in Seq(Message), y \in Seq(Message) : DecodesTo(m, u, rs, y)
    BY <2>1, <2>2, DecodedAs
  <2>4. t[n + 1] = u
    BY <1>13, <1>16, <2>1, <2>2
  <2>5. CallsAt(t, n + 1) = u.calls /\ ResultsAt(t, n + 1) = u.results
    BY <1>13, <1>16, <2>4 DEF CallsAt, ResultsAt
  <2>6. ResultsFollow(CallsAt(t, n), u.results)
    <3>1. n \in 0..L
      BY <1>16
    <3> QED
      BY <1>15, <2>5, <3>1
  <2>7. DecodedUpTo(t, n + 1, h[n] \o (rs \o y))
    BY <1>16, <2>3, <2>5, <2>6, DecodeStep
  <2>8. h[n + 1] = h[n] \o (rs \o y)
    <3>1. DecodeAnthropicMessage(m) = rs \o y
      BY <2>3 DEF DecodesTo
    <3>2. ds[n + 1] = rs \o y
      BY <1>9, <1>16, <2>1, <3>1
    <3>3. (n + 1) - 1 = n
      OBVIOUS
    <3>4. h[n + 1] = h[n] \o ds[n + 1]
      BY <1>9, <1>10, <1>16, <3>3 DEF Steps
    <3> QED
      BY <3>2, <3>4
  <2> QED
    BY <2>7, <2>8
<1>17. DecodedUpTo(t, 0, h[0])
  <2>1. h[0] = <<>>
    BY <1>10 DEF Steps
  <2>2. <<>> \in Seq(Message) /\ Len(<<>>) = 0 /\ (\A k \in 1..0 : FALSE) /\ (\A k \in 1..(0 - 1) : FALSE)
    OBVIOUS
  <2>3. PendingAt(<<>>, 0) = <<>>
    BY DEF PendingAt
  <2>4. CallsAt(t, 0) = <<>>
    BY <1>13 DEF CallsAt
  <2>5. DecodedUpTo(t, 0, <<>>)
    BY <2>2, <2>3, <2>4 DEF DecodedUpTo
  <2> QED
    BY <2>1, <2>5
<1>18. DecodedUpTo(t, L, h[L])
  <2> DEFINE T == {n \in Nat : n <= L => DecodedUpTo(t, n, h[n])}
  <2>1. 0 \in T
    BY <1>17
  <2>2. ASSUME NEW n \in Nat, n \in T PROVE n + 1 \in T
    <3> SUFFICES ASSUME n + 1 <= L PROVE DecodedUpTo(t, n + 1, h[n + 1])
      OBVIOUS
    <3>1. n + 1 \in 1..L /\ n <= L
      OBVIOUS
    <3>2. DecodedUpTo(t, n, h[n])
      BY <2>2, <3>1
    <3> HIDE DEF T
    <3> QED
      BY <1>16, <3>1, <3>2
  <2>3. L \in T
    <3> HIDE DEF T
    <3> QED
      BY <2>1, <2>2, FromZeroOn
  <2> QED
    BY <2>3
<1>19. ResultsFollow(CallsAt(t, L), <<>>)
  <2>1. ResultsAt(t, L + 1) = <<>>
    BY <1>13 DEF ResultsAt
  <2> QED
    BY <1>15, <2>1
<1>20. RunRule(d)
  BY <1>10, <1>18, <1>19, DecodedFollows
<1> QED
  BY <1>6, <1>20

LEMMA AskedFollows ==
    ASSUME BodiesAreProper, NEW x \in Exchanges, x.kind = "chat", IsValid(x.client, x.body)
    PROVE  RunRule(Asked(x).messages)
<1>1. x.client \in {"openai", "anthropic"}
  BY ExchangeType
<1>2. CASE x.client = "openai"
  <2>1. PICK b \in ChatRequest : b = x.body
    BY <1>2, ExchangeType
  <2>2. Asked(x) = DecodeChatRequest(b)
    BY <1>2, <2>1 DEF Asked
  <2>3. DecodeChatRequest(b).messages = DecodeOpenAIMessages(b.messages)
    BY DEF DecodeChatRequest, PlainRequest
  <2>4. b.messages \in Seq(OpenAIMessage)
    BY DEF ChatRequest
  <2>5. OpenAIIsValid(b)
    BY <1>2, <2>1 DEF IsValid
  <2> QED
    BY <2>2, <2>3, <2>4, <2>5, OpenAIDecodedFollows
<1>3. CASE x.client = "anthropic"
  <2>1. PICK b \in MessagesRequest : b = x.body
    BY <1>3, ExchangeType
  <2>2. Asked(x) = DecodeMessagesRequest(b)
    BY <1>3, <2>1 DEF Asked
  <2>3. AnthropicIsValid(b)
    BY <1>3, <2>1 DEF IsValid
  <2>4. \A n \in 1..Len(b.messages) : IsWellFormed(b.messages[n])
    BY <1>3, <2>1 DEF BodiesAreProper, MessagesAreProper
  <2> QED
    BY <2>2, <2>3, <2>4, AnthropicDecodedFollows
<1> QED
  BY <1>1, <1>2, <1>3

(* TurnsStayValid, of any exchange and any body.                           *)
ValidIn(x, b) ==
    x.kind # "completion" /\ b # NoBody /\ IsValid(x.client, x.body) => IsValid(x.backend, b)

LEMMA SentIsValid ==
    ASSUME BodiesAreProper, ExchangeInv, Send
    PROVE  ValidIn(exchange, forwarded')
<1>1. PICK x \in Exchanges : x = exchange
  BY DEF ExchangeInv, TypeInv
<1>2. PICK r \in NormalizedRequest : r = request
  BY DEF ExchangeInv, TypeInv
<1>3. PICK q \in NormalizedRequest : q = Asked(x)
  BY AskedType
<1>4. SameRequest(r, q)
  BY <1>1, <1>2, <1>3 DEF ExchangeInv, RequestInv, Send
<1>5. x.kind \in {"chat", "completion"} /\ x.backend \in {"openai", "anthropic"}
  BY ExchangeType
<1> SUFFICES ASSUME x.kind = "chat", IsValid(x.client, x.body)
             PROVE  IsValid(x.backend, forwarded')
  BY <1>1, <1>5 DEF ValidIn
<1>6. RunRule(r.messages)
  BY <1>3, <1>4, AskedFollows, EditedFollows
<1>7. CASE x.backend = "openai"
  <2>1. forwarded' = EncodeChatRequest(r)
    BY <1>1, <1>2, <1>7 DEF Send, IsCompletion
  <2>2. OpenAIIsValid(EncodeChatRequest(r))
    BY <1>6, OpenAIEncodedFollows
  <2> QED
    BY <1>7, <2>1, <2>2 DEF IsValid
<1>8. CASE x.backend = "anthropic"
  <2>1. forwarded' = EncodeMessagesRequest(r)
    BY <1>1, <1>2, <1>8 DEF Send, IsCompletion
  <2>2. \A n \in 1..Len(q.messages) : IsProper(q.messages[n])
    BY <1>3, <1>8, AskedIsProper
  <2>3. \A n \in 1..Len(r.messages) : IsProper(r.messages[n])
    BY <1>4, <2>2, ProperAsWell
  <2>4. AnthropicIsValid(EncodeMessagesRequest(r))
    BY <1>6, <2>3, AnthropicEncodedFollows
  <2> QED
    BY <1>8, <2>1, <2>4 DEF IsValid
<1> QED
  BY <1>5, <1>7, <1>8

LEMMA ValidSaid == TurnsStayValid <=> ValidIn(exchange, forwarded)
BY DEF TurnsStayValid, ValidIn, IsCompletion

(* Where the client's turns keep to its protocol, every call answered by   *)
(* the turn that follows it and nothing answered that was not called, the  *)
(* backend's do to the backend's.                                          *)
THEOREM TurnsAreValid ==
    ASSUME BodiesAreProper
    PROVE  Spec => []TurnsStayValid
<1> DEFINE Said == ValidIn(exchange, forwarded)
<1>1. Init => Said
  BY DEF Init, ValidIn
<1>2. ExchangeInv /\ Said /\ [Next]_vars => Said'
  <2> SUFFICES ASSUME ExchangeInv, Said, [Next]_vars PROVE Said'
    OBVIOUS
  <2>1. CASE Send
    <3>1. exchange' = exchange
      BY <2>1 DEF Send
    <3> QED
      BY <2>1, <3>1, SentIsValid
  <2>2. CASE UNCHANGED <<exchange, forwarded>>
    BY <2>2
  <2> QED
    BY <2>1, <2>2 DEF Next, Terminated, vars, DecodeRequest, PreRequestHook,
                      RefuseRequest, Receive, PostResponseHook, Sync, RefuseReply, Reply
<1>3. TurnsStayValid <=> Said
  BY ValidSaid
<1> HIDE DEF Said
<1> QED
  BY <1>1, <1>2, <1>3, ExchangeInvariant, PTL DEF Spec

=============================================================================
