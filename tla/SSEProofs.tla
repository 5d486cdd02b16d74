----------------------------- MODULE SSEProofs -----------------------------
(* Theorems about SSE: its types, the events its reader delivers, and that *)
(* it is a FramePipe, for every number of lines.                           *)
EXTENDS SSE, FiniteSetTheorems, WellFoundedInduction, TLAPS

(* Where the lines that are not yet in an event begin, less one.           *)
LastOf(events) == IF events = <<>> THEN 0 ELSE events[Len(events)].last

(* What the locals of Next hold of the lines since it was called.          *)
Part == [first |-> mark + 1, last |-> read]

LocalInv ==
    /\ pc = "handling" => read = LastOf(delivered)
    /\ pc = "scanning" =>
          /\ mark = LastOf(delivered)
          /\ Ascending(data)
          /\ Range(data) = Lines(sent, "data", Part)
          /\ \A n \in Range(data) : \A b \in Lines(sent, "blank", Part) : b < n
          /\ name # 0 => sent[name] = "name"
          /\ \A n \in Lines(sent, "name", Part) : n <= name

SpansInv ==
    \A i \in DOMAIN delivered :
        /\ delivered[i].last \in 1..read
        /\ delivered[i].first \in 1..delivered[i].last

SSEInv == TypeOK /\ SpansInv /\ LocalInv /\ WholeEvents /\ NamesAreLatest

LEMMA InitInv == Init => SSEInv
BY SSEAssumption DEF Init, SSEInv, TypeOK, SpansInv, LocalInv, WholeEvents,
   NamesAreLatest, LastOf, Kinds, EventRecord

(* Type correctness is inductive by itself.                                *)
LEMMA NextType == TypeOK /\ [Next]_vars => TypeOK'
<1> SUFFICES ASSUME TypeOK, [Next]_vars PROVE TypeOK'
  OBVIOUS
<1> USE DEF TypeOK, backendVars
<1>1. CASE SendLine
  BY <1>1 DEF SendLine, Sending
<1>2. CASE GoDown
  <2>1. sent' = sent \/ \E k \in Kinds : sent' = Append(sent, k)
    BY <1>2 DEF GoDown, Kinds
  <2>2. sent' \in Seq(Kinds) /\ Len(sent) \in Nat /\ Len(sent') \in Nat
        /\ Len(sent) <= Len(sent')
    <3>1. CASE sent' = sent
      BY <3>1
    <3>2. CASE \E k \in Kinds : sent' = Append(sent, k)
      BY <3>2
    <3>3. QED
      BY <2>1, <3>1, <3>2
  <2>3. QED
    BY <1>2, <2>2 DEF GoDown
<1>3. CASE CallNext
  BY <1>3 DEF CallNext
<1>4. CASE ScanName
  BY <1>4 DEF ScanName, Scan
<1>5. CASE ScanData
  BY <1>5 DEF ScanData, Scan
<1>6. CASE ScanOther
  BY <1>6 DEF ScanOther, Scan
<1>7. CASE ScanBlank
  BY <1>7 DEF ScanBlank, Scan, ReturnEvent, EventRecord
<1>8. CASE ScanHalf
  BY <1>8 DEF ScanHalf, AtEnd, ReturnEvent, EventRecord
<1>9. CASE ScanTooLong \/ ScanError \/ ScanEOF \/ StopReading
  BY <1>9 DEF ScanTooLong, ScanError, ScanEOF, StopReading
<1>10. CASE UNCHANGED vars
  BY <1>10 DEF vars
<1>11. QED
  BY <1>1, <1>2, <1>3, <1>4, <1>5, <1>6, <1>7, <1>8, <1>9, <1>10
     DEF Next, Backend, Reader, Step, Terminated

-----------------------------------------------------------------------------
(* What the backend does leaves the lines that have been read as they are. *)
LEMMA BackendKeeps ==
    ASSUME TypeOK, Backend
    PROVE  /\ UNCHANGED <<read, pc, mark, name, data, delivered>>
           /\ Len(sent) <= Len(sent')
           /\ \A n \in 1..Len(sent) : sent'[n] = sent[n]
           /\ link = "eof" => UNCHANGED <<link, sent>>
<1>1. sent' = sent \/ \E k \in Kinds : sent' = Append(sent, k)
  BY DEF Backend, SendLine, GoDown, Kinds
<1>2. Len(sent) <= Len(sent') /\ \A n \in 1..Len(sent) : sent'[n] = sent[n]
  BY <1>1 DEF TypeOK
<1>3. QED
  BY <1>2 DEF Backend, SendLine, GoDown, Sending

(* An event depends on its own lines only.                                 *)
LEMMA SameLines ==
    ASSUME NEW s, NEW t, NEW d, \A n \in d.first..d.last : s[n] = t[n]
    PROVE  /\ \A kind : Lines(s, kind, d) = Lines(t, kind, d)
           /\ LastBlock(s, d) = LastBlock(t, d)
           /\ IsWhole(s, d) <=> IsWhole(t, d)
           /\ HasLatestName(s, d) <=> HasLatestName(t, d)
<1>1. \A kind : Lines(s, kind, d) = Lines(t, kind, d)
  BY DEF Lines
<1>2. LastBlock(s, d) = LastBlock(t, d)
  BY <1>1 DEF LastBlock
<1>3. QED
  BY <1>1, <1>2 DEF IsWhole, HasLatestName

LEMMA BackendInv ==
    ASSUME SSEInv, Backend
    PROVE  SpansInv' /\ LocalInv' /\ WholeEvents' /\ NamesAreLatest'
<1> USE DEF SSEInv
<1>1. /\ UNCHANGED <<read, pc, mark, name, data, delivered>>
      /\ \A n \in 1..read : sent'[n] = sent[n]
      /\ link = "eof" => UNCHANGED <<link, sent>>
  BY BackendKeeps DEF TypeOK
<1>2. SpansInv'
  BY <1>1 DEF SpansInv
<1>3. LocalInv'
  <2>1. Part' = Part /\ \A n \in Part.first..Part.last : sent'[n] = sent[n]
    BY <1>1 DEF Part, TypeOK
  <2>2. \A kind : Lines(sent', kind, Part) = Lines(sent, kind, Part)
    BY <2>1, SameLines
  <2>3. name # 0 => sent'[name] = sent[name]
    BY <1>1 DEF TypeOK
  <2>4. QED
    BY <1>1, <2>1, <2>2, <2>3 DEF LocalInv
<1>4. ASSUME NEW i \in DOMAIN delivered
      PROVE  /\ sent'[delivered[i].last] = sent[delivered[i].last]
             /\ IsWhole(sent', delivered[i]) <=> IsWhole(sent, delivered[i])
             /\ HasLatestName(sent', delivered[i]) <=> HasLatestName(sent, delivered[i])
  <2>1. /\ \A n \in delivered[i].first..delivered[i].last : sent'[n] = sent[n]
        /\ sent'[delivered[i].last] = sent[delivered[i].last]
    BY <1>1 DEF SpansInv, TypeOK
  <2>2. QED
    BY <2>1, SameLines
<1>5. WholeEvents'
  BY <1>1, <1>4 DEF WholeEvents
<1>6. NamesAreLatest'
  BY <1>1, <1>4 DEF NamesAreLatest
<1>7. QED
  BY <1>2, <1>3, <1>5, <1>6

-----------------------------------------------------------------------------
(* A line scanned without an event being returned.                         *)
LEMMA ScanKeeps ==
    ASSUME SSEInv, ScanName \/ ScanData \/ ScanOther
    PROVE  SpansInv' /\ LocalInv' /\ WholeEvents' /\ NamesAreLatest'
<1> USE DEF SSEInv
<1>1. /\ pc = "scanning" /\ read' = read + 1 /\ read < Len(sent)
      /\ UNCHANGED <<sent, link, pc, mark, delivered>>
  BY DEF ScanName, ScanData, ScanOther, Scan, backendVars
<1>2. SpansInv' /\ WholeEvents' /\ NamesAreLatest'
  BY <1>1 DEF SpansInv, WholeEvents, NamesAreLatest, TypeOK
<1>3. /\ \A kind : Lines(sent, kind, Part') =
           Lines(sent, kind, Part)
             \cup (IF sent[read + 1] = kind THEN {read + 1} ELSE {})
      /\ \A kind : Lines(sent, kind, Part) \subseteq (mark + 1)..read
  BY <1>1 DEF Lines, Part, TypeOK
<1>4. /\ mark = LastOf(delivered)
      /\ Ascending(data)
      /\ Range(data) = Lines(sent, "data", Part)
      /\ \A n \in Range(data) : \A b \in Lines(sent, "blank", Part) : b < n
      /\ name # 0 => sent[name] = "name"
      /\ \A n \in Lines(sent, "name", Part) : n <= name
  BY <1>1 DEF LocalInv
<1>5. Range(data) \subseteq (mark + 1)..read /\ name \in 0..read
  BY DEF Range, TypeOK
<1>6. SUFFICES /\ Ascending(data')
               /\ Range(data') = Lines(sent, "data", Part')
               /\ \A n \in Range(data') :
                     \A b \in Lines(sent, "blank", Part') : b < n
               /\ name' # 0 => sent[name'] = "name"
               /\ \A n \in Lines(sent, "name", Part') : n <= name'
  BY <1>1, <1>2, <1>4 DEF LocalInv
<1>7. CASE ScanName
  <2>1. sent[read + 1] = "name" /\ name' = read + 1 /\ data' = data
    BY <1>7 DEF ScanName, Scan
  <2>2. /\ Lines(sent, "data", Part') = Lines(sent, "data", Part)
        /\ Lines(sent, "blank", Part') = Lines(sent, "blank", Part)
        /\ Lines(sent, "name", Part') = Lines(sent, "name", Part) \cup {read + 1}
    BY <1>3, <2>1
  <2>3. \A n \in Lines(sent, "name", Part') : n <= name'
    BY <1>3, <2>1, <2>2 DEF TypeOK
  <2>4. QED
    BY <1>4, <2>1, <2>2, <2>3
<1>8. CASE ScanData
  <2>1. /\ sent[read + 1] = "data" /\ name' = name
        /\ data' = Append(data, read + 1)
    BY <1>1, <1>8 DEF ScanData, Scan
  <2>2. /\ Len(data) \in Nat /\ DOMAIN data = 1..Len(data)
        /\ DOMAIN data' = 1..(Len(data) + 1)
        /\ data'[Len(data) + 1] = read + 1
        /\ \A i \in 1..Len(data) : data'[i] = data[i] /\ data[i] <= read
    BY <2>1 DEF TypeOK
  <2>3. Range(data') = Range(data) \cup {read + 1}
    <3>1. DOMAIN data' = DOMAIN data \cup {Len(data) + 1}
      BY <2>2
    <3>2. \A i \in DOMAIN data : data'[i] = data[i]
      BY <2>2
    <3>3. QED
      BY <3>1, <3>2, <2>2 DEF Range
  <2>4. Ascending(data')
    <3>1. SUFFICES ASSUME NEW i \in 1..Len(data) + 1, NEW j \in 1..Len(data) + 1,
                          i < j
                   PROVE  data'[i] < data'[j]
      BY <2>2 DEF Ascending
    <3>2. CASE j \in 1..Len(data)
      BY <1>4, <2>2, <3>1, <3>2 DEF Ascending
    <3>3. CASE j = Len(data) + 1
      <4>1. i \in 1..Len(data) /\ data[i] \in Nat
        BY <2>2, <3>1, <3>3 DEF TypeOK
      <4>2. QED
        BY <2>2, <3>3, <4>1 DEF TypeOK
    <3>4. QED
      BY <2>2, <3>2, <3>3
  <2>5. /\ Lines(sent, "data", Part') = Lines(sent, "data", Part) \cup {read + 1}
        /\ Lines(sent, "blank", Part') = Lines(sent, "blank", Part)
        /\ Lines(sent, "name", Part') = Lines(sent, "name", Part)
    BY <1>3, <2>1
  <2>6. \A b \in Lines(sent, "blank", Part) : b < read + 1
    BY <1>3 DEF TypeOK
  <2>7. QED
    BY <1>4, <2>1, <2>3, <2>4, <2>5, <2>6
<1>9. CASE ScanOther
  <2>1. /\ sent[read + 1] \in {"other", "blank"}
        /\ sent[read + 1] = "blank" => data = <<>>
        /\ name' = name /\ data' = data
    BY <1>1, <1>9 DEF ScanOther, Scan, HasData
  <2>2. data = <<>> => Range(data) = {}
    BY DEF Range
  <2>3. QED
    BY <1>3, <1>4, <1>5, <2>1, <2>2 DEF TypeOK
<1>10. QED
  BY <1>7, <1>8, <1>9

-----------------------------------------------------------------------------
(* An event returned: of the lines since Next was called, which end in the *)
(* first blank line after data or with the stream.                         *)
LEMMA ReturnKeeps ==
    ASSUME SSEInv, ScanBlank \/ ScanHalf
    PROVE  SpansInv' /\ LocalInv' /\ WholeEvents' /\ NamesAreLatest'
<1> USE DEF SSEInv
<1> DEFINE d == [name |-> name, data |-> data,
                 first |-> mark + 1, last |-> read']
           n == Len(delivered)
<1>1. /\ pc = "scanning" /\ pc' = "handling" /\ data # <<>>
      /\ UNCHANGED <<sent, link, mark>>
      /\ delivered' = Append(delivered, d)
      /\ \/ read' = read + 1 /\ read < Len(sent) /\ sent[read + 1] = "blank"
         \/ read' = read /\ read = Len(sent) /\ link = "eof"
  BY DEF ScanBlank, ScanHalf, Scan, AtEnd, ReturnEvent, HasData, backendVars
<1>2. /\ mark = LastOf(delivered)
      /\ Ascending(data)
      /\ Range(data) = Lines(sent, "data", Part)
      /\ \A k \in Range(data) : \A b \in Lines(sent, "blank", Part) : b < k
      /\ name # 0 => sent[name] = "name"
      /\ \A k \in Lines(sent, "name", Part) : k <= name
  BY <1>1 DEF LocalInv
<1>3. /\ n \in Nat /\ DOMAIN delivered = 1..n /\ DOMAIN delivered' = 1..(n + 1)
      /\ Len(delivered') = n + 1 /\ delivered'[n + 1] = d
      /\ \A i \in 1..n : delivered'[i] = delivered[i]
  BY <1>1 DEF TypeOK
<1>4. read \in Nat /\ mark \in Nat /\ mark <= read /\ Len(sent) \in Nat
  BY DEF TypeOK
<1>5. PICK k \in (mark + 1)..read : k \in Range(data)
  BY <1>1 DEF Range, TypeOK
<1>6. SpansInv'
  BY <1>1, <1>3, <1>4, <1>5 DEF SpansInv
<1>7. LocalInv'
  BY <1>1, <1>3 DEF LocalInv, LastOf
<1>8. d.first = IF n + 1 = 1 THEN 1 ELSE delivered[n].last + 1
  BY <1>2, <1>3, <1>4 DEF LastOf
<1>9. \A kind : kind # "blank" => Lines(sent, kind, d) = Lines(sent, kind, Part)
  BY <1>1, <1>4 DEF Lines, Part
<1>10. \A b \in Lines(sent, "blank", d) :
          b \in Lines(sent, "blank", Part) \/ b = d.last
  BY <1>1, <1>4 DEF Lines, Part
<1>11. IsWhole(sent, d)
  <2>1. Range(d.data) \subseteq d.first..d.last
    BY <1>1, <1>4 DEF Range, TypeOK
  <2>2. ASSUME NEW m \in Range(d.data), NEW b \in Lines(sent, "blank", d),
               m <= b
        PROVE  b = d.last
    <3>1. CASE b \in Lines(sent, "blank", Part)
      <4>1. b < m /\ m \in Nat /\ b \in Nat
        BY <1>2, <1>4, <2>1, <3>1 DEF Lines, Part
      <4>2. QED
        BY <2>2, <4>1
    <3>2. QED
      BY <1>10, <3>1
  <2>3. Range(d.data) \subseteq LastBlock(sent, d)
    BY <2>1, <2>2 DEF LastBlock
  <2>4. QED
    BY <1>1, <1>2, <1>9, <2>3 DEF IsWhole
<1>12. HasLatestName(sent, d)
  <2>1. Lines(sent, "name", d) = Lines(sent, "name", Part)
    BY <1>9
  <2>2. name # 0 => name \in Lines(sent, "name", Part)
    BY <1>2 DEF Lines, Part, TypeOK
  <2>3. \A m \in Lines(sent, "name", Part) : m >= 1 /\ m \in Nat
    BY <1>4 DEF Lines, Part
  <2>4. CASE name = 0
    <3>1. Lines(sent, "name", Part) = {}
      BY <1>2, <2>3, <2>4
    <3>2. QED
      BY <2>1, <2>4, <3>1 DEF HasLatestName
  <2>5. CASE name # 0
    BY <1>2, <2>1, <2>2, <2>5 DEF HasLatestName
  <2>6. QED
    BY <2>4, <2>5
<1>13. /\ sent[d.last] = "blank" \/ (link = "eof" /\ d.last = Len(sent))
       /\ \A i \in 1..n : sent[delivered[i].last] = "blank"
  <2>1. ASSUME NEW i \in 1..n, sent[delivered[i].last] # "blank" PROVE FALSE
    <3>1. delivered[i].last = Len(sent) /\ i = n
      BY <1>3, <2>1 DEF WholeEvents
    <3>2. mark = Len(sent)
      BY <1>2, <1>3, <3>1 DEF LastOf
    <3>3. QED
      BY <1>4, <1>5, <3>2 DEF TypeOK
  <2>2. QED
    BY <1>1, <2>1
<1>14. WholeEvents'
  BY <1>1, <1>3, <1>8, <1>11, <1>13 DEF WholeEvents
<1>15. NamesAreLatest'
  BY <1>1, <1>3, <1>12 DEF NamesAreLatest
<1>16. QED
  BY <1>6, <1>7, <1>14, <1>15

(* The steps that read no line.                                            *)
LEMMA OtherKeeps ==
    ASSUME SSEInv,
           \/ CallNext \/ ScanTooLong \/ ScanError \/ ScanEOF \/ StopReading
           \/ UNCHANGED vars
    PROVE  SpansInv' /\ LocalInv' /\ WholeEvents' /\ NamesAreLatest'
<1> USE DEF SSEInv
<1>1. UNCHANGED <<sent, link, read, delivered>>
  BY DEF CallNext, ScanTooLong, ScanError, ScanEOF, StopReading, vars,
         backendVars
<1>2. SpansInv' /\ WholeEvents' /\ NamesAreLatest'
  BY <1>1 DEF SpansInv, WholeEvents, NamesAreLatest
<1>3. LocalInv'
  <2>1. CASE CallNext
    <3>1. /\ pc' = "scanning" /\ pc = "handling" /\ mark' = read
          /\ name' = 0 /\ data' = <<>>
      BY <2>1 DEF CallNext
    <3>2. /\ \A kind : Lines(sent', kind, Part') = {}
          /\ Ascending(data') /\ Range(data') = {}
      BY <1>1, <3>1 DEF Lines, Part, TypeOK, Ascending, Range
    <3>3. QED
      BY <1>1, <3>1, <3>2 DEF LocalInv
  <2>2. CASE ScanTooLong \/ ScanError \/ ScanEOF \/ StopReading
    BY <2>2 DEF ScanTooLong, ScanError, ScanEOF, StopReading, LocalInv
  <2>3. CASE UNCHANGED vars
    BY <2>3 DEF vars, LocalInv, Part
  <2>4. QED
    BY <2>1, <2>2, <2>3
<1>4. QED
  BY <1>2, <1>3

-----------------------------------------------------------------------------
LEMMA NextInv == SSEInv /\ [Next]_vars => SSEInv'
<1> SUFFICES ASSUME SSEInv, [Next]_vars PROVE SSEInv'
  OBVIOUS
<1>1. TypeOK'
  BY NextType DEF SSEInv
<1>2. \/ Backend
      \/ ScanName \/ ScanData \/ ScanOther
      \/ ScanBlank \/ ScanHalf
      \/ CallNext \/ ScanTooLong \/ ScanError \/ ScanEOF \/ StopReading
      \/ UNCHANGED vars
  BY DEF Next, Reader, Step, Terminated
<1>3. SpansInv' /\ LocalInv' /\ WholeEvents' /\ NamesAreLatest'
  BY <1>2, BackendInv, ScanKeeps, ReturnKeeps, OtherKeeps
<1>4. QED
  BY <1>1, <1>3 DEF SSEInv

THEOREM SSEInvariant == Spec => []SSEInv
BY InitInv, NextInv, PTL DEF Spec

(* The variables of the reader keep their types (sse.go 27-66).            *)
THEOREM SSETypeCorrect == Spec => []TypeOK
<1>1. SSEInv => TypeOK
  BY DEF SSEInv
<1>2. QED
  BY <1>1, SSEInvariant, PTL

(* Next returns whole events, in order, none lost, whatever lines a        *)
(* backend sends and wherever its connection ends (sse.go 27-66).          *)
THEOREM EventsAreWhole == Spec => []WholeEvents
<1>1. SSEInv => WholeEvents
  BY DEF SSEInv
<1>2. QED
  BY <1>1, SSEInvariant, PTL

(* An event has the last name sent since the event before it, which a      *)
(* block without data may have left, and none if none was sent             *)
(* (sse.go 27, 33-38, 42).                                                 *)
THEOREM NamesCorrect == Spec => []NamesAreLatest
<1>1. SSEInv => NamesAreLatest
  BY DEF SSEInv
<1>2. QED
  BY <1>1, SSEInvariant, PTL

-----------------------------------------------------------------------------
(* The frames among the first k lines of s.                                *)
Ends(s, n) ==
    /\ s[n] = "blank"
    /\ \E d \in 1..n : s[d] = "data" /\ \A b \in d..n - 1 : s[b] # "blank"

Frames(s, k) == {n \in 1..k : Ends(s, n)}

LEMMA FramesFinite ==
    ASSUME NEW s, NEW k \in Nat
    PROVE  IsFiniteSet(Frames(s, k)) /\ Cardinality(Frames(s, k)) \in Nat
<1>1. IsFiniteSet(1..k)
  BY FS_Interval
<1>2. IsFiniteSet(Frames(s, k))
  BY <1>1, FS_Subset DEF Frames
<1> QED
  BY <1>2, FS_CardinalityType

LEMMA SameFrames ==
    ASSUME NEW s, NEW t, NEW k \in Nat, \A n \in 1..k : s[n] = t[n]
    PROVE  Frames(s, k) = Frames(t, k)
<1>1. ASSUME NEW n \in 1..k PROVE Ends(s, n) <=> Ends(t, n)
  <2>1. \A d \in 1..n : s[d] = t[d]
    OBVIOUS
  <2>2. \A d \in 1..n : \A b \in d..n - 1 : b \in 1..n
    OBVIOUS
  <2> QED
    BY <2>1, <2>2 DEF Ends
<1> QED
  BY <1>1 DEF Frames

(* One line more is one frame more if it ends one.                         *)
LEMMA FramesNext ==
    ASSUME NEW s, NEW k \in Nat
    PROVE  Cardinality(Frames(s, k + 1))
              = Cardinality(Frames(s, k)) + (IF Ends(s, k + 1) THEN 1 ELSE 0)
<1>1. IsFiniteSet(Frames(s, k)) /\ Cardinality(Frames(s, k)) \in Nat
  BY FramesFinite
<1>2. \A n : n \in 1..(k + 1) <=> n \in 1..k \/ n = k + 1
  OBVIOUS
<1>3. k + 1 \notin Frames(s, k)
  BY DEF Frames
<1>4. CASE Ends(s, k + 1)
  <2>1. Frames(s, k + 1) = Frames(s, k) \cup {k + 1}
    BY <1>2, <1>4 DEF Frames
  <2>2. Cardinality(Frames(s, k) \cup {k + 1}) = Cardinality(Frames(s, k)) + 1
    BY <1>1, <1>3, FS_AddElement
  <2> QED
    BY <1>4, <2>1, <2>2
<1>5. CASE ~Ends(s, k + 1)
  <2>1. Frames(s, k + 1) = Frames(s, k)
    BY <1>2, <1>5 DEF Frames
  <2> QED
    BY <1>1, <1>5, <2>1
<1> QED
  BY <1>4, <1>5

-----------------------------------------------------------------------------
(* Where the frames that count end: with the first line too long.          *)
FirstLong(s, n) == n \in 1..Len(s) /\ s[n] = "long" /\ \A m \in 1..n - 1 : s[m] # "long"

UpToIn(s) ==
    IF "long" \in Range(s)
    THEN CHOOSE n \in DOMAIN s : s[n] = "long" /\ \A m \in 1..n - 1 : s[m] # "long"
    ELSE Len(s)

LEMMA ThereIsAFirstLong ==
    ASSUME NEW s \in Seq(Kinds), "long" \in Range(s)
    PROVE  \E n : FirstLong(s, n)
<1> DEFINE Long == {n \in 1..Len(s) : s[n] = "long"}
           R == OpToRel(<, Nat)
<1>1. Long \subseteq Nat /\ Long # {}
  BY DEF Range
<1>2. IsWellFoundedOn(R, Nat)
  BY NatLessThanWellFounded
<1>3. \A y, z \in Nat : y < z => <<y, z>> \in R
  BY DEF OpToRel
<1> HIDE DEF R
<1>4. \E n \in Long : \A m \in Long : ~(<<m, n>> \in R)
  <2> HIDE DEF Long
  <2> QED
    BY <1>1, <1>2, WFMin
<1>5. PICK n \in Long : \A m \in Long : ~(m < n)
  BY <1>1, <1>3, <1>4
<1>6. n \in 1..Len(s) /\ s[n] = "long"
  OBVIOUS
<1>7. \A m \in 1..n - 1 : s[m] # "long"
  <2>1. \A m \in 1..n - 1 : m \in 1..Len(s) /\ m < n
    BY <1>6
  <2> QED
    BY <1>5, <2>1
<1> QED
  BY <1>6, <1>7 DEF FirstLong

LEMMA UpToIsFirstLong ==
    ASSUME NEW s \in Seq(Kinds), NEW n, FirstLong(s, n)
    PROVE  UpToIn(s) = n
<1>1. DOMAIN s = 1..Len(s) /\ Len(s) \in Nat
  OBVIOUS
<1>2. n \in DOMAIN s /\ s[n] = "long" /\ "long" \in Range(s)
  BY <1>1 DEF FirstLong, Range
<1>3. ASSUME NEW k \in DOMAIN s, s[k] = "long", \A m \in 1..k - 1 : s[m] # "long"
      PROVE  k = n
  <2>1. n \notin 1..k - 1 /\ k \notin 1..n - 1
    BY <1>2, <1>3 DEF FirstLong
  <2> QED
    BY <1>1, <1>2, <2>1
<1> QED
  BY <1>2, <1>3 DEF UpToIn, FirstLong

(* Nothing that is sent after it counts.                                   *)
LEMMA LongRemains ==
    ASSUME NEW s \in Seq(Kinds), "long" \in Range(s), NEW k \in Kinds
    PROVE  /\ "long" \in Range(Append(s, k))
           /\ Frames(Append(s, k), UpToIn(Append(s, k))) = Frames(s, UpToIn(s))
<1>1. PICK n : FirstLong(s, n)
  BY ThereIsAFirstLong
<1>2. PICK t \in Seq(Kinds) : t = Append(s, k)
  <2>1. Append(s, k) \in Seq(Kinds)
    OBVIOUS
  <2> QED
    BY <2>1
<1>3. Len(t) = Len(s) + 1 /\ \A m \in 1..Len(s) : t[m] = s[m]
  BY <1>2
<1>4. FirstLong(t, n)
  BY <1>1, <1>3 DEF FirstLong
<1>5. UpToIn(s) = n /\ UpToIn(t) = n /\ n \in Nat
  BY <1>1, <1>4, UpToIsFirstLong DEF FirstLong
<1>6. \A m \in 1..n : t[m] = s[m]
  BY <1>1, <1>3 DEF FirstLong
<1>7. Frames(t, n) = Frames(s, n)
  BY <1>5, <1>6, SameFrames
<1>8. "long" \in Range(t)
  BY <1>4 DEF FirstLong, Range
<1> QED
  BY <1>2, <1>5, <1>7, <1>8

(* A line where none is too long.                                          *)
LEMMA LineSent ==
    ASSUME NEW s \in Seq(Kinds), "long" \notin Range(s), NEW k \in Kinds, NEW t, t = Append(s, k)
    PROVE  /\ "long" \in Range(t) <=> k = "long"
           /\ Cardinality(Frames(t, UpToIn(t)))
                 = Cardinality(Frames(s, UpToIn(s))) + (IF Ends(t, Len(t)) THEN 1 ELSE 0)
           /\ Ends(t, Len(t)) => k = "blank"
<1>1. PICK L \in Nat : L = Len(s)
  OBVIOUS
<1>2. /\ t \in Seq(Kinds) /\ Len(t) = L + 1 /\ t[L + 1] = k
      /\ \A m \in 1..L : t[m] = s[m]
      /\ DOMAIN t = 1..(L + 1) /\ DOMAIN s = 1..L
  BY <1>1
<1>3. "long" \in Range(t) <=> k = "long"
  BY <1>2 DEF Range
<1>4. UpToIn(t) = L + 1
  <2>1. CASE k = "long"
    <3>1. \A m \in 1..L : t[m] # "long"
      BY <1>2 DEF Range
    <3>2. FirstLong(t, L + 1)
      BY <1>2, <2>1, <3>1 DEF FirstLong
    <3> QED
      BY <1>2, <3>2, UpToIsFirstLong
  <2>2. CASE k # "long"
    BY <1>2, <1>3, <2>2 DEF UpToIn
  <2> QED
    BY <2>1, <2>2
<1>5. UpToIn(s) = L
  BY <1>1 DEF UpToIn
<1>6. Frames(t, L) = Frames(s, L)
  BY <1>2, SameFrames
<1>7. Cardinality(Frames(t, L + 1))
         = Cardinality(Frames(t, L)) + (IF Ends(t, L + 1) THEN 1 ELSE 0)
  BY FramesNext
<1>8. Ends(t, L + 1) => k = "blank"
  BY <1>2 DEF Ends
<1> QED
  BY <1>2, <1>3, <1>4, <1>5, <1>6, <1>7, <1>8


-----------------------------------------------------------------------------
(* The frames that were read are those that came out.                      *)
Half == IF HalfTaken THEN 1 ELSE 0
Taken == Len(delivered) - Half

FramesInv ==
    /\ \A n \in 1..read : sent[n] # "long"
    /\ Taken = Cardinality(Frames(sent, LastOf(delivered)))

(* Where the last event ended, and that nothing comes after a half frame.  *)
LEMMA LastEvent ==
    ASSUME SSEInv
    PROVE  /\ Len(delivered) \in Nat
           /\ delivered = <<>> <=> Len(delivered) = 0
           /\ LastOf(delivered) \in 0..read /\ read \in 0..Len(sent) /\ Len(sent) \in Nat
           /\ LastOf(delivered) > 0 => \/ sent[LastOf(delivered)] = "blank"
                                       \/ LastOf(delivered) = Len(sent)
           /\ HalfTaken => link = "eof" /\ LastOf(delivered) = Len(sent)
           /\ HalfTaken <=> delivered # <<>> /\ sent[LastOf(delivered)] # "blank"
<1>1. /\ Len(delivered) \in Nat /\ (delivered = <<>> <=> Len(delivered) = 0)
      /\ DOMAIN delivered = 1..Len(delivered)
      /\ read \in 0..Len(sent) /\ Len(sent) \in Nat
  BY DEF SSEInv, TypeOK
<1>2. CASE delivered = <<>>
  BY <1>1, <1>2 DEF LastOf, HalfTaken
<1>3. CASE delivered # <<>>
  <2>1. PICK i \in DOMAIN delivered : i = Len(delivered)
    BY <1>1, <1>3
  <2>2. LastOf(delivered) = delivered[i].last
    BY <1>3, <2>1 DEF LastOf
  <2>3. delivered[i].last \in 1..read
    BY DEF SSEInv, SpansInv
  <2>4. \/ sent[delivered[i].last] = "blank"
        \/ link = "eof" /\ delivered[i].last = Len(sent)
    BY DEF SSEInv, WholeEvents
  <2>5. HalfTaken <=> sent[delivered[i].last] # "blank"
    BY <1>3, <2>1 DEF HalfTaken
  <2> QED
    BY <1>1, <1>3, <2>2, <2>3, <2>4, <2>5
<1> QED
  BY <1>2, <1>3

(* No frame ends in the lines of an event that is not whole.               *)
LEMMA NoFrameWithin ==
    ASSUME SSEInv, pc = "scanning"
    PROVE  Frames(sent, read) = Frames(sent, LastOf(delivered))
<1>1. /\ mark = LastOf(delivered) /\ mark \in 0..read /\ read \in 0..Len(sent)
      /\ Len(sent) \in Nat
      /\ mark > 0 => sent[mark] = "blank" \/ mark = Len(sent)
  BY LastEvent DEF SSEInv, LocalInv
<1>2. /\ Range(data) = Lines(sent, "data", Part)
      /\ \A n \in Range(data) : \A b \in Lines(sent, "blank", Part) : b < n
  BY DEF SSEInv, LocalInv
<1>3. ASSUME NEW n \in (mark + 1)..read, Ends(sent, n) PROVE FALSE
  <2>1. PICK d \in 1..n : sent[d] = "data" /\ \A b \in d..n - 1 : sent[b] # "blank"
    BY <1>3 DEF Ends
  <2>2. sent[n] = "blank"
    BY <1>3 DEF Ends
  <2>3. CASE d > mark
    <3>1. d \in Lines(sent, "data", Part) /\ n \in Lines(sent, "blank", Part)
      BY <1>1, <2>1, <2>2, <2>3 DEF Lines, Part
    <3>2. n < d
      BY <1>2, <3>1
    <3> QED
      BY <1>1, <3>2
  <2>4. CASE d <= mark
    <3>1. mark > 0 /\ mark \in d..n - 1 /\ mark # Len(sent)
      BY <1>1, <2>4
    <3> QED
      BY <1>1, <2>1, <3>1
  <2> QED
    BY <1>1, <2>3, <2>4
<1>4. \A n : n \in 1..read <=> n \in 1..mark \/ n \in (mark + 1)..read
  BY <1>1
<1>5. Frames(sent, read) = Frames(sent, mark)
  BY <1>3, <1>4 DEF Frames
<1> QED
  BY <1>1, <1>5

(* The blank line after data ends a frame; the last line of a stream that  *)
(* has not ended its frame is no blank one.                                *)
LEMMA DataNotEnded ==
    ASSUME SSEInv, pc = "scanning", data # <<>>
    PROVE  /\ read < Len(sent) /\ sent[read + 1] = "blank" => Ends(sent, read + 1)
           /\ read > 0 /\ sent[read] # "blank"
           /\ ~HalfTaken
<1>1. /\ mark = LastOf(delivered) /\ mark \in 0..read /\ read \in 0..Len(sent)
      /\ Len(sent) \in Nat /\ (HalfTaken => mark = Len(sent))
  BY LastEvent DEF SSEInv, LocalInv
<1>2. /\ Range(data) = Lines(sent, "data", Part)
      /\ \A n \in Range(data) : \A b \in Lines(sent, "blank", Part) : b < n
  BY DEF SSEInv, LocalInv
<1>3. PICK d \in (mark + 1)..read : d \in Range(data) /\ sent[d] = "data"
  <2>1. PICK d \in (mark + 1)..read : d \in Range(data)
    BY DEF Range, SSEInv, TypeOK
  <2>2. sent[d] = "data"
    BY <1>2, <2>1 DEF Lines
  <2> QED
    BY <2>1, <2>2
<1>4. \A b \in d..read : sent[b] # "blank"
  <2>1. ASSUME NEW b \in d..read, sent[b] = "blank" PROVE FALSE
    <3>1. b \in Lines(sent, "blank", Part)
      BY <1>1, <2>1 DEF Lines, Part
    <3>2. b < d
      BY <1>2, <1>3, <3>1
    <3> QED
      BY <1>1, <3>2
  <2> QED
    BY <2>1
<1>5. sent[read + 1] = "blank" => Ends(sent, read + 1)
  <2>1. d \in 1..(read + 1) /\ (read + 1) - 1 = read
    BY <1>1
  <2> QED
    BY <1>3, <1>4, <2>1 DEF Ends
<1>6. read > 0 /\ sent[read] # "blank" /\ mark # Len(sent)
  BY <1>1, <1>4
<1> QED
  BY <1>1, <1>5, <1>6

LEMMA FramesInit == Init => FramesInv
<1> SUFFICES ASSUME Init PROVE FramesInv
  OBVIOUS
<1>1. read = 0 /\ delivered = <<>> /\ Len(<<>>) = 0
  BY DEF Init
<1>2. ~HalfTaken /\ LastOf(delivered) = 0
  BY <1>1 DEF HalfTaken, LastOf
<1>3. Frames(sent, 0) = {}
  BY DEF Frames
<1>4. Taken = 0
  BY <1>1, <1>2 DEF Taken, Half
<1> QED
  BY <1>1, <1>2, <1>3, <1>4, FS_EmptySet DEF FramesInv

(* What the steps do to the frames that are out.                           *)
LEMMA BackendTakes ==
    ASSUME SSEInv, Backend
    PROVE  /\ UNCHANGED <<HalfTaken, Taken, read, pc, delivered>>
           /\ \A n \in 1..read : sent'[n] = sent[n]
<1>1. /\ UNCHANGED <<read, pc, delivered>>
      /\ \A n \in 1..read : sent'[n] = sent[n]
  BY BackendKeeps, LastEvent DEF SSEInv
<1>2. PICK l \in 0..read : l = LastOf(delivered)
  BY LastEvent
<1>3. HalfTaken <=> delivered # <<>> /\ sent[l] # "blank"
  BY <1>2, LastEvent
<1>4. delivered # <<>> => l \in 1..read
  BY <1>2 DEF SSEInv, SpansInv, LastOf, TypeOK
<1>5. HalfTaken' <=> delivered # <<>> /\ sent'[l] # "blank"
  BY <1>1, <1>2 DEF HalfTaken, LastOf
<1>6. HalfTaken' <=> HalfTaken
  BY <1>1, <1>3, <1>4, <1>5
<1>7. HalfTaken \in BOOLEAN /\ HalfTaken' \in BOOLEAN
  BY DEF HalfTaken
<1>8. HalfTaken' = HalfTaken
  BY <1>6, <1>7
<1>9. Taken' = Taken
  BY <1>1, <1>8 DEF Taken, Half
<1> QED
  BY <1>1, <1>8, <1>9

LEMMA ReturnTakes ==
    ASSUME SSEInv, ScanBlank \/ ScanHalf
    PROVE  /\ LastOf(delivered') = read' /\ ~HalfTaken
           /\ ScanBlank => Taken' = Taken + 1 /\ ~HalfTaken'
           /\ ScanHalf => Taken' = Taken /\ HalfTaken'
<1>1. /\ pc = "scanning" /\ data # <<>> /\ UNCHANGED sent
      /\ delivered' = Append(delivered, [name |-> name, data |-> data,
                                         first |-> mark + 1, last |-> read'])
      /\ ScanBlank => sent[read'] = "blank"
      /\ ScanHalf => read' = read
  BY DEF ScanBlank, ScanHalf, Scan, AtEnd, ReturnEvent, HasData, backendVars
<1>2. PICK e : e = [name |-> name, data |-> data, first |-> mark + 1, last |-> read']
  OBVIOUS
<1>3. e.last = read' /\ delivered' = Append(delivered, e) /\ delivered \in Seq(EventRecord)
  BY <1>1, <1>2 DEF SSEInv, TypeOK
<1>4. /\ Len(delivered') = Len(delivered) + 1 /\ Len(delivered) \in Nat
      /\ delivered'[Len(delivered) + 1] = e /\ delivered' # <<>>
  BY <1>3
<1>5. LastOf(delivered') = read'
  BY <1>3, <1>4 DEF LastOf
<1>6. ~HalfTaken /\ sent[read] # "blank"
  BY <1>1, DataNotEnded
<1>7. HalfTaken' <=> sent[read'] # "blank"
  BY <1>1, <1>4, <1>5 DEF HalfTaken, LastOf
<1>8. Taken = Len(delivered)
  BY <1>4, <1>6 DEF Taken, Half
<1>9. Taken' = IF HalfTaken' THEN Len(delivered) ELSE Len(delivered) + 1
  BY <1>4 DEF Taken, Half
<1> QED
  BY <1>1, <1>5, <1>6, <1>7, <1>8, <1>9

(* The invariant holds after every step.                                   *)
LEMMA FramesNextInv == SSEInv /\ FramesInv /\ [Next]_vars => FramesInv'
<1> SUFFICES ASSUME SSEInv, FramesInv, [Next]_vars PROVE FramesInv'
  OBVIOUS
<1>2. CASE Backend
  <2>1. /\ UNCHANGED <<read, Taken, delivered>>
        /\ \A n \in 1..read : sent'[n] = sent[n]
    BY <1>2, BackendTakes
  <2>2. PICK l \in 0..read : l = LastOf(delivered)
    BY LastEvent
  <2>3. Frames(sent', l) = Frames(sent, l)
    <3>1. l \in Nat /\ \A n \in 1..l : sent'[n] = sent[n]
      BY <2>1, LastEvent
    <3> QED
      BY <3>1, SameFrames
  <2>4. LastOf(delivered') = l
    BY <2>1, <2>2
  <2> QED
    BY <2>1, <2>2, <2>3, <2>4 DEF FramesInv
<1>3. CASE ScanName \/ ScanData \/ ScanOther
  <2>1. read' = read + 1 /\ sent[read + 1] # "long" /\ UNCHANGED <<sent, delivered>>
    BY <1>3 DEF ScanName, ScanData, ScanOther, Scan, backendVars
  <2>2. Taken' = Taken /\ LastOf(delivered') = LastOf(delivered)
    BY <2>1 DEF Taken, Half, HalfTaken
  <2>3. \A n \in 1..read + 1 : n \in 1..read \/ n = read + 1
    BY LastEvent
  <2> QED
    BY <2>1, <2>2, <2>3 DEF FramesInv
<1>4. CASE ScanBlank
  <2>1. /\ pc = "scanning" /\ data # <<>> /\ read < Len(sent) /\ sent[read + 1] = "blank"
        /\ read' = read + 1 /\ UNCHANGED sent
    BY <1>4 DEF ScanBlank, Scan, HasData, backendVars
  <2>2. LastOf(delivered') = read + 1 /\ Taken' = Taken + 1
    BY <1>4, <2>1, ReturnTakes
  <2>3. Cardinality(Frames(sent, read + 1)) = Cardinality(Frames(sent, read)) + 1
    <3>1. Ends(sent, read + 1) /\ read \in Nat
      BY <2>1, DataNotEnded, LastEvent
    <3> QED
      BY <3>1, FramesNext
  <2>4. Cardinality(Frames(sent, read)) = Taken
    BY <2>1, NoFrameWithin DEF FramesInv
  <2>5. \A n \in 1..read + 1 : n \in 1..read \/ n = read + 1
    BY LastEvent
  <2>6. \A n \in 1..read' : sent'[n] # "long"
    BY <2>1, <2>5 DEF FramesInv
  <2> QED
    BY <2>1, <2>2, <2>3, <2>4, <2>6 DEF FramesInv
<1>5. CASE ScanHalf
  <2>1. pc = "scanning" /\ UNCHANGED <<sent, read>>
    BY <1>5 DEF ScanHalf, AtEnd, backendVars
  <2>2. LastOf(delivered') = read /\ Taken' = Taken
    BY <1>5, <2>1, ReturnTakes
  <2>3. Cardinality(Frames(sent, read)) = Taken
    BY <2>1, NoFrameWithin DEF FramesInv
  <2> QED
    BY <2>1, <2>2, <2>3 DEF FramesInv
<1>6. CASE UNCHANGED <<sent, read, delivered>>
  <2>1. Taken' = Taken
    BY <1>6 DEF Taken, Half, HalfTaken
  <2> QED
    BY <1>6, <2>1 DEF FramesInv
<1> QED
  BY <1>2, <1>3, <1>4, <1>5, <1>6
     DEF Next, Reader, Step, Terminated, vars, CallNext, ScanTooLong, ScanError,
         ScanEOF, StopReading, backendVars

LEMMA FramesInvariant == Spec => [](SSEInv /\ FramesInv)
BY InitInv, NextInv, FramesInit, FramesNextInv, PTL DEF Spec

-----------------------------------------------------------------------------
(* The pipe, in terms of the lemmas above.                                 *)
In == Cardinality(Frames(sent, UpToIn(sent)))
Source == IF "long" \in Range(sent) \/ link = "cut" THEN "broken" ELSE link
Side == IF Over THEN pc ELSE "reading"

(* What a step does to it.                                                 *)
PipeStep ==
    \/ UNCHANGED <<In, Taken, HalfTaken, Source, Side>>
    \/ /\ Source = "open" /\ In' = In + 1
       /\ UNCHANGED <<Taken, HalfTaken, Source, Side>>
    \/ /\ Source = "open" /\ Source' \in {"eof", "broken"}
       /\ UNCHANGED <<In, Taken, HalfTaken, Side>>
    \/ /\ Side = "reading" /\ Taken < In /\ Taken' = Taken + 1
       /\ UNCHANGED <<In, HalfTaken, Source, Side>>
    \/ /\ Side = "reading" /\ Taken = In /\ Source = "eof" /\ ~HalfTaken /\ HalfTaken' = TRUE
       /\ UNCHANGED <<In, Taken, Source, Side>>
    \/ /\ Side = "reading" /\ Taken = In /\ Source # "open"
       /\ Side' = IF Source = "eof" THEN "ended" ELSE "failed"
       /\ UNCHANGED <<In, Taken, HalfTaken, Source>>
    \/ /\ Side = "reading" /\ Side' = "stopped"
       /\ UNCHANGED <<In, Taken, HalfTaken, Source>>

(* All that the backend has sent is out when the reader is at its end.     *)
LEMMA AllOut ==
    ASSUME SSEInv, FramesInv, pc = "scanning",
           \/ read = Len(sent)
           \/ read < Len(sent) /\ sent[read + 1] = "long"
    PROVE  Taken = In /\ ("long" \in Range(sent) <=> read < Len(sent))
<1>1. /\ read \in 0..Len(sent) /\ Len(sent) \in Nat /\ sent \in Seq(Kinds)
      /\ DOMAIN sent = 1..Len(sent)
  BY LastEvent DEF SSEInv, TypeOK
<1>2. Taken = Cardinality(Frames(sent, read))
  BY NoFrameWithin DEF FramesInv
<1>3. \A n \in 1..read : sent[n] # "long"
  BY DEF FramesInv
<1>4. CASE read = Len(sent)
  <2>1. "long" \notin Range(sent)
    BY <1>1, <1>3, <1>4 DEF Range
  <2>2. UpToIn(sent) = read
    BY <1>4, <2>1 DEF UpToIn
  <2> QED
    BY <1>2, <1>4, <2>1, <2>2 DEF In
<1>5. CASE read < Len(sent) /\ sent[read + 1] = "long"
  <2>1. read + 1 \in 1..Len(sent) /\ (read + 1) - 1 = read /\ read \in Nat
    <3>1. read \in 0..Len(sent) /\ Len(sent) \in Nat
      BY <1>1
    <3> QED
      BY <1>5, <3>1
  <2>2. FirstLong(sent, read + 1)
    BY <1>3, <1>5, <2>1 DEF FirstLong
  <2>3. UpToIn(sent) = read + 1
    BY <1>1, <2>2, UpToIsFirstLong
  <2>4. ~Ends(sent, read + 1)
    BY <1>5 DEF Ends
  <2>5. Cardinality(Frames(sent, read + 1)) = Cardinality(Frames(sent, read)) + 0
    BY <2>1, <2>4, FramesNext
  <2>6. Cardinality(Frames(sent, read)) \in Nat
    BY <2>1, FramesFinite
  <2>7. "long" \in Range(sent)
    BY <1>1, <1>5, <2>1 DEF Range
  <2> QED
    BY <1>2, <1>5, <2>3, <2>5, <2>6, <2>7 DEF In
<1> QED
  BY <1>4, <1>5

(* No more is out than is in.                                              *)
LEMMA FramesAhead ==
    ASSUME SSEInv, FramesInv, pc = "scanning", data # <<>>,
           read < Len(sent), sent[read + 1] = "blank"
    PROVE  Taken < In
<1>1. /\ read \in Nat /\ Len(sent) \in Nat /\ sent \in Seq(Kinds) /\ read + 1 \in 1..Len(sent)
  BY LastEvent DEF SSEInv, TypeOK
<1>2. Taken = Cardinality(Frames(sent, read)) /\ Cardinality(Frames(sent, read)) \in Nat
  BY <1>1, NoFrameWithin, FramesFinite DEF FramesInv
<1>3. Ends(sent, read + 1)
  BY DataNotEnded
<1>4. Cardinality(Frames(sent, read + 1)) = Cardinality(Frames(sent, read)) + 1
  BY <1>1, <1>3, FramesNext
<1>5. UpToIn(sent) \in Nat /\ read + 1 <= UpToIn(sent)
  <2>1. CASE "long" \in Range(sent)
    <3>1. PICK n : FirstLong(sent, n)
      BY <1>1, <2>1, ThereIsAFirstLong
    <3>2. UpToIn(sent) = n
      BY <1>1, <3>1, UpToIsFirstLong
    <3>3. n \in 1..Len(sent) /\ n \notin 1..read /\ n # read + 1
      BY <3>1 DEF FirstLong, FramesInv
    <3> QED
      BY <1>1, <3>2, <3>3
  <2>2. CASE "long" \notin Range(sent)
    BY <1>1, <2>2 DEF UpToIn
  <2> QED
    BY <2>1, <2>2
<1>6. Frames(sent, read + 1) \in SUBSET Frames(sent, UpToIn(sent))
  <2>1. \A n \in 1..(read + 1) : n \in 1..UpToIn(sent)
    BY <1>1, <1>5
  <2> QED
    BY <2>1 DEF Frames
<1>7. /\ IsFiniteSet(Frames(sent, UpToIn(sent)))
      /\ Cardinality(Frames(sent, UpToIn(sent))) \in Nat
  BY <1>5, FramesFinite
<1>8. Cardinality(Frames(sent, read + 1)) <= Cardinality(Frames(sent, UpToIn(sent)))
  BY <1>6, <1>7, FS_Subset
<1> QED
  BY <1>2, <1>4, <1>7, <1>8 DEF In

LEMMA PipeNext ==
    ASSUME SSEInv, FramesInv, [Next]_vars
    PROVE  PipeStep
<1>1. sent \in Seq(Kinds) /\ Len(sent) \in Nat
  BY DEF SSEInv, TypeOK
<1>2. In \in Nat
  <2>1. CASE "long" \in Range(sent)
    <3>1. PICK n : FirstLong(sent, n)
      BY <1>1, <2>1, ThereIsAFirstLong
    <3>2. UpToIn(sent) = n /\ n \in Nat
      BY <1>1, <3>1, UpToIsFirstLong DEF FirstLong
    <3> QED
      BY <3>2, FramesFinite DEF In
  <2>2. CASE "long" \notin Range(sent)
    <3>1. UpToIn(sent) \in Nat
      BY <1>1, <2>2 DEF UpToIn
    <3> QED
      BY <3>1, FramesFinite DEF In
  <2> QED
    BY <2>1, <2>2
<1>3. CASE Backend
  <2>1. UNCHANGED <<HalfTaken, Taken>> /\ Side' = Side
    BY <1>3, BackendTakes DEF Side, Over
  <2>2. link = "open"
    BY <1>3 DEF Backend, SendLine, GoDown, Sending
  <2>3. /\ link' \in {"open", "eof", "cut"}
        /\ \/ sent' = sent /\ link' # "open"
           \/ \E k \in Kinds : sent' = Append(sent, k)
                               /\ (link' # "open" => k \notin {"long", "blank"})
    <3>1. CASE SendLine
      BY <2>2, <3>1 DEF SendLine
    <3>2. CASE GoDown
      BY <3>2 DEF GoDown, Kinds
    <3> QED
      BY <1>3, <3>1, <3>2 DEF Backend
  <2>4. CASE sent' = sent /\ link' # "open"
    <3>1. In' = In
      BY <2>4 DEF In
    <3>2. (Source = "open" /\ Source' \in {"eof", "broken"}) \/ Source' = Source
      BY <2>2, <2>3, <2>4 DEF Source
    <3> QED
      BY <2>1, <3>1, <3>2 DEF PipeStep
  <2>5. CASE \E k \in Kinds : sent' = Append(sent, k)
                              /\ (link' # "open" => k \notin {"long", "blank"})
    <3>1. PICK k \in Kinds : sent' = Append(sent, k)
                             /\ (link' # "open" => k \notin {"long", "blank"})
      BY <2>5
    <3>2. CASE "long" \in Range(sent)
      <4>1. "long" \in Range(sent') /\ In' = In
        BY <1>1, <3>1, <3>2, LongRemains DEF In
      <4>2. Source' = Source
        BY <3>2, <4>1 DEF Source
      <4> QED
        BY <2>1, <4>1, <4>2 DEF PipeStep
    <3>3. CASE "long" \notin Range(sent)
      <4>1. /\ "long" \in Range(sent') <=> k = "long"
            /\ In' = In + (IF Ends(sent', Len(sent')) THEN 1 ELSE 0)
            /\ Ends(sent', Len(sent')) => k = "blank"
        BY <1>1, <3>1, <3>3, LineSent DEF In
      <4>2. Source = "open"
        BY <2>2, <3>3 DEF Source
      <4>3. CASE link' # "open"
        <5>1. In' = In
          BY <1>2, <3>1, <4>1, <4>3
        <5>2. Source' \in {"eof", "broken"}
          BY <2>3, <4>3 DEF Source
        <5> QED
          BY <2>1, <4>2, <5>1, <5>2 DEF PipeStep
      <4>4. CASE link' = "open" /\ k = "long"
        <5>1. In' = In
          BY <1>2, <4>1, <4>4
        <5>2. Source' = "broken"
          BY <4>1, <4>4 DEF Source
        <5> QED
          BY <2>1, <4>2, <5>1, <5>2 DEF PipeStep
      <4>5. CASE link' = "open" /\ k # "long"
        <5>1. In' = In \/ In' = In + 1
          BY <1>2, <4>1
        <5>2. Source' = Source
          BY <4>1, <4>2, <4>5 DEF Source
        <5> QED
          BY <2>1, <4>2, <5>1, <5>2 DEF PipeStep
      <4> QED
        BY <4>3, <4>4, <4>5
    <3> QED
      BY <3>2, <3>3
  <2> QED
    BY <2>3, <2>4, <2>5
<1>4. ASSUME UNCHANGED <<sent, link>> PROVE In' = In /\ Source' = Source
  BY <1>4 DEF In, Source
<1>5. ASSUME UNCHANGED <<sent, delivered>> PROVE UNCHANGED <<Taken, HalfTaken>>
  BY <1>5 DEF Taken, Half, HalfTaken
<1>6. CASE CallNext \/ ScanName \/ ScanData \/ ScanOther \/ UNCHANGED vars
  <2>1. UNCHANGED <<sent, link, delivered>>
    BY <1>6 DEF CallNext, ScanName, ScanData, ScanOther, vars, backendVars
  <2>2. Side' = Side
    BY <1>6 DEF CallNext, ScanName, ScanData, ScanOther, Scan, vars, Side, Over
  <2> QED
    BY <1>4, <1>5, <2>1, <2>2 DEF PipeStep
<1>7. CASE StopReading
  <2>1. UNCHANGED <<sent, link, delivered>>
    BY <1>7 DEF StopReading, backendVars
  <2>2. Side = "reading" /\ Side' = "stopped"
    BY <1>7 DEF StopReading, Side, Over
  <2> QED
    BY <1>4, <1>5, <2>1, <2>2 DEF PipeStep
<1>8. CASE ScanTooLong \/ ScanError \/ ScanEOF
  <2>1. /\ UNCHANGED <<sent, link, delivered>> /\ pc = "scanning"
        /\ \/ read < Len(sent) /\ sent[read + 1] = "long" /\ pc' = "failed"
           \/ read = Len(sent) /\ link = "cut" /\ pc' = "failed"
           \/ read = Len(sent) /\ link = "eof" /\ pc' = "ended"
    BY <1>8 DEF ScanTooLong, ScanError, ScanEOF, AtEnd, backendVars
  <2>2. Taken = In /\ ("long" \in Range(sent) <=> read < Len(sent))
    BY <2>1, AllOut
  <2>3. Side = "reading" /\ Side' = pc'
    BY <2>1 DEF Side, Over
  <2>4. /\ pc' = "failed" => Source = "broken"
        /\ pc' = "ended" => Source = "eof"
    BY <1>1, <2>1, <2>2 DEF Source
  <2> QED
    BY <1>4, <1>5, <2>1, <2>2, <2>3, <2>4 DEF PipeStep
<1>9. CASE ScanBlank
  <2>1. /\ UNCHANGED <<sent, link>> /\ pc = "scanning" /\ pc' = "handling" /\ data # <<>>
        /\ read < Len(sent) /\ sent[read + 1] = "blank"
    BY <1>9 DEF ScanBlank, Scan, ReturnEvent, HasData, backendVars
  <2>2. Taken' = Taken + 1 /\ ~HalfTaken /\ ~HalfTaken'
    BY <1>9, ReturnTakes
  <2>3. HalfTaken' = HalfTaken
    <3>1. HalfTaken \in BOOLEAN /\ HalfTaken' \in BOOLEAN
      BY DEF HalfTaken
    <3> QED
      BY <2>2, <3>1
  <2>4. Taken < In
    BY <2>1, FramesAhead
  <2>5. Side = "reading" /\ Side' = "reading"
    BY <2>1 DEF Side, Over
  <2> QED
    BY <1>4, <2>1, <2>2, <2>3, <2>4, <2>5 DEF PipeStep
<1>10. CASE ScanHalf
  <2>1. /\ UNCHANGED <<sent, link>> /\ pc = "scanning" /\ pc' = "handling"
        /\ read = Len(sent) /\ link = "eof"
    BY <1>10 DEF ScanHalf, AtEnd, ReturnEvent, backendVars
  <2>2. Taken' = Taken /\ ~HalfTaken /\ HalfTaken'
    BY <1>10, ReturnTakes
  <2>3. HalfTaken' = TRUE
    <3>1. HalfTaken' \in BOOLEAN
      BY DEF HalfTaken
    <3> QED
      BY <2>2, <3>1
  <2>4. Taken = In /\ "long" \notin Range(sent)
    BY <1>1, <2>1, AllOut
  <2>5. Source = "eof"
    BY <2>1, <2>4 DEF Source
  <2>6. Side = "reading" /\ Side' = "reading"
    BY <2>1 DEF Side, Over
  <2> QED
    BY <1>4, <2>1, <2>2, <2>3, <2>4, <2>5, <2>6 DEF PipeStep
<1> QED
  BY <1>3, <1>6, <1>7, <1>8, <1>9, <1>10 DEF Next, Reader, Step, Terminated

-----------------------------------------------------------------------------
LEMMA PipeInit == Init => Pipe!Init
<1> SUFFICES ASSUME Init PROVE Pipe!Init
  OBVIOUS
<1>1. sent = <<>> /\ link = "open" /\ pc = "handling" /\ delivered = <<>>
  BY DEF Init
<1>2. "long" \notin Range(sent) /\ UpTo = 0
  <2>1. DOMAIN <<>> = {} /\ Len(<<>>) = 0
    OBVIOUS
  <2> QED
    BY <1>1, <2>1 DEF Range, UpTo
<1>3. {n \in 1..UpTo : EndsFrame(n)} = {}
  BY <1>2
<1>4. Cardinality({n \in 1..UpTo : EndsFrame(n)}) = 0
  BY <1>3, FS_EmptySet
<1>5. HalfTaken = FALSE /\ Len(delivered) - (IF HalfTaken THEN 1 ELSE 0) = 0
  <2>1. HalfTaken = FALSE
    BY <1>1 DEF HalfTaken
  <2>2. Len(delivered) = 0
    BY <1>1
  <2>3. (IF HalfTaken THEN 1 ELSE 0) = 0
    BY <2>1
  <2>4. \A k : k = 0 => Len(delivered) - k = 0
    BY <2>2
  <2> QED
    BY <2>1, <2>3, <2>4
<1>6. (CASE "long" \in Range(sent) \/ link = "cut" -> "broken" [] OTHER -> link) = "open"
  BY <1>1, <1>2
<1>7. (IF Over THEN pc ELSE "reading") = "reading"
  BY <1>1 DEF Over
<1> QED
  BY <1>4, <1>5, <1>6, <1>7 DEF Pipe!Init

LEMMA PipeMapped == PipeStep => [Pipe!Next]_(Pipe!vars)
<1> SUFFICES ASSUME PipeStep PROVE [Pipe!Next]_(Pipe!vars)
  OBVIOUS
<1>1. Cardinality({n \in 1..UpTo : EndsFrame(n)}) = In
  BY DEF In, Frames, Ends, EndsFrame, UpTo, UpToIn
<1>2. Cardinality({n \in 1..UpTo : EndsFrame(n)})' = In'
  BY DEF In, Frames, Ends, EndsFrame, UpTo, UpToIn
<1>3. Len(delivered) - (IF HalfTaken THEN 1 ELSE 0) = Taken
  BY DEF Taken, Half
<1>4. (Len(delivered) - (IF HalfTaken THEN 1 ELSE 0))' = Taken'
  BY DEF Taken, Half
<1>5. (CASE "long" \in Range(sent) \/ link = "cut" -> "broken" [] OTHER -> link) = Source
  BY DEF Source
<1>6. (CASE "long" \in Range(sent) \/ link = "cut" -> "broken" [] OTHER -> link)' = Source'
  BY DEF Source
<1>7. (IF Over THEN pc ELSE "reading") = Side
  BY DEF Side
<1>8. (IF Over THEN pc ELSE "reading")' = Side'
  BY DEF Side
<1>9. CASE UNCHANGED <<In, Taken, HalfTaken, Source, Side>>
  BY <1>1, <1>2, <1>3, <1>4, <1>5, <1>6, <1>7, <1>8, <1>9 DEF Pipe!vars
<1>10. CASE /\ Source = "open" /\ In' = In + 1
            /\ UNCHANGED <<Taken, HalfTaken, Source, Side>>
  BY <1>1, <1>2, <1>3, <1>4, <1>5, <1>6, <1>7, <1>8, <1>10 DEF Pipe!Next, Pipe!Send
<1>11. CASE /\ Source = "open" /\ Source' \in {"eof", "broken"}
            /\ UNCHANGED <<In, Taken, HalfTaken, Side>>
  BY <1>1, <1>2, <1>3, <1>4, <1>5, <1>6, <1>7, <1>8, <1>11 DEF Pipe!Next, Pipe!GoDown
<1>12. CASE /\ Side = "reading" /\ Taken < In /\ Taken' = Taken + 1
            /\ UNCHANGED <<In, HalfTaken, Source, Side>>
  BY <1>1, <1>2, <1>3, <1>4, <1>5, <1>6, <1>7, <1>8, <1>12 DEF Pipe!Next, Pipe!Take
<1>13. CASE /\ Side = "reading" /\ Taken = In /\ Source = "eof" /\ ~HalfTaken
            /\ HalfTaken' = TRUE /\ UNCHANGED <<In, Taken, Source, Side>>
  BY <1>1, <1>2, <1>3, <1>4, <1>5, <1>6, <1>7, <1>8, <1>13 DEF Pipe!Next, Pipe!TakeHalf
<1>14. CASE /\ Side = "reading" /\ Taken = In /\ Source # "open"
            /\ Side' = IF Source = "eof" THEN "ended" ELSE "failed"
            /\ UNCHANGED <<In, Taken, HalfTaken, Source>>
  BY <1>1, <1>2, <1>3, <1>4, <1>5, <1>6, <1>7, <1>8, <1>14 DEF Pipe!Next, Pipe!End
<1>15. CASE /\ Side = "reading" /\ Side' = "stopped"
            /\ UNCHANGED <<In, Taken, HalfTaken, Source>>
  BY <1>1, <1>2, <1>3, <1>4, <1>5, <1>6, <1>7, <1>8, <1>15 DEF Pipe!Next, Pipe!Stop
<1> QED
  BY <1>9, <1>10, <1>11, <1>12, <1>13, <1>14, <1>15 DEF PipeStep

(* Frames come out whole, once each and in the order in which they went    *)
(* in, the half one last and only if the connection was closed in good     *)
(* order, and the reader learns how it ended (sse.go 27-66).               *)
THEOREM FramesAreKept == Spec => Pipe!Safety
<1>1. Init => Pipe!Init
  BY PipeInit
<1>2. SSEInv /\ FramesInv /\ [Next]_vars => PipeStep
  BY PipeNext
<1>3. PipeStep => [Pipe!Next]_(Pipe!vars)
  BY PipeMapped
<1> QED
  BY <1>1, <1>2, <1>3, FramesInvariant, PTL DEF Spec, Pipe!Safety

=============================================================================
