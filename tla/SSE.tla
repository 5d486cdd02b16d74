-------------------------------- MODULE SSE --------------------------------
(***************************************************************************)
(* SSEReader (internal/stream/sse.go): a backend's lines on one side, the  *)
(* calls of Next by a decoder on the other.                                *)
(*                                                                         *)
(* A line is known by its position, so a name is the position of an        *)
(* "event: " line and the data of an event the positions of its "data"     *)
(* lines, in the order in which Next joins them.  "other" is every line    *)
(* Next does not look at: comments, ids, and "data:x" without a space.     *)
(* "long" is a line over the scanner's limit of one megabyte.  The last    *)
(* line may be cut short; bufio gives it out like any other.               *)
(***************************************************************************)
EXTENDS Naturals, Sequences, FiniteSets, Functions

CONSTANT MaxLines       \* lines a backend sends at most

ASSUME SSEAssumption == MaxLines \in Nat

Kinds == {"name", "data", "other", "blank", "long"}

VARIABLES
    sent,       \* kinds of the lines the backend has sent
    link,       \* its connection: open, eof or cut
    read,       \* lines the scanner has given out
    pc,         \* of the decoder: handling an event, scanning (in Next),
                \* ended (io.EOF), failed or stopped
    mark,       \* lines read when Next was called
    name,       \* event.Event of this call, 0 if empty
    data,       \* event.Data of this call
    delivered   \* events Next has returned

vars == <<sent, link, read, pc, mark, name, data, delivered>>
backendVars == <<sent, link>>

Init ==
    /\ sent = <<>>
    /\ link = "open"
    /\ read = 0
    /\ pc = "handling"
    /\ mark = 0
    /\ name = 0
    /\ data = <<>>
    /\ delivered = <<>>

-----------------------------------------------------------------------------
(* The backend.                                                            *)

Sending == link = "open" /\ Len(sent) < MaxLines

SendLine ==
    /\ Sending
    /\ \E k \in Kinds : sent' = Append(sent, k)
    /\ UNCHANGED <<link, read, pc, mark, name, data, delivered>>

(* The connection ends, possibly within a line.                            *)
GoDown ==
    /\ link = "open"
    /\ link' \in {"eof", "cut"}
    /\ \/ UNCHANGED sent
       \/ Sending /\ \E k \in {"name", "data", "other"} : sent' = Append(sent, k)
    /\ UNCHANGED <<read, pc, mark, name, data, delivered>>

-----------------------------------------------------------------------------
(* Next.  Its locals are new in every call; a blank line ends the event    *)
(* only if it has data, so a name outlives a block without data.           *)

(* Variant: event is a field of the reader and its name is not reset.      *)
CallNextKeepingName ==
    /\ pc = "handling"
    /\ pc' = "scanning"
    /\ mark' = read
    /\ data' = <<>>
    /\ UNCHANGED <<backendVars, read, name, delivered>>

CallNext ==
    /\ pc = "handling"
    /\ pc' = "scanning"
    /\ mark' = read
    /\ name' = 0
    /\ data' = <<>>
    /\ UNCHANGED <<backendVars, read, delivered>>

HasData == data # <<>>

Scan(kind) ==
    /\ pc = "scanning"
    /\ read < Len(sent)
    /\ sent[read + 1] = kind
    /\ read' = read + 1

ReturnEvent ==
    /\ pc' = "handling"
    /\ delivered' = Append(delivered,
           [name |-> name, data |-> data, first |-> mark + 1, last |-> read'])

(* Variant: the first name of a block counts.                              *)
ScanNameOnce ==
    /\ Scan("name")
    /\ name' = IF name = 0 THEN read' ELSE name
    /\ UNCHANGED <<backendVars, pc, mark, data, delivered>>

ScanName ==
    /\ Scan("name")
    /\ name' = read'
    /\ UNCHANGED <<backendVars, pc, mark, data, delivered>>

(* Variant: event.Data = instead of event.Data +=.                         *)
ScanDataReplacing ==
    /\ Scan("data")
    /\ data' = <<read'>>
    /\ UNCHANGED <<backendVars, pc, mark, name, delivered>>

ScanData ==
    /\ Scan("data")
    /\ data' = Append(data, read')
    /\ UNCHANGED <<backendVars, pc, mark, name, delivered>>

ScanOther ==
    /\ Scan("other") \/ (Scan("blank") /\ ~HasData)
    /\ UNCHANGED <<backendVars, pc, mark, name, data, delivered>>

ScanBlank ==
    /\ Scan("blank")
    /\ HasData
    /\ ReturnEvent
    /\ UNCHANGED <<backendVars, mark, name, data>>

ScanTooLong ==
    /\ pc = "scanning"
    /\ read < Len(sent)
    /\ sent[read + 1] = "long"
    /\ pc' = "failed"
    /\ UNCHANGED <<backendVars, read, mark, name, data, delivered>>

AtEnd(how) == pc = "scanning" /\ read = Len(sent) /\ link = how

ScanError ==
    /\ AtEnd("cut")
    /\ pc' = "failed"
    /\ UNCHANGED <<backendVars, read, mark, name, data, delivered>>

ScanEOF ==
    /\ AtEnd("eof")
    /\ ~HasData
    /\ pc' = "ended"
    /\ UNCHANGED <<backendVars, read, mark, name, data, delivered>>

(* Variant: the scanner's error is not asked for.                          *)
ScanHalfAtAnyEnd ==
    /\ AtEnd("eof") \/ AtEnd("cut")
    /\ HasData
    /\ UNCHANGED read
    /\ ReturnEvent
    /\ UNCHANGED <<backendVars, mark, name, data>>

ScanHalf ==
    /\ AtEnd("eof")
    /\ HasData
    /\ UNCHANGED read
    /\ ReturnEvent
    /\ UNCHANGED <<backendVars, mark, name, data>>

(* The decoder has had its terminal marker, or HandleStream has failed.    *)
StopReading ==
    /\ pc = "handling" /\ delivered # <<>>
    /\ pc' = "stopped"
    /\ UNCHANGED <<backendVars, read, mark, name, data, delivered>>

Over == pc \in {"ended", "failed", "stopped"}
Terminated == Over /\ UNCHANGED vars

Backend == SendLine \/ GoDown
Step == \/ ScanName \/ ScanData \/ ScanOther \/ ScanBlank \/ ScanTooLong
        \/ ScanError \/ ScanEOF \/ ScanHalf
Reader == CallNext \/ StopReading \/ Step

Next == Backend \/ Reader \/ Terminated

Spec == Init /\ [][Next]_vars

(* Nothing makes a backend send or close.  What it has sent is scanned,    *)
(* and the decoder comes back for the next event.                          *)
FairSpec == Spec /\ WF_vars(Reader)

-----------------------------------------------------------------------------
EventRecord == [name: Nat, data: Seq(Nat), first: Nat, last: Nat]

TypeOK ==
    /\ sent \in Seq(Kinds)
    /\ link \in {"open", "eof", "cut"}
    /\ read \in 0..Len(sent)
    /\ pc \in {"handling", "scanning", "ended", "failed", "stopped"}
    /\ mark \in 0..read
    /\ name \in {0} \cup (mark + 1)..read
    /\ data \in Seq((mark + 1)..read)
    /\ delivered \in Seq(EventRecord)

-----------------------------------------------------------------------------
(* Positions of the lines of one kind, and those of the last block, among  *)
(* the lines of an event.                                                  *)
Lines(s, kind, d) == {n \in d.first..d.last : s[n] = kind}
LastBlock(s, d) ==
    {n \in d.first..d.last :
        \A b \in Lines(s, "blank", d) : n <= b => b = d.last}

Ascending(s) == \A i, j \in DOMAIN s : i < j => s[i] < s[j]

IsWhole(s, d) ==
    /\ d.data # <<>> /\ Ascending(d.data)
    /\ Range(d.data) = Lines(s, "data", d)
    /\ Range(d.data) \subseteq LastBlock(s, d)

(* Every event is one block with data, whole: it has all data lines since  *)
(* the event before it, in their order, and they are of one block, which   *)
(* ended in a blank line, or with the stream closed in good order.         *)
WholeEvents ==
    \A i \in DOMAIN delivered :
        LET d == delivered[i]
        IN  /\ d.first = IF i = 1 THEN 1 ELSE delivered[i - 1].last + 1
            /\ IsWhole(sent, d)
            /\ \/ sent[d.last] = "blank"
               \/ link = "eof" /\ d.last = Len(sent) /\ i = Len(delivered)

HasLatestName(s, d) ==
    LET names == Lines(s, "name", d)
    IN  IF names = {} THEN d.name = 0
        ELSE d.name \in names /\ \A n \in names : n <= d.name

(* The name of an event is the last one the backend has sent since the     *)
(* event before it, and no name if it has sent none: its own block's, if   *)
(* that has one, else one that a block without data has left, which the    *)
(* standard would drop; never an earlier event's.                          *)
NamesAreLatest == \A i \in DOMAIN delivered : HasLatestName(sent, delivered[i])

-----------------------------------------------------------------------------
(* The reader is a FramePipe.  A frame is in when the blank line is sent   *)
(* that ends a block with data; a line too long breaks the pipe.           *)
UpTo == IF "long" \in Range(sent)
        THEN CHOOSE n \in DOMAIN sent :
                 sent[n] = "long" /\ \A m \in 1..n - 1 : sent[m] # "long"
        ELSE Len(sent)

EndsFrame(n) ==
    /\ sent[n] = "blank"
    /\ \E d \in 1..n : sent[d] = "data" /\ \A b \in d..n - 1 : sent[b] # "blank"

HalfTaken == delivered # <<>> /\ sent[delivered[Len(delivered)].last] # "blank"

Pipe == INSTANCE FramePipe
          WITH sent <- Cardinality({n \in 1..UpTo : EndsFrame(n)}),
               taken <- Len(delivered) - (IF HalfTaken THEN 1 ELSE 0),
               half <- HalfTaken,
               source <- CASE "long" \in Range(sent) \/ link = "cut" -> "broken"
                           [] OTHER -> link,
               reader <- IF Over THEN pc ELSE "reading"

(* The lines become frames as the rest of the gateway takes them, also in  *)
(* time: a frame that is in comes out though nothing follows it, and a     *)
(* connection that is down ends the reading.                               *)
KeepsFramePipe == Pipe!Spec

=============================================================================
