------------------------------ MODULE EventStream ------------------------------
(***************************************************************************)
(* A bridge's alertStream connection to one terminal: opening it with      *)
(* backoff, and the two incremental parsers that cut the byte stream into  *)
(* event documents.  The network decides where a chunk ends; a parser goes *)
(* through a chunk in a loop that nothing interrupts.  Characters are the  *)
(* ones the parsers look at: braces, a quote q and an escape e; a boundary *)
(* is the two characters - b and n is the blank line that ends the headers *)
(* of a part.                                                              *)
(***************************************************************************)
EXTENDS Integers, Sequences

CONSTANTS
    Texts,           \* what a terminal may send on a connection, for each mode
    MaxBuffer,       \* characters a parser holds at most (1 MiB)
    KeepTail,        \* characters kept of a buffer without boundary (1024)
    KeepAlives,      \* documents that are the terminal's keep-alive
    MaxConnections   \* bound: connections of one behaviour

Chars == {"{", "}", "q", "e", "-", "b", "n"}

ASSUME StreamAssumption ==
    /\ Texts \in [{"bare", "multipart"} -> SUBSET Seq(Chars)] /\ MaxConnections \in Nat
    /\ KeepTail \in Nat \ {0} /\ MaxBuffer \in Nat /\ KeepTail <= MaxBuffer

VARIABLES
    link,            \* down, up, feeding (the parser's loop runs on a chunk)
    wait,            \* backoff of the loop, in units of 5 s
    mode,            \* multipart or bare
    carried,         \* all the terminal sends on this connection
    taken,           \* how much of it has been handed to the parser
    parser,          \* the parser of this connection
    queued,          \* documents handed to queueEvent on this connection
    overflowed,      \* history: the parser threw an unfinished document away
    connections

streamVars == <<link, wait, mode, carried, taken, parser, queued, overflowed, connections>>

Delimiter == <<"-", "b">>
Idle == [buffer |-> <<>>, scanned |-> 0, depth |-> 0, start |-> -1, inString |-> FALSE, escaped |-> FALSE]
isStreamHeartbeat(document) == document \in KeepAlives
\* A keep-alive is not an event.
onDocument(documents, d) == IF isStreamHeartbeat(d) THEN documents ELSE Append(documents, d)

StreamInit ==
    /\ link = "down" /\ wait = 1 /\ mode = "bare" /\ carried = <<>> /\ taken = 0
    /\ parser = Idle /\ queued = <<>> /\ overflowed = FALSE /\ connections = 0

-----------------------------------------------------------------------------
(* The scanner of bare JSON; positions count from 0, as in the code. *)

Scanning == link = "feeding" /\ mode = "bare" /\ parser.scanned < Len(parser.buffer)
Char == parser.buffer[parser.scanned + 1]
loopVars == <<link, wait, mode, carried, taken, overflowed, connections>>

ScanOutside ==
    /\ Scanning /\ parser.depth = 0
    /\ parser' = [parser EXCEPT !.scanned = @ + 1, !.depth = IF Char = "{" THEN 1 ELSE 0,
                                !.start = IF Char = "{" THEN parser.scanned ELSE @]
    /\ UNCHANGED <<queued, loopVars>>

ScanString ==
    /\ Scanning /\ parser.depth > 0 /\ parser.inString
    /\ parser' = [parser EXCEPT !.scanned = @ + 1, !.escaped = ~@ /\ Char = "e",
                                !.inString = parser.escaped \/ Char # "q"]
    /\ UNCHANGED <<queued, loopVars>>

Nesting(ch) == CASE ch = "{" -> 1 [] ch = "}" -> -1 [] OTHER -> 0
ScanInside ==
    /\ Scanning /\ parser.depth > 0 /\ ~parser.inString /\ ~(parser.depth = 1 /\ Char = "}")
    /\ parser' = [parser EXCEPT !.scanned = @ + 1, !.depth = @ + Nesting(Char), !.inString = (Char = "q")]
    /\ UNCHANGED <<queued, loopVars>>

DocumentEnds ==
    /\ Scanning /\ parser.depth = 1 /\ ~parser.inString /\ Char = "}"
    /\ queued' = onDocument(queued, SubSeq(parser.buffer, parser.start + 1, parser.scanned + 1))
    /\ parser' = [parser EXCEPT !.buffer = SubSeq(@, parser.scanned + 2, Len(@)),
                                !.scanned = 0, !.depth = 0, !.start = -1]
    /\ UNCHANGED loopVars

\* Mutant: the cursor is not moved back with the bytes that were dropped.
TrimMutant(s) == IF s.depth = 0 THEN [s EXCEPT !.buffer = <<>>, !.scanned = 0, !.start = -1]
                 ELSE IF s.start > 0
                 THEN [s EXCEPT !.buffer = SubSeq(@, s.start + 1, Len(@)), !.start = 0]
                 ELSE s
\* Scanned bytes outside a document are dropped, an unfinished one moves to the front.
Trim(s) == IF s.depth = 0 THEN [s EXCEPT !.buffer = <<>>, !.scanned = 0, !.start = -1]
           ELSE IF s.start > 0
           THEN [s EXCEPT !.buffer = SubSeq(@, s.start + 1, Len(@)), !.scanned = @ - s.start, !.start = 0]
           ELSE s

\* The chunk is scanned; a document that outgrew the buffer goes.
ScanEnds ==
    /\ link = "feeding" /\ mode = "bare" /\ parser.scanned >= Len(parser.buffer)
    /\ LET left == Trim(parser)
       IN IF Len(left.buffer) > MaxBuffer THEN parser' = Idle /\ overflowed' = TRUE
          ELSE parser' = left /\ UNCHANGED overflowed
    /\ link' = "up"
    /\ UNCHANGED <<wait, mode, carried, taken, queued, connections>>

createJsonEventScanner == ScanOutside \/ ScanString \/ ScanInside \/ DocumentEnds \/ ScanEnds

-----------------------------------------------------------------------------
(* The parser of multipart streams. *)

Marks(text) == {i \in 1..(Len(text) - 1) : text[i] = Delimiter[1] /\ text[i + 1] = Delimiter[2]}
Least(S) == CHOOSE i \in S : \A j \in S : i <= j

\* The body of a part, when it has one that is a document.
extractPart(documents, raw) ==
    LET blanks == {i \in DOMAIN raw : raw[i] = "n"}
        body == IF blanks = {} THEN <<>> ELSE SubSeq(raw, Least(blanks) + 1, Len(raw))
    IN IF body # <<>> /\ Head(body) = "{" THEN onDocument(documents, body) ELSE documents

Several(marks) == \E i, j \in marks : i # j
\* The first part that both its boundaries have arrived for.
PartEnds ==
    /\ link = "feeding" /\ mode = "multipart" /\ Several(Marks(parser.buffer))
    /\ LET start == Least(Marks(parser.buffer))
           next == Least(Marks(parser.buffer) \ {start})
       IN /\ queued' = extractPart(queued, SubSeq(parser.buffer, start + 2, next - 1))
          /\ parser' = [parser EXCEPT !.buffer = SubSeq(@, next, Len(@))]
    /\ UNCHANGED loopVars

\* No part is complete; without a boundary only the end of the buffer can matter.
PartsEnd ==
    /\ link = "feeding" /\ mode = "multipart" /\ ~Several(Marks(parser.buffer))
    /\ parser' = [parser EXCEPT !.buffer =
           IF Marks(@) = {} /\ Len(@) > MaxBuffer THEN SubSeq(@, Len(@) - KeepTail + 1, Len(@)) ELSE @]
    /\ link' = "up"
    /\ UNCHANGED <<wait, mode, carried, taken, queued, overflowed, connections>>

createMultipartEventParser == PartEnds \/ PartsEnd

-----------------------------------------------------------------------------
(* The loop. *)

\* HTTP error, no body or a network error; the loop sleeps and doubles its wait.
OpenFails ==
    /\ link = "down" /\ wait' = (IF 2 * wait < 12 THEN 2 * wait ELSE 12)
    /\ UNCHANGED <<link, mode, carried, taken, parser, queued, overflowed, connections>>

openAlertStream ==
    /\ link = "down" /\ connections < MaxConnections
    /\ \E m \in {"bare", "multipart"} : mode' = m /\ carried' \in Texts[m]
    /\ link' = "up" /\ wait' = 1 /\ taken' = 0
    /\ parser' = Idle /\ queued' = <<>> /\ overflowed' = FALSE
    /\ connections' = connections + 1

\* A chunk of n characters is fed to the parser.
deviceEventLoop(n) ==
    /\ link = "up" /\ link' = "feeding"
    /\ parser' = [parser EXCEPT !.buffer = @ \o SubSeq(carried, taken + 1, taken + n)]
    /\ taken' = taken + n
    /\ UNCHANGED <<wait, mode, carried, queued, overflowed, connections>>

\* The terminal closes the stream or the connection breaks; an unfinished document
\* goes with the parser.
StreamCloses ==
    /\ link = "up" /\ link' = "down"
    /\ carried' = <<>> /\ taken' = 0 /\ parser' = Idle /\ queued' = <<>> /\ overflowed' = FALSE
    /\ UNCHANGED <<wait, mode, connections>>

StreamNext ==
    \/ OpenFails
    \/ openAlertStream
    \/ \E n \in 1..(Len(carried) - taken) : deviceEventLoop(n)
    \/ createJsonEventScanner
    \/ createMultipartEventParser
    \/ StreamCloses

StreamSpec == StreamInit /\ [][StreamNext]_streamVars

-----------------------------------------------------------------------------
(* What a stream says, read in one piece: from is where the document or the part *)
(* that is being read begins, docs are the documents before it.                  *)

\* Each bare document ends where the braces outside strings balance.
ReadsJson(s, text, i) ==
    CASE s.str -> [s EXCEPT !.esc = ~@ /\ text[i] = "e", !.str = s.esc \/ text[i] # "q"]
      [] ~s.str /\ text[i] = "q" -> [s EXCEPT !.str = (s.depth > 0)]
      [] ~s.str /\ text[i] = "{" -> [s EXCEPT !.depth = @ + 1, !.from = IF s.depth = 0 THEN i ELSE @]
      [] ~s.str /\ text[i] = "}" /\ s.depth > 0 ->
             [s EXCEPT !.depth = @ - 1,
                       !.docs = IF s.depth = 1 THEN onDocument(@, SubSeq(text, s.from, i)) ELSE @]
      [] OTHER -> s

\* Each part is between two boundaries in a row.
ReadsParts(s, text, i) ==
    IF i > 1 /\ i - 1 \in Marks(text)
    THEN [s EXCEPT !.from = i - 1,
                   !.docs = IF s.from = 0 THEN @ ELSE extractPart(@, SubSeq(text, s.from + 2, i - 2))]
    ELSE s

Unread == [depth |-> 0, str |-> FALSE, esc |-> FALSE, from |-> 0, docs |-> <<>>]
Reads(m, s, text, i) == IF m = "bare" THEN ReadsJson(s, text, i) ELSE ReadsParts(s, text, i)
Reading(m, text) ==
    LET after[i \in 0..Len(text)] == IF i = 0 THEN Unread ELSE Reads(m, after[i - 1], text, i)
    IN after

\* However the network cuts the stream into chunks, the events queued when a chunk has
\* been parsed are exactly the documents the bytes received so far contain, once and
\* in order, unless one document outgrew the buffer.
ChunkingIsInvisible ==
    link = "up" /\ ~overflowed => queued = Reading(mode, carried)[taken].docs
===============================================================================
