------------------------------ MODULE EdgeProofs ------------------------------
(***************************************************************************)
(* Proofs about what the edge of the estate reports: access events on      *)
(* their way to the gate history, the event ring of the Pi gate and its    *)
(* relay, what the tunnel Worker says it did, what the terminals' clocks   *)
(* are said to read, and what may still mark a removed terminal online.    *)
(***************************************************************************)
EXTENDS MCEdge, FiniteSetTheorems, SequenceTheorems, WellFoundedInduction, TLAPS

-----------------------------------------------------------------------------
(* Sequences that ascend *)

Ascending(s) == \A i, j \in DOMAIN s : i < j => s[i] < s[j]

\* Everything in s comes before everything in t.
AllBefore(s, t) == \A a \in ToSet(s), b \in ToSet(t) : a < b

LEMMA NothingInOrder ==
    /\ <<>> \in Seq(Nat) /\ Len(<<>>) = 0 /\ ToSet(<<>>) = {} /\ Ascending(<<>>)
    /\ \A s : AllBefore(<<>>, s) /\ AllBefore(s, <<>>)
  <1>1. ToSet(<<>>) = {}
    BY DEF ToSet
  <1> QED
    BY <1>1 DEF AllBefore, Ascending

\* The two parts of a sequence that is cut after its n-th item.
LEMMA CutInTwo ==
    ASSUME NEW s \in Seq(Nat), NEW n \in 0 .. Len(s)
    PROVE  LET f == SubSeq(s, 1, n)
               g == SubSeq(s, n + 1, Len(s))
           IN  /\ f \in Seq(Nat) /\ g \in Seq(Nat) /\ Len(f) = n /\ Len(g) = Len(s) - n
               /\ ToSet(f) \cup ToSet(g) = ToSet(s)
               /\ Ascending(s) => Ascending(f) /\ Ascending(g) /\ AllBefore(f, g)
  <1> DEFINE f == SubSeq(s, 1, n)
             g == SubSeq(s, n + 1, Len(s))
  <1>1. /\ Len(s) \in Nat /\ n \in Nat /\ n <= Len(s) /\ DOMAIN s = 1 .. Len(s)
        /\ \A i \in 1 .. Len(s) : s[i] \in Nat
    OBVIOUS
  <1>2. f \in Seq(Nat) /\ Len(f) = n /\ \A i \in 1 .. n : f[i] = s[i]
    BY <1>1, SubSeqProperties
  <1>3. g \in Seq(Nat) /\ Len(g) = Len(s) - n /\ \A i \in 1 .. Len(s) - n : g[i] = s[n + i]
    <2>1. /\ g \in Seq(Nat) /\ Len(g) = (IF n + 1 <= Len(s) THEN Len(s) - (n + 1) + 1 ELSE 0)
          /\ \A i \in 1 .. Len(s) - (n + 1) + 1 : g[i] = s[n + 1 + i - 1]
      <3>1. PICK m : m = n + 1
        OBVIOUS
      <3>2. m \in Nat /\ m \in 1 .. Len(s) + 1
        BY <1>1, <3>1
      <3>3. g \in Seq(Nat)
        BY <1>1, <3>1, <3>2, SubSeqProperties
      <3>4. Len(g) = (IF m <= Len(s) THEN Len(s) - m + 1 ELSE 0)
        BY <1>1, <3>1, <3>2, SubSeqProperties
      <3>5. \A i \in 1 .. Len(s) - m + 1 : g[i] = s[m + i - 1]
        BY <1>1, <3>1, <3>2, SubSeqProperties
      <3> QED
        BY <3>1, <3>3, <3>4, <3>5
    <2> HIDE DEF g
    <2>2. /\ Len(s) - (n + 1) + 1 = Len(s) - n
          /\ n + 1 <= Len(s) \/ Len(s) - n = 0
      <3>1. \A l \in Nat : n <= l => l - (n + 1) + 1 = l - n /\ (n + 1 <= l \/ l - n = 0)
        OBVIOUS
      <3> QED
        BY <1>1, <3>1
    <2>3. \A i \in 1 .. Len(s) - n : n + 1 + i - 1 = n + i
      BY <1>1
    <2>4. \A i \in 1 .. Len(s) - n : g[i] = s[n + 1 + i - 1]
      BY <2>1, <2>2
    <2> QED
      BY <2>1, <2>2, <2>3, <2>4
  <1> HIDE DEF f, g
  <1>4. DOMAIN f = 1 .. n /\ DOMAIN g = 1 .. Len(s) - n
    BY <1>2, <1>3
  <1>5. ToSet(f) \cup ToSet(g) = ToSet(s)
    <2>1. ASSUME NEW x \in ToSet(s) PROVE x \in ToSet(f) \cup ToSet(g)
      <3>1. PICK i \in 1 .. Len(s) : x = s[i]
        BY <1>1 DEF ToSet
      <3>2. CASE i <= n
        BY <1>1, <1>2, <1>4, <3>1, <3>2 DEF ToSet
      <3>3. CASE i > n
        <4>1. i - n \in 1 .. Len(s) - n /\ n + (i - n) = i
          BY <1>1, <3>3
        <4> QED
          BY <1>3, <1>4, <3>1, <4>1 DEF ToSet
      <3> QED
        BY <1>1, <3>2, <3>3
    <2>2. ToSet(f) \subseteq ToSet(s)
      BY <1>1, <1>2, <1>4 DEF ToSet
    <2>3. ToSet(g) \subseteq ToSet(s)
      <3>1. \A i \in 1 .. Len(s) - n : n + i \in 1 .. Len(s)
        BY <1>1
      <3> QED
        BY <1>1, <1>3, <1>4, <3>1 DEF ToSet
    <2> QED
      BY <2>1, <2>2, <2>3
  <1>6. ASSUME Ascending(s) PROVE Ascending(f) /\ Ascending(g) /\ AllBefore(f, g)
    <2>1. Ascending(f)
      BY <1>1, <1>2, <1>4, <1>6 DEF Ascending
    <2>2. \A i, j \in 1 .. Len(s) - n : i < j => n + i < n + j /\ n + i \in 1 .. Len(s) /\ n + j \in 1 .. Len(s)
      BY <1>1
    <2>3. Ascending(g)
      BY <1>1, <1>3, <1>4, <1>6, <2>2 DEF Ascending
    <2>4. \A i \in 1 .. n, j \in 1 .. Len(s) - n : i < n + j /\ i \in 1 .. Len(s) /\ n + j \in 1 .. Len(s)
      BY <1>1
    <2>5. AllBefore(f, g)
      <3> SUFFICES ASSUME NEW a \in ToSet(f), NEW b \in ToSet(g) PROVE a < b
        BY DEF AllBefore
      <3>1. PICK i \in 1 .. n : a = s[i]
        BY <1>2, <1>4 DEF ToSet
      <3>2. PICK j \in 1 .. Len(s) - n : b = s[n + j]
        BY <1>3, <1>4 DEF ToSet
      <3> QED
        BY <1>1, <1>6, <2>4, <3>1, <3>2 DEF Ascending
    <2> QED
      BY <2>1, <2>3, <2>5
  <1> QED
    BY <1>2, <1>3, <1>5, <1>6 DEF f, g

\* Two sequences, one after the other.
LEMMA Joined ==
    ASSUME NEW f \in Seq(Nat), NEW g \in Seq(Nat)
    PROVE  /\ f \o g \in Seq(Nat) /\ ToSet(f \o g) = ToSet(f) \cup ToSet(g)
           /\ Ascending(f) /\ Ascending(g) /\ AllBefore(f, g) => Ascending(f \o g)
  <1> DEFINE h == f \o g
  <1>1. /\ h \in Seq(Nat) /\ Len(h) = Len(f) + Len(g) /\ DOMAIN h = 1 .. Len(f) + Len(g)
        /\ DOMAIN f = 1 .. Len(f) /\ DOMAIN g = 1 .. Len(g) /\ Len(f) \in Nat /\ Len(g) \in Nat
    OBVIOUS
  <1>2. \A i \in DOMAIN h : h[i] = IF i <= Len(f) THEN f[i] ELSE g[i - Len(f)]
    OBVIOUS
  <1> HIDE DEF h
  <1>3. \A i \in DOMAIN h : /\ i <= Len(f) => i \in DOMAIN f
                            /\ i > Len(f) => i - Len(f) \in DOMAIN g
    BY <1>1
  <1>4. ToSet(h) = ToSet(f) \cup ToSet(g)
    <2>1. ToSet(h) \subseteq ToSet(f) \cup ToSet(g)
      <3>1. ASSUME NEW i \in DOMAIN h PROVE h[i] \in ToSet(f) \cup ToSet(g)
        <4>1. CASE i <= Len(f)
          BY <1>2, <1>3, <4>1 DEF ToSet
        <4>2. CASE i > Len(f)
          <5>1. h[i] = g[i - Len(f)]
            BY <1>1, <1>2, <4>2
          <5> QED
            BY <1>3, <4>2, <5>1 DEF ToSet
        <4> QED
          BY <1>1, <4>1, <4>2
      <3> QED
        BY <3>1 DEF ToSet
    <2>2. ToSet(f) \subseteq ToSet(h)
      <3>1. \A i \in DOMAIN f : i \in DOMAIN h /\ h[i] = f[i]
        BY <1>1, <1>2
      <3> QED
        BY <3>1 DEF ToSet
    <2>3. ToSet(g) \subseteq ToSet(h)
      <3>1. ASSUME NEW i \in DOMAIN g PROVE Len(f) + i \in DOMAIN h /\ h[Len(f) + i] = g[i]
        <4>1. Len(f) + i \in DOMAIN h /\ ~(Len(f) + i <= Len(f)) /\ (Len(f) + i) - Len(f) = i
          BY <1>1
        <4> QED
          BY <1>2, <4>1
      <3> QED
        BY <3>1 DEF ToSet
    <2> QED
      BY <2>1, <2>2, <2>3
  <1>5. ASSUME Ascending(f), Ascending(g), AllBefore(f, g), NEW i \in DOMAIN h, NEW j \in DOMAIN h, i < j
        PROVE  h[i] < h[j]
    <2>1. CASE j <= Len(f)
      BY <1>1, <1>2, <1>3, <1>5, <2>1 DEF Ascending
    <2>2. CASE i > Len(f)
      <3>0. i \in Int /\ j \in Int /\ j > Len(f)
        BY <1>1, <1>5, <2>2
      <3>1. i - Len(f) < j - Len(f) /\ i - Len(f) \in DOMAIN g /\ j - Len(f) \in DOMAIN g
        <4>1. i - Len(f) < j - Len(f)
          BY <1>1, <1>5, <3>0
        <4> QED
          BY <1>3, <2>2, <3>0, <4>1
      <3>2. g[i - Len(f)] < g[j - Len(f)]
        BY <1>5, <3>1 DEF Ascending
      <3> QED
        BY <1>2, <2>2, <3>0, <3>2
    <2>3. CASE i <= Len(f) /\ j > Len(f)
      <3>1. h[i] \in ToSet(f)
        BY <1>2, <1>3, <2>3 DEF ToSet
      <3>2. h[j] = g[j - Len(f)] /\ j - Len(f) \in DOMAIN g
        BY <1>1, <1>2, <1>3, <2>3
      <3>3. h[j] \in ToSet(g)
        BY <3>2 DEF ToSet
      <3> QED
        BY <1>5, <3>1, <3>3 DEF AllBefore
    <2> QED
      BY <1>1, <1>5, <2>1, <2>2, <2>3
  <1>6. Ascending(f) /\ Ascending(g) /\ AllBefore(f, g) => Ascending(h)
    BY <1>5 DEF Ascending
  <1> QED
    BY <1>1, <1>4, <1>6 DEF h

\* One item more, behind all others.
LEMMA Appended ==
    ASSUME NEW s \in Seq(Nat), NEW x \in Nat
    PROVE  /\ Append(s, x) \in Seq(Nat) /\ ToSet(Append(s, x)) = ToSet(s) \cup {x}
           /\ Ascending(s) /\ (\A y \in ToSet(s) : y < x) => Ascending(Append(s, x))
  <1>1. /\ Append(s, x) \in Seq(Nat) /\ Len(s) \in Nat /\ DOMAIN s = 1 .. Len(s)
        /\ DOMAIN Append(s, x) = 1 .. Len(s) + 1
        /\ Append(s, x)[Len(s) + 1] = x /\ \A i \in 1 .. Len(s) : Append(s, x)[i] = s[i]
    OBVIOUS
  <1>2. ToSet(Append(s, x)) = ToSet(s) \cup {x}
    <2>1. \A i \in 1 .. Len(s) + 1 : i \in 1 .. Len(s) \/ i = Len(s) + 1
      BY <1>1
    <2>2. \A i \in 1 .. Len(s) : i \in 1 .. Len(s) + 1
      BY <1>1
    <2>3. Len(s) + 1 \in 1 .. Len(s) + 1
      BY <1>1
    <2> QED
      BY <1>1, <2>1, <2>2, <2>3 DEF ToSet
  <1>3. ASSUME Ascending(s), \A y \in ToSet(s) : y < x PROVE Ascending(Append(s, x))
    <2> SUFFICES ASSUME NEW i \in 1 .. Len(s) + 1, NEW j \in 1 .. Len(s) + 1, i < j
                 PROVE  Append(s, x)[i] < Append(s, x)[j]
      BY <1>1 DEF Ascending
    <2>1. i \in 1 .. Len(s)
      BY <1>1
    <2>2. CASE j = Len(s) + 1
      BY <1>1, <1>3, <2>1, <2>2 DEF ToSet
    <2>3. CASE j \in 1 .. Len(s)
      BY <1>1, <1>3, <2>1, <2>3 DEF Ascending
    <2> QED
      BY <1>1, <2>2, <2>3
  <1> QED
    BY <1>1, <1>2, <1>3
-----------------------------------------------------------------------------
(* Access events *)

Message == [id : Nat, attempts : Nat, events : SUBSET (Nat \X Nat)]

PipeTypes ==
    /\ read \in Nat /\ posts \in Nat
    /\ pendingEvents \in Seq(Nat) /\ flight \in Seq(Nat)
    /\ queue \subseteq Message /\ deadLetters \subseteq Message
    /\ consumer \in [step : {"idle", "insert", "capture", "ack"}, messages : SUBSET Message]

\* What the bridge has of a document, and what the Worker has.
WithBridge(t) == t \in ToSet(pendingEvents) \/ t \in ToSet(flight) \/ t \in lost
CarriedBy(t, ms) == \E m \in ms : \E e \in m.events : e[1] = t
WithWorker(t) == (\E e \in access_events : e[1] = t) \/ CarriedBy(t, queue \cup deadLetters)

\* The request in progress and the buffer, in the order of the documents; the loop
\* runs exactly while there is a request.
BufferInv ==
    /\ Ascending(flight) /\ Ascending(pendingEvents) /\ AllBefore(flight, pendingEvents)
    /\ Len(pendingEvents) <= BufferLimit
    /\ flushing = (flight # <<>>)

\* A batch leaves the queue only when its rows are in.
BatchIsStored ==
    /\ consumer.messages \subseteq queue
    /\ consumer.step \in {"capture", "ack"} => Batch \subseteq access_events

PipeInv ==
    /\ PipeTypes /\ BufferInv /\ BatchIsStored
    /\ \A t : WithBridge(t) \/ WithWorker(t) <=> t \in 1 .. read

LEMMA KnownIsSomewhere == \A t : t \in Known <=> WithBridge(t) \/ WithWorker(t)
  BY DEF Known, WithBridge, WithWorker, CarriedBy, TapsOf

LEMMA PipeStarts == PipeInit => PipeInv
  <1> SUFFICES ASSUME PipeInit PROVE PipeInv
    OBVIOUS
  <1>1. PipeTypes
    BY DEF PipeInit, PipeTypes, Resting
  <1>2. BufferInv
    <2>1. 0 <= BufferLimit
      BY PipeAssumption
    <2> QED
      BY <2>1, NothingInOrder DEF PipeInit, BufferInv
  <1>3. BatchIsStored
    BY DEF PipeInit, BatchIsStored, Resting
  <1>4. \A t : ~WithBridge(t) /\ ~WithWorker(t)
    BY DEF PipeInit, WithBridge, WithWorker, CarriedBy, ToSet
  <1>5. read = 0 /\ \A t : t \notin 1 .. 0
    BY DEF PipeInit
  <1> QED
    BY <1>1, <1>2, <1>3, <1>4, <1>5 DEF PipeInv

\* What is kept of a buffer and what overflows.
LEMMA KeptOf ==
    ASSUME NEW b \in Seq(Nat)
    PROVE  /\ Kept(b) \in Seq(Nat) /\ Len(Kept(b)) <= BufferLimit
           /\ ToSet(Kept(b)) \cup Overflow(b) = ToSet(b)
           /\ Ascending(b) => Ascending(Kept(b))
  <1>1. Len(b) \in Nat /\ BufferLimit \in Nat
    BY PipeAssumption
  <1>2. Excess(b) \in 0 .. Len(b) /\ Len(b) - Excess(b) <= BufferLimit
    BY <1>1 DEF Excess
  <1> QED
    BY <1>2, CutInTwo DEF Kept, Overflow

\* The loop takes its next items: the buffer is now the request and the rest.
LEMMA SpliceOf ==
    ASSUME NEW b \in Seq(Nat), Splice(b), Ascending(b), Len(b) <= BufferLimit
    PROVE  /\ flight' \in Seq(Nat) /\ pendingEvents' \in Seq(Nat) /\ BufferInv'
           /\ ToSet(flight') \cup ToSet(pendingEvents') = ToSet(b)
  <1> DEFINE n == IF Len(b) < PostSize THEN Len(b) ELSE PostSize
  <1>1. Len(b) \in Nat /\ PostSize \in Nat \ {0} /\ BufferLimit \in Nat
    BY PipeAssumption
  <1>2. n \in 0 .. Len(b) /\ n \in Nat /\ (n = 0 <=> Len(b) = 0)
    BY <1>1
  <1>3. /\ flight' = SubSeq(b, 1, n) /\ pendingEvents' = SubSeq(b, n + 1, Len(b))
        /\ flushing' = (b # <<>>)
    BY DEF Splice
  <1> HIDE DEF n
  <1>4. /\ flight' \in Seq(Nat) /\ pendingEvents' \in Seq(Nat)
        /\ Len(flight') = n /\ Len(pendingEvents') = Len(b) - n
        /\ ToSet(flight') \cup ToSet(pendingEvents') = ToSet(b)
        /\ Ascending(flight') /\ Ascending(pendingEvents') /\ AllBefore(flight', pendingEvents')
    BY <1>2, <1>3, CutInTwo
  <1>5. Len(pendingEvents') <= BufferLimit
    BY <1>1, <1>2, <1>4
  <1>6. (b # <<>>) = (flight' # <<>>)
    <2>1. (b = <<>>) <=> (Len(b) = 0)
      BY <1>1
    <2>2. (flight' = <<>>) <=> (Len(flight') = 0)
      BY <1>4
    <2> QED
      BY <1>2, <1>4, <2>1, <2>2
  <1>7. BufferInv'
    BY <1>3, <1>4, <1>5, <1>6 DEF BufferInv, Ascending, AllBefore, ToSet
  <1> QED
    BY <1>4, <1>7

\* A flush begins, or the running one goes on.
LEMMA FlushOf ==
    ASSUME BufferInv, flight \in Seq(Nat), NEW b \in Seq(Nat), flushEvents(b), Ascending(b), Len(b) <= BufferLimit,
           AllBefore(flight, b)
    PROVE  /\ flight' \in Seq(Nat) /\ pendingEvents' \in Seq(Nat) /\ BufferInv'
           /\ ToSet(flight') \cup ToSet(pendingEvents') = ToSet(flight) \cup ToSet(b)
  <1>1. CASE flushing \/ b = <<>>
    <2>1. pendingEvents' = b /\ UNCHANGED <<flight, flushing>>
      BY <1>1 DEF flushEvents
    <2> QED
      BY <2>1 DEF BufferInv, Ascending, AllBefore, ToSet
  <1>2. CASE ~(flushing \/ b = <<>>)
    <2>1. Splice(b) /\ flight = <<>> /\ ToSet(flight) = {}
      BY <1>2, NothingInOrder DEF flushEvents, BufferInv
    <2> QED
      BY <2>1, SpliceOf
  <1> QED
    BY <1>1, <1>2

\* A step of the bridge that sends nothing.
LEMMA BridgeKeeps ==
    ASSUME PipeInv, UNCHANGED workerVars, read' \in Nat,
           pendingEvents' \in Seq(Nat), flight' \in Seq(Nat), BufferInv',
           \A t : WithBridge(t)' \/ WithWorker(t) <=> t \in 1 .. read'
    PROVE  PipeInv'
  <1>1. PipeTypes'
    BY DEF PipeInv, PipeTypes, workerVars
  <1>2. BatchIsStored'
    BY DEF PipeInv, BatchIsStored, Batch, workerVars
  <1>3. \A t : WithWorker(t)' <=> WithWorker(t)
    BY DEF WithWorker, CarriedBy, workerVars
  <1> QED
    BY <1>1, <1>2, <1>3 DEF PipeInv

LEMMA QueueEventKeeps == ASSUME PipeInv, queueEvent PROVE PipeInv'
  <1> DEFINE b == Append(pendingEvents, read + 1)
  <1>1. /\ read \in Nat /\ pendingEvents \in Seq(Nat) /\ flight \in Seq(Nat)
        /\ BufferInv /\ read' = read + 1 /\ UNCHANGED workerVars
        /\ lost' = lost \cup Overflow(b)
    BY DEF PipeInv, PipeTypes, queueEvent
  <1>2. \A y : y \in ToSet(pendingEvents) \cup ToSet(flight) => y \in Nat /\ y < read + 1
    BY <1>1 DEF PipeInv, WithBridge
  <1>3. b \in Seq(Nat) /\ ToSet(b) = ToSet(pendingEvents) \cup {read + 1} /\ Ascending(b)
    BY <1>1, <1>2, Appended DEF BufferInv
  <1> HIDE DEF b
  <1>4. /\ Kept(b) \in Seq(Nat) /\ Len(Kept(b)) <= BufferLimit
        /\ ToSet(Kept(b)) \cup Overflow(b) = ToSet(b) /\ Ascending(Kept(b))
    BY <1>3, KeptOf
  <1>5. AllBefore(flight, Kept(b))
    <2>1. \A x \in ToSet(flight), y \in ToSet(b) : x < y
      BY <1>1, <1>2, <1>3 DEF BufferInv, AllBefore
    <2> QED
      BY <1>4, <2>1 DEF AllBefore
  <1>6. /\ flight' \in Seq(Nat) /\ pendingEvents' \in Seq(Nat) /\ BufferInv'
        /\ ToSet(flight') \cup ToSet(pendingEvents') = ToSet(flight) \cup ToSet(Kept(b))
    <2>1. CASE Len(Kept(b)) >= FlushCount
      <3>1. flushEvents(Kept(b))
        BY <2>1 DEF queueEvent, b
      <3> QED
        BY <1>1, <1>4, <1>5, <3>1, FlushOf
    <2>2. CASE ~(Len(Kept(b)) >= FlushCount)
      <3>1. pendingEvents' = Kept(b) /\ UNCHANGED <<flight, flushing>>
        BY <2>2 DEF queueEvent, b
      <3> QED
        BY <1>1, <1>4, <1>5, <3>1 DEF BufferInv, Ascending, AllBefore, ToSet
    <2> QED
      BY <2>1, <2>2
  <1>7. \A t : WithBridge(t)' <=> WithBridge(t) \/ t = read + 1
    BY <1>1, <1>3, <1>4, <1>6 DEF WithBridge
  <1>8. \A t : t \in 1 .. read' <=> t \in 1 .. read \/ t = read + 1
    BY <1>1
  <1>9. \A t : WithBridge(t)' \/ WithWorker(t) <=> t \in 1 .. read'
    BY <1>7, <1>8 DEF PipeInv
  <1> QED
    BY <1>1, <1>6, <1>9, BridgeKeeps

LEMMA FlushTimerKeeps == ASSUME PipeInv, FlushTimerFires PROVE PipeInv'
  <1>1. /\ read \in Nat /\ pendingEvents \in Seq(Nat) /\ flight \in Seq(Nat) /\ BufferInv
        /\ read' = read /\ lost' = lost /\ UNCHANGED workerVars /\ flushEvents(pendingEvents)
    BY DEF PipeInv, PipeTypes, FlushTimerFires
  <1>2. /\ flight' \in Seq(Nat) /\ pendingEvents' \in Seq(Nat) /\ BufferInv'
        /\ ToSet(flight') \cup ToSet(pendingEvents') = ToSet(flight) \cup ToSet(pendingEvents)
    BY <1>1, FlushOf DEF BufferInv
  <1>3. \A t : WithBridge(t)' <=> WithBridge(t)
    BY <1>1, <1>2 DEF WithBridge
  <1> QED
    BY <1>1, <1>2, <1>3, BridgeKeeps DEF PipeInv

\* A failed request: its items go back in front, as far as there is room.
LEMMA FailedItems ==
    ASSUME PipeInv, FlushFails
    PROVE  /\ flight' \in Seq(Nat) /\ pendingEvents' \in Seq(Nat) /\ BufferInv'
           /\ \A t : WithBridge(t)' <=> WithBridge(t)
  <1> DEFINE b == flight \o pendingEvents
  <1>1. pendingEvents \in Seq(Nat) /\ flight \in Seq(Nat) /\ BufferInv
    BY DEF PipeInv, PipeTypes
  <1>2. b \in Seq(Nat) /\ ToSet(b) = ToSet(flight) \cup ToSet(pendingEvents) /\ Ascending(b)
    BY <1>1, Joined DEF BufferInv
  <1>3. /\ flight' = <<>> /\ flushing' = FALSE /\ pendingEvents' = Kept(b)
        /\ lost' = lost \cup Overflow(b)
    BY DEF FlushFails
  <1> HIDE DEF b
  <1>4. /\ Kept(b) \in Seq(Nat) /\ Len(Kept(b)) <= BufferLimit
        /\ ToSet(Kept(b)) \cup Overflow(b) = ToSet(b) /\ Ascending(Kept(b))
    BY <1>2, KeptOf
  <1>5. flight' \in Seq(Nat) /\ ToSet(flight') = {}
    BY <1>3 DEF ToSet
  <1>6. BufferInv'
    BY <1>3, <1>4, <1>5 DEF BufferInv, Ascending, AllBefore, ToSet
  <1> QED
    BY <1>2, <1>3, <1>4, <1>5, <1>6 DEF WithBridge

LEMMA PostFailsKeeps == ASSUME PipeInv, PostFails PROVE PipeInv'
  <1>1. FlushFails /\ read' = read /\ read \in Nat /\ UNCHANGED workerVars
    BY DEF PostFails, PipeInv, PipeTypes
  <1> QED
    BY <1>1, FailedItems, BridgeKeeps DEF PipeInv

LEMMA RestartKeeps == ASSUME PipeInv, BridgeRestarts PROVE PipeInv'
  <1>1. /\ read' = read /\ read \in Nat /\ UNCHANGED workerVars
        /\ pendingEvents' = <<>> /\ flight' = <<>> /\ flushing' = FALSE
        /\ lost' = lost \cup ToSet(pendingEvents) \cup ToSet(flight)
    BY DEF BridgeRestarts, PipeInv, PipeTypes
  <1>2. pendingEvents' \in Seq(Nat) /\ flight' \in Seq(Nat) /\ ToSet(pendingEvents') = {} /\ ToSet(flight') = {}
    BY <1>1 DEF ToSet
  <1>3. BufferInv'
    <2>1. 0 <= BufferLimit
      BY PipeAssumption
    <2>2. /\ Ascending(pendingEvents') /\ Ascending(flight') /\ AllBefore(flight', pendingEvents')
          /\ Len(pendingEvents') = 0
      BY <1>1, NothingInOrder
    <2> QED
      BY <1>1, <2>1, <2>2 DEF BufferInv, Ascending, AllBefore, ToSet
  <1>4. \A t : WithBridge(t)' <=> WithBridge(t)
    BY <1>1, <1>2 DEF WithBridge
  <1> QED
    BY <1>1, <1>2, <1>3, <1>4, BridgeKeeps DEF PipeInv

\* The Worker makes one message of the items, if the terminal is linked.
LEMMA QueuesBatch ==
    ASSUME PipeInv, handleIsapiAgentEvents(flight), UNCHANGED <<deadLetters, consumer, access_events>>
    PROVE  /\ posts' \in Nat /\ queue' \subseteq Message /\ BatchIsStored'
           /\ \A t : WithWorker(t)' <=> WithWorker(t) \/ (linked /\ t \in ToSet(flight))
  <1>1. /\ posts \in Nat /\ queue \subseteq Message /\ flight \in Seq(Nat) /\ ToSet(flight) \subseteq Nat
        /\ BatchIsStored
    BY DEF PipeInv, PipeTypes, ToSet
  <1>2. CASE ~linked
    <2>1. UNCHANGED <<posts, queue>>
      BY <1>2 DEF handleIsapiAgentEvents
    <2> QED
      BY <1>1, <1>2, <2>1 DEF BatchIsStored, Batch, WithWorker, CarriedBy
  <1>3. CASE linked
    <2> DEFINE es == {<<t, vendorEventId(t, posts')>> : t \in ToSet(flight)}
               m == [id |-> posts', attempts |-> 0, events |-> es]
    <2>1. posts' = posts + 1 /\ queue' = queue \cup {m}
      BY <1>3 DEF handleIsapiAgentEvents
    <2>2. es \in SUBSET (Nat \X Nat)
      <3>1. \A t : vendorEventId(t, posts') \in Nat
        BY <1>1, <2>1 DEF vendorEventId
      <3> QED
        BY <1>1, <3>1
    <2>3. m \in Message /\ m.events = es
      BY <1>1, <2>1, <2>2 DEF Message
    <2>4. \A t : (\E e \in es : e[1] = t) <=> t \in ToSet(flight)
      <3>1. ASSUME NEW t \in ToSet(flight) PROVE \E e \in es : e[1] = t
        <4>1. <<t, vendorEventId(t, posts')>> \in es /\ <<t, vendorEventId(t, posts')>>[1] = t
          OBVIOUS
        <4> QED
          BY <4>1
      <3>2. ASSUME NEW e \in es PROVE e[1] \in ToSet(flight)
        <4>1. PICK t \in ToSet(flight) : e = <<t, vendorEventId(t, posts')>>
          OBVIOUS
        <4>2. e[1] = t
          BY <4>1
        <4> QED
          BY <4>2
      <3> QED
        BY <3>1, <3>2
    <2> HIDE DEF es, m
    <2>5. \A t : CarriedBy(t, queue \cup deadLetters)' <=> CarriedBy(t, queue \cup deadLetters) \/ t \in ToSet(flight)
      BY <2>1, <2>3, <2>4 DEF CarriedBy
    <2>6. \A t : WithWorker(t)' <=> WithWorker(t) \/ t \in ToSet(flight)
      BY <2>5 DEF WithWorker
    <2>7. BatchIsStored'
      BY <1>1, <2>1 DEF BatchIsStored, Batch
    <2> QED
      BY <1>1, <1>3, <2>1, <2>3, <2>6, <2>7
  <1> QED
    BY <1>2, <1>3

LEMMA PostSucceedsKeeps == ASSUME PipeInv, PostSucceeds PROVE PipeInv'
  <1>1. /\ pendingEvents \in Seq(Nat) /\ BufferInv /\ read \in Nat /\ read' = read
        /\ handleIsapiAgentEvents(flight) /\ Splice(pendingEvents)
        /\ UNCHANGED <<deadLetters, consumer, access_events>>
        /\ lost' = IF linked THEN lost ELSE lost \cup ToSet(flight)
    BY DEF PipeInv, PipeTypes, PostSucceeds
  <1>2. /\ flight' \in Seq(Nat) /\ pendingEvents' \in Seq(Nat) /\ BufferInv'
        /\ ToSet(flight') \cup ToSet(pendingEvents') = ToSet(pendingEvents)
    BY <1>1, SpliceOf DEF BufferInv
  <1>3. /\ posts' \in Nat /\ queue' \subseteq Message /\ BatchIsStored'
        /\ \A t : WithWorker(t)' <=> WithWorker(t) \/ (linked /\ t \in ToSet(flight))
    BY <1>1, QueuesBatch
  <1>4. \A t : WithBridge(t)' \/ WithWorker(t)' <=> WithBridge(t) \/ WithWorker(t)
    BY <1>1, <1>2, <1>3 DEF WithBridge
  <1>5. PipeTypes'
    BY <1>1, <1>2, <1>3 DEF PipeInv, PipeTypes
  <1> QED
    BY <1>1, <1>2, <1>3, <1>4, <1>5 DEF PipeInv

LEMMA AnswerLostKeeps == ASSUME PipeInv, PostAnswerLost PROVE PipeInv'
  <1>1. /\ read \in Nat /\ read' = read /\ handleIsapiAgentEvents(flight) /\ FlushFails
        /\ UNCHANGED <<deadLetters, consumer, access_events>>
    BY DEF PipeInv, PipeTypes, PostAnswerLost
  <1>2. /\ flight' \in Seq(Nat) /\ pendingEvents' \in Seq(Nat) /\ BufferInv'
        /\ \A t : WithBridge(t)' <=> WithBridge(t)
    BY <1>1, FailedItems
  <1>3. /\ posts' \in Nat /\ queue' \subseteq Message /\ BatchIsStored'
        /\ \A t : WithWorker(t)' <=> WithWorker(t) \/ (linked /\ t \in ToSet(flight))
    BY <1>1, QueuesBatch
  <1>4. \A t : WithBridge(t)' \/ WithWorker(t)' <=> WithBridge(t) \/ WithWorker(t)
    BY <1>2, <1>3 DEF WithBridge
  <1>5. PipeTypes'
    BY <1>1, <1>2, <1>3 DEF PipeInv, PipeTypes
  <1> QED
    BY <1>1, <1>2, <1>3, <1>4, <1>5 DEF PipeInv

\* A step of the Worker alone.
LEMMA WorkerKeeps ==
    ASSUME PipeInv, UNCHANGED <<read, agentVars, posts>>,
           queue' \subseteq Message, deadLetters' \subseteq Message,
           consumer' \in [step : {"idle", "insert", "capture", "ack"}, messages : SUBSET Message],
           BatchIsStored', \A t : WithWorker(t)' <=> WithWorker(t)
    PROVE  PipeInv'
  <1>1. PipeTypes' /\ BufferInv'
    BY DEF PipeInv, PipeTypes, BufferInv, Ascending, AllBefore, ToSet, agentVars
  <1>2. \A t : WithBridge(t)' <=> WithBridge(t)
    BY DEF WithBridge, agentVars
  <1> QED
    BY <1>1, <1>2 DEF PipeInv

LEMMA ConsumerKeeps == ASSUME PipeInv, ConsumerStep PROVE PipeInv'
  <1>t. /\ queue \subseteq Message /\ deadLetters \subseteq Message /\ BatchIsStored
        /\ consumer \in [step : {"idle", "insert", "capture", "ack"}, messages : SUBSET Message]
    BY DEF PipeInv, PipeTypes
  <1>1. ASSUME ConsumerTakes PROVE PipeInv'
    <2>1. PICK ms \in SUBSET queue \ {{}} : consumer' = [step |-> "insert", messages |-> ms]
      BY <1>1 DEF ConsumerTakes
    <2>2. UNCHANGED <<read, agentVars, posts, queue, deadLetters, access_events>>
      BY <1>1 DEF ConsumerTakes
    <2>3. BatchIsStored' /\ consumer' \in [step : {"idle", "insert", "capture", "ack"}, messages : SUBSET Message]
      BY <1>t, <2>1, <2>2 DEF BatchIsStored
    <2>4. \A t : WithWorker(t)' <=> WithWorker(t)
      BY <2>2 DEF WithWorker, CarriedBy
    <2> QED
      BY <1>t, <2>2, <2>3, <2>4, WorkerKeeps
  <1>2. ASSUME ConsumerInserts PROVE PipeInv'
    <2>1. /\ UNCHANGED <<read, agentVars, posts, queue, deadLetters>> /\ access_events' = access_events \cup Batch
          /\ consumer' = [consumer EXCEPT !.step = "capture"]
      BY <1>2 DEF ConsumerInserts
    <2>2. /\ consumer' \in [step : {"idle", "insert", "capture", "ack"}, messages : SUBSET Message]
          /\ consumer'.messages = consumer.messages
      BY <1>t, <2>1
    <2>3. Batch' = Batch
      BY <2>2 DEF Batch
    <2>4. BatchIsStored'
      BY <1>t, <2>1, <2>2, <2>3 DEF BatchIsStored
    <2>5. \A e \in Batch : \E m \in queue : e \in m.events
      BY <1>t DEF Batch, BatchIsStored
    <2>6. \A t : WithWorker(t)' <=> WithWorker(t)
      BY <2>1, <2>5 DEF WithWorker, CarriedBy
    <2> QED
      BY <1>t, <2>1, <2>2, <2>4, <2>6, WorkerKeeps
  <1>3. ASSUME ConsumerCaptures PROVE PipeInv'
    <2>1. /\ UNCHANGED <<read, agentVars, posts, queue, deadLetters, access_events>>
          /\ consumer' = [consumer EXCEPT !.step = "ack"] /\ consumer.step = "capture"
      BY <1>3 DEF ConsumerCaptures
    <2>2. /\ consumer' \in [step : {"idle", "insert", "capture", "ack"}, messages : SUBSET Message]
          /\ consumer'.messages = consumer.messages
      BY <1>t, <2>1
    <2>3. Batch' = Batch
      BY <2>2 DEF Batch
    <2>4. BatchIsStored'
      BY <1>t, <2>1, <2>2, <2>3 DEF BatchIsStored
    <2>5. \A t : WithWorker(t)' <=> WithWorker(t)
      BY <2>1 DEF WithWorker, CarriedBy
    <2> QED
      BY <1>t, <2>1, <2>2, <2>4, <2>5, WorkerKeeps
  <1>4. ASSUME ConsumerAcknowledges PROVE PipeInv'
    <2>1. /\ UNCHANGED <<read, agentVars, posts, deadLetters, access_events>> /\ consumer.step = "ack"
          /\ queue' = queue \ consumer.messages /\ consumer' = Resting
      BY <1>4 DEF ConsumerAcknowledges
    <2>2. /\ consumer' \in [step : {"idle", "insert", "capture", "ack"}, messages : SUBSET Message]
          /\ BatchIsStored'
      BY <2>1 DEF Resting, BatchIsStored
    <2>3. \A m \in consumer.messages : m.events \subseteq access_events
      BY <1>t, <2>1 DEF BatchIsStored, Batch
    <2>4. \A t : WithWorker(t)' <=> WithWorker(t)
      BY <2>1, <2>3 DEF WithWorker, CarriedBy
    <2> QED
      BY <1>t, <2>1, <2>2, <2>4, WorkerKeeps
  <1> QED
    BY <1>1, <1>2, <1>3, <1>4 DEF ConsumerStep

LEMMA ConsumerDiesKeeps == ASSUME PipeInv, ConsumerDies PROVE PipeInv'
  <1> DEFINE spent == {m \in consumer.messages : m.attempts = Retries}
             again == {[m EXCEPT !.attempts = @ + 1] : m \in consumer.messages \ spent}
  <1>t. /\ queue \subseteq Message /\ deadLetters \subseteq Message /\ consumer.messages \subseteq queue
        /\ consumer.messages \subseteq Message
    BY DEF PipeInv, PipeTypes, BatchIsStored
  <1>1. /\ UNCHANGED <<read, agentVars, posts, access_events>>
        /\ queue' = (queue \ consumer.messages) \cup again /\ deadLetters' = deadLetters \cup spent
        /\ consumer' = Resting
    BY DEF ConsumerDies
  <1>2. \A m \in Message : [m EXCEPT !.attempts = @ + 1] \in Message /\ [m EXCEPT !.attempts = @ + 1].events = m.events
    BY DEF Message
  <1>3. /\ again \subseteq Message /\ \A n \in again : \E m \in consumer.messages : n.events = m.events
        /\ \A m \in consumer.messages \ spent : \E n \in again : n.events = m.events
    BY <1>t, <1>2
  <1>4. spent \subseteq consumer.messages
    OBVIOUS
  <1> HIDE DEF spent, again
  <1>5. /\ consumer' \in [step : {"idle", "insert", "capture", "ack"}, messages : SUBSET Message]
        /\ BatchIsStored'
    BY <1>1 DEF Resting, BatchIsStored
  <1>6. \A t : CarriedBy(t, queue \cup deadLetters)' <=> CarriedBy(t, queue \cup deadLetters)
    <2> SUFFICES ASSUME NEW t PROVE CarriedBy(t, queue' \cup deadLetters') <=> CarriedBy(t, queue \cup deadLetters)
      BY DEF CarriedBy
    <2>1. CarriedBy(t, queue' \cup deadLetters') => CarriedBy(t, queue \cup deadLetters)
      BY <1>t, <1>1, <1>3, <1>4 DEF CarriedBy
    <2>2. CarriedBy(t, queue \cup deadLetters) => CarriedBy(t, queue' \cup deadLetters')
      BY <1>t, <1>1, <1>3, <1>4 DEF CarriedBy
    <2> QED
      BY <2>1, <2>2
  <1>7. \A t : WithWorker(t)' <=> WithWorker(t)
    BY <1>1, <1>6 DEF WithWorker
  <1>8. queue' \subseteq Message /\ deadLetters' \subseteq Message
    BY <1>t, <1>1, <1>3, <1>4
  <1> QED
    BY <1>1, <1>5, <1>7, <1>8, WorkerKeeps

\* The sessions and the link decide nothing about where an event is.
LEMMA SessionsKeep ==
    ASSUME PipeInv, UNCHANGED <<read, agentVars, workerVars>>
    PROVE  PipeInv'
  <1>1. PipeTypes' /\ BufferInv' /\ BatchIsStored'
    BY DEF PipeInv, PipeTypes, BufferInv, BatchIsStored, Batch, Ascending, AllBefore, ToSet, agentVars, workerVars
  <1>2. \A t : (WithBridge(t)' <=> WithBridge(t)) /\ (WithWorker(t)' <=> WithWorker(t))
    BY DEF WithBridge, WithWorker, CarriedBy, agentVars, workerVars
  <1> QED
    BY <1>1, <1>2 DEF PipeInv

LEMMA PipeStep == ASSUME PipeInv, [PipeNext]_pipeVars PROVE PipeInv'
  <1>1. CASE UNCHANGED pipeVars
    BY <1>1, SessionsKeep DEF pipeVars, agentVars, workerVars
  <1>2. CASE ForwarderStep
    BY <1>2, QueueEventKeeps, FlushTimerKeeps, PostSucceedsKeeps DEF ForwarderStep
  <1>3. CASE PostFails \/ PostAnswerLost \/ BridgeRestarts
    BY <1>3, PostFailsKeeps, AnswerLostKeeps, RestartKeeps
  <1>4. CASE ConsumerStep \/ ConsumerDies
    BY <1>4, ConsumerKeeps, ConsumerDiesKeeps
  <1>5. CASE ScanNext \/ RemoveTerminal
    <2>1. UNCHANGED <<read, agentVars, workerVars>>
      BY <1>5 DEF ScanNext, StartScan, ScanRunsOut, CancelScan, CompleteReads, CompleteWrites, RemoveTerminal
    <2> QED
      BY <2>1, SessionsKeep
  <1> QED
    BY <1>1, <1>2, <1>3, <1>4, <1>5 DEF PipeNext

\* Every document the bridge read is somewhere, its buffer is in order, and a batch
\* leaves the queue only when its rows are in (queueEvent, flushEvents, the consumer).
THEOREM PipeInvariant == PipeSpec => []PipeInv
  <1> QED
    BY PipeStarts, PipeStep, PTL DEF PipeSpec

LEMMA PipeLosesNothing == PipeInv => NothingLostSilently
  <1> SUFFICES ASSUME PipeInv PROVE NothingLostSilently
    OBVIOUS
  <1>1. Known = 1 .. read
    BY KnownIsSomewhere DEF PipeInv
  <1>2. Ascending(flight \o pendingEvents) /\ Len(pendingEvents) <= BufferLimit
    BY Joined DEF PipeInv, PipeTypes, BufferInv
  <1> QED
    BY <1>1, <1>2 DEF NothingLostSilently, Ascending
-----------------------------------------------------------------------------
(* The event ring of the Pi gate *)

\* A batch that is on its way was the oldest part of the ring, and what the ring still
\* has of that part is in the batch.
RingInv ==
    /\ eventSeq \in Nat /\ ring \subseteq 1 .. eventSeq
    /\ upload \in [Flows -> SUBSET (1 .. eventSeq)]
    /\ \A f \in Flows : \A n \in ring, m \in upload[f] : n <= m => n \in upload[f]
    /\ EventsAreAccountedFor

LEMMA RingStarts == GateInit => RingInv
  BY DEF GateInit, RingInv, EventsAreAccountedFor

LEMMA RingStays == ASSUME RingInv, UNCHANGED <<boot, eventVars>> PROVE RingInv'
  BY DEF RingInv, EventsAreAccountedFor, Event, eventVars

LEMMA RecordKeeps == ASSUME RingInv, UNCHANGED boot, NEW what, recordEvent(what) PROVE RingInv'
  <1> DEFINE gone == IF Cardinality(ring) >= RingSize THEN {Min(ring)} ELSE {}
  <1>1. /\ eventSeq' = eventSeq + 1 /\ ring' = (ring \ gone) \cup {eventSeq + 1}
        /\ eventsDropped' = eventsDropped \cup {Event(n) : n \in gone}
        /\ UNCHANGED <<upload, arrived, refused>>
    BY DEF recordEvent
  <1> HIDE DEF gone
  <1>2. /\ eventSeq \in Nat /\ ring \subseteq 1 .. eventSeq /\ upload \in [Flows -> SUBSET (1 .. eventSeq)]
        /\ \A n \in 1 .. eventSeq : n \in 1 .. eventSeq + 1 /\ n < eventSeq + 1
        /\ eventSeq + 1 \in 1 .. eventSeq + 1
    BY DEF RingInv
  <1>3. eventSeq' \in Nat /\ ring' \subseteq 1 .. eventSeq' /\ upload' \in [Flows -> SUBSET (1 .. eventSeq')]
    <2>1. \A f \in Flows : upload[f] \in SUBSET (1 .. eventSeq')
      BY <1>1, <1>2
    <2>2. ring' \subseteq 1 .. eventSeq'
      BY <1>1, <1>2
    <2>3. upload \in [Flows -> SUBSET (1 .. eventSeq')]
      BY <1>2, <2>1
    <2> QED
      BY <1>1, <1>2, <2>2, <2>3
  <1>4. \A f \in Flows : \A n \in ring', m \in upload'[f] : n <= m => n \in upload'[f]
    <2> SUFFICES ASSUME NEW f \in Flows, NEW n \in ring', NEW m \in upload[f], n <= m PROVE n \in upload[f]
      BY <1>1
    <2>1. m \in 1 .. eventSeq /\ m < eventSeq + 1
      BY <1>2
    <2>2. n # eventSeq + 1
      BY <1>2, <2>1
    <2> QED
      BY <1>1, <2>2 DEF RingInv
  <1>5. EventsAreAccountedFor'
    <2> SUFFICES ASSUME NEW n \in 1 .. eventSeq + 1
                 PROVE  n \in ring' \/ <<boot, n>> \in arrived \cup eventsDropped' \cup refused
      BY <1>1 DEF EventsAreAccountedFor, Event
    <2>1. CASE n = eventSeq + 1
      BY <1>1, <2>1
    <2>2. CASE n \in 1 .. eventSeq
      BY <1>1, <2>2 DEF RingInv, EventsAreAccountedFor, Event
    <2> QED
      BY <1>2, <2>1, <2>2
  <1> QED
    BY <1>3, <1>4, <1>5 DEF RingInv

LEMMA UploadStarts == ASSUME RingInv, NEW f \in Flows, FlushStarts(f) PROVE RingInv'
  <1>1. /\ upload' = [upload EXCEPT ![f] = takeEventBatch]
        /\ UNCHANGED <<boot, ring, eventSeq, arrived, refused, eventsDropped>>
    BY DEF FlushStarts
  <1>2. eventSeq \in Nat /\ ring \subseteq 1 .. eventSeq /\ upload \in [Flows -> SUBSET (1 .. eventSeq)]
    BY DEF RingInv
  <1>3. takeEventBatch \subseteq ring
    BY DEF takeEventBatch
  <1>4. \A n \in ring, m \in takeEventBatch : n <= m => n \in takeEventBatch
    <2> SUFFICES ASSUME NEW n \in ring, NEW m \in takeEventBatch, n <= m
                 PROVE  Cardinality({l \in ring : l <= n}) <= BatchSize
      BY DEF takeEventBatch
    <2> DEFINE upTo(x) == {l \in ring : l <= x}
    <2>1. IsFiniteSet(1 .. eventSeq)
      BY <1>2, FS_Interval
    <2>2. IsFiniteSet(upTo(m)) /\ IsFiniteSet(upTo(n))
      BY <1>2, <2>1, FS_Subset
    <2>3. upTo(n) \subseteq upTo(m)
      <3>1. n \in Nat /\ m \in Nat /\ \A l \in ring : l \in Nat
        BY <1>2, <1>3
      <3>2. \A l \in Nat : l <= n => l <= m
        BY <3>1
      <3> QED
        BY <3>1, <3>2
    <2>4. Cardinality(upTo(n)) <= Cardinality(upTo(m))
      BY <2>2, <2>3, FS_Subset
    <2>5. Cardinality(upTo(m)) <= BatchSize
      BY DEF takeEventBatch
    <2>6. Cardinality(upTo(n)) \in Nat /\ Cardinality(upTo(m)) \in Nat /\ BatchSize \in Nat
      BY <2>2, FS_CardinalityType, GateAssumption
    <2> HIDE DEF upTo
    <2>7. Cardinality(upTo(n)) <= BatchSize
      BY <2>4, <2>5, <2>6
    <2> QED
      BY <2>7 DEF upTo
  <1>5. upload' \in [Flows -> SUBSET (1 .. eventSeq)]
    BY <1>1, <1>2, <1>3
  <1>6. \A g \in Flows : \A n \in ring, m \in upload'[g] : n <= m => n \in upload'[g]
    BY <1>1, <1>2, <1>4 DEF RingInv
  <1> QED
    BY <1>1, <1>5, <1>6 DEF RingInv, EventsAreAccountedFor, Event

\* Accepted or refused, what leaves the ring is in the batch that was answered.
LEMMA BatchIsAnswered ==
    ASSUME RingInv, NEW f \in Flows, BatchLeaves(f), arrived \subseteq arrived', refused \subseteq refused',
           Delivered(f) \subseteq arrived' \cup refused'
    PROVE  RingInv'
  <1>1. /\ Delivered(f) \subseteq arrived' \cup refused' /\ ring' = dropEvents(upload[f])
        /\ upload' = [upload EXCEPT ![f] = {}] /\ UNCHANGED <<boot, eventSeq, eventsDropped>>
    BY DEF BatchLeaves
  <1>2. eventSeq \in Nat /\ ring \subseteq 1 .. eventSeq /\ upload \in [Flows -> SUBSET (1 .. eventSeq)]
    BY DEF RingInv
  <1>3. ring' \subseteq ring /\ upload' \in [Flows -> SUBSET (1 .. eventSeq)]
    BY <1>1, <1>2 DEF dropEvents
  <1>4. \A g \in Flows : \A n \in ring', m \in upload'[g] : n <= m => n \in upload'[g]
    BY <1>1, <1>2, <1>3 DEF RingInv
  <1>5. ASSUME NEW n \in ring \ ring' PROVE Event(n) \in arrived' \cup refused'
    <2>1. PICK m \in upload[f] : ~(n > m)
      BY <1>1, <1>5 DEF dropEvents
    <2>2. n \in Nat /\ m \in Nat
      BY <1>2, <1>5, <2>1
    <2>3. n \in upload[f]
      BY <1>5, <2>1, <2>2 DEF RingInv
    <2> QED
      BY <1>1, <2>3 DEF Delivered
  <1>6. EventsAreAccountedFor'
    <2> SUFFICES ASSUME NEW n \in 1 .. eventSeq
                 PROVE  n \in ring' \/ Event(n) \in arrived' \cup eventsDropped \cup refused'
      BY <1>1 DEF EventsAreAccountedFor, Event
    <2> QED
      BY <1>1, <1>5 DEF RingInv, EventsAreAccountedFor
  <1> QED
    BY <1>1, <1>2, <1>3, <1>4, <1>6 DEF RingInv

LEMMA UploadAccepted == ASSUME RingInv, NEW f \in Flows, FlushAccepted(f) PROVE RingInv'
  BY BatchIsAnswered DEF FlushAccepted

LEMMA UploadRefused == ASSUME RingInv, NEW f \in Flows, FlushRefused(f) PROVE RingInv'
  BY BatchIsAnswered DEF FlushRefused

LEMMA UploadFailed == ASSUME RingInv, NEW f \in Flows, FlushFailed(f) PROVE RingInv'
  <1>1. /\ arrived \subseteq arrived' /\ upload' = [upload EXCEPT ![f] = {}]
        /\ UNCHANGED <<boot, ring, eventSeq, refused, eventsDropped>>
    BY DEF FlushFailed
  <1> QED
    BY <1>1 DEF RingInv, EventsAreAccountedFor, Event

LEMMA RingStep == ASSUME RingInv, [GateNext]_gateVars PROVE RingInv'
  <1>1. CASE UNCHANGED gateVars
    BY <1>1, RingStays DEF gateVars, doorVars
  <1>2. CASE GateRestarts
    <2>1. ring' = {} /\ eventSeq' = 0 /\ upload' = [f \in Flows |-> {}]
      BY <1>2 DEF GateRestarts
    <2> QED
      BY <2>1 DEF RingInv, EventsAreAccountedFor
  <1>3. CASE GateCacheNext
    BY <1>3, RingStays DEF GateCacheNext, GateTick, EstateChanges, GateHolderChanges, StartSync,
                            SnapshotPageAnswered, ApplySnapshot, SyncPageFails, doorVars
  <1>4. CASE FlushNext
    BY <1>4, UploadStarts, UploadAccepted, UploadRefused, UploadFailed DEF FlushNext
  <1>5. CASE GateDoorNext
    <2>1. ASSUME NEW granted \in BOOLEAN, NEW whole \in BOOLEAN, handleCard(1, granted, whole) PROVE RingInv'
      BY <2>1, RingStays, RecordKeeps DEF handleCard
    <2>2. ASSUME NEW v \in Passes, handlePin(v) PROVE RingInv'
      BY <2>2, RecordKeeps DEF handlePin
    <2>3. ASSUME NEW v \in Passes, VisitorOperation(v) PROVE RingInv'
      BY <2>3, RingStays DEF VisitorOperation
    <2>4. CASE pressExit
      BY <2>4, RingStays, RecordKeeps DEF pressExit
    <2>5. CASE GateTick \/ applyDoorCommand \/ service
      BY <2>5, RingStays DEF GateTick, applyDoorCommand, service, doorVars
    <2> QED
      BY <1>5, <2>1, <2>2, <2>3, <2>4, <2>5 DEF GateDoorNext
  <1> QED
    BY <1>1, <1>2, <1>3, <1>4, <1>5 DEF GateNext, CacheNext, DoorNext

\* However uploads overlap, what leaves the ring has arrived, is counted, or was in a batch
\* the Worker answered it will never take (recordEvent, takeEventBatch, flushEvents).
THEOREM RingInvariant == GateSpec => []RingInv
  <1> QED
    BY RingStarts, RingStep, PTL DEF GateSpec

LEMMA EdgeIsItsParts == EdgeSpec => PipeInit /\ [][PipeNext]_pipeVars /\ GateInit /\ [][GateNext]_gateVars
  <1>1. [EdgeNext]_allVars => [PipeNext]_pipeVars
    BY DEF EdgeNext, allVars, OnlyEvents, OnlyPresence, OnlyDoor, OnlyPulls, OnlyUsers, OnlyClocks
  <1>2. [EdgeNext]_allVars => [GateNext]_gateVars
    BY DEF EdgeNext, allVars, OnlyEvents, OnlyPresence, OnlyDoor, OnlyPulls, OnlyUsers, OnlyClocks, GateNext
  <1>3. EdgeInit => PipeInit /\ GateInit
    BY DEF EdgeInit
  <1> QED
    BY <1>1, <1>2, <1>3, PTL DEF EdgeSpec

\* Every access event of a terminal or the Pi gate is accounted for on its way, whatever
\* the limits of buffers, batches and rings, and however often requests fail; batches the
\* Worker refuses are an account of their own.
THEOREM EventsStayAccountedFor == EdgeSpec => []EveryEventIsAccountedFor
  <1>1. PipeInv /\ RingInv => EveryEventIsAccountedFor
    BY PipeLosesNothing DEF EveryEventIsAccountedFor, RingInv
  <1> QED
    BY <1>1, EdgeIsItsParts, PipeStarts, PipeStep, RingStarts, RingStep, PTL
-----------------------------------------------------------------------------
(* What the tunnel Worker reports: pulls *)

\* A set of numbers has a least one.
LessThan == {p \in Nat \X Nat : p[1] < p[2]}

LEMMA NumbersAreWellOrdered == IsWellFoundedOn(LessThan, Nat)
  <1>1. LessThan = OpToRel(<, Nat)
    BY DEF OpToRel, LessThan
  <1> QED
    BY <1>1, NatLessThanWellFounded

LEMMA LeastOf ==
    ASSUME NEW S \in SUBSET Nat, S # {}
    PROVE  \E m \in S : \A x \in S : m <= x
  <1>1. \A R, A, T : IsWellFoundedOn(R, A) /\ T \subseteq A /\ T # {}
           => \E x \in T : \A y \in T : ~ (<<y, x>> \in R)
    BY WFMin
  <1>2. PICK m \in S : \A x \in S : ~ (<<x, m>> \in LessThan)
    BY <1>1, NumbersAreWellOrdered
  <1>3. ASSUME NEW x \in S, x < m PROVE FALSE
    <2>1. <<x, m>> \in Nat \X Nat /\ <<x, m>>[1] < <<x, m>>[2]
      BY <1>3
    <2>2. <<x, m>> \in LessThan
      BY <2>1 DEF LessThan
    <2> QED
      BY <1>2, <2>2
  <1> QED
    BY <1>3

\* The batch is the whole list, or as large as a batch may be.
LEMMA OldestIsAllOrFull ==
    ASSUME NEW n \in Nat, NEW places \in SUBSET (1 .. n), Oldest(places) # places
    PROVE  IsFiniteSet(Oldest(places)) /\ Cardinality(Oldest(places)) >= MAX_EVENT_BATCH
  <1> DEFINE upTo(x) == {j \in places : j <= x}
             left == places \ Oldest(places)
  <1>1. MAX_EVENT_BATCH \in Nat /\ places \in SUBSET Nat
    BY TunnelAssumption
  <1>2. IsFiniteSet(places)
    <2>1. IsFiniteSet(1 .. n)
      BY FS_Interval
    <2> QED
      BY <2>1, FS_Subset
  <1>3. /\ Oldest(places) \subseteq places /\ IsFiniteSet(Oldest(places))
        /\ Cardinality(Oldest(places)) \in Nat
    BY <1>2, FS_Subset, FS_CardinalityType DEF Oldest
  <1>4. \A x \in places : IsFiniteSet(upTo(x)) /\ Cardinality(upTo(x)) \in Nat
    BY <1>2, FS_Subset, FS_CardinalityType
  <1>5. PICK m \in left : \A x \in left : m <= x
    BY <1>1, <1>3, LeastOf
  <1>6. Cardinality(upTo(m)) > MAX_EVENT_BATCH
    BY <1>1, <1>4, <1>5 DEF Oldest
  <1>7. \A x \in Oldest(places) : x < m
    <2>0. m \in Nat /\ Oldest(places) \subseteq Nat
      BY <1>1, <1>3, <1>5
    <2> SUFFICES ASSUME NEW x \in Oldest(places), m <= x PROVE FALSE
      BY <2>0
    <2>1. upTo(m) \subseteq upTo(x)
      <3>1. x \in Nat /\ m \in Nat /\ \A j \in places : j \in Nat
        BY <1>1, <1>3, <1>5
      <3>2. \A j \in Nat : j <= m => j <= x
        BY <3>1
      <3> QED
        BY <3>1, <3>2
    <2>2. Cardinality(upTo(m)) <= Cardinality(upTo(x))
      BY <1>3, <1>4, <1>5, <2>1, FS_Subset
    <2>3. Cardinality(upTo(x)) <= MAX_EVENT_BATCH
      BY DEF Oldest
    <2>4. Cardinality(upTo(x)) \in Nat /\ Cardinality(upTo(m)) \in Nat
      BY <1>3, <1>4, <1>5
    <2> HIDE DEF upTo
    <2> QED
      BY <1>1, <1>6, <2>2, <2>3, <2>4
  <1>8. upTo(m) = Oldest(places) \cup {m}
    <2>1. ASSUME NEW j \in upTo(m) PROVE j \in Oldest(places) \cup {m}
      BY <1>1, <1>5, <2>1
    <2>2. ASSUME NEW j \in Oldest(places) PROVE j \in upTo(m)
      <3>1. j \in places /\ j \in Nat /\ m \in Nat /\ j < m
        BY <1>1, <1>3, <1>5, <1>7, <2>2
      <3> QED
        BY <3>1
    <2>3. m \in upTo(m)
      BY <1>1, <1>5
    <2> QED
      BY <2>1, <2>2, <2>3
  <1>9. Cardinality(upTo(m)) = Cardinality(Oldest(places)) + 1
    <2>1. m \notin Oldest(places)
      BY <1>5
    <2> HIDE DEF upTo, left
    <2> QED
      BY <1>3, <1>8, <2>1, FS_AddElement
  <1> HIDE DEF upTo, left
  <1> QED
    BY <1>1, <1>3, <1>6, <1>9

Pull == [step : {"idle", "get", "search", "store", "ok"}, seen : SUBSET Nat]

\* A pull saw places of the log, and one that stored its rows has them in the table.
SawTheLog(r) == r.seen \subseteq DOMAIN terminalLog
HasItsRows(r) == r.step = "ok" => Oldest(r.seen \ nameless) \subseteq access_logs
PullInv ==
    /\ terminalLog \in Seq(Nat)
    /\ device_status.seen \subseteq DOMAIN terminalLog
    /\ pull \in [Pullers -> Pull]
    /\ \A p \in Pullers : SawTheLog(pull[p]) /\ HasItsRows(pull[p])
    /\ OkPullsAreComplete

LEMMA PullsStart == TunnelInit => PullInv
  <1> SUFFICES ASSUME TunnelInit PROVE PullInv
    OBVIOUS
  <1>1. pull \in [Pullers -> Pull] /\ \A p \in Pullers : pull[p].seen = {} /\ pull[p].step = "idle"
    BY DEF TunnelInit, NoPull, Pull
  <1>2. terminalLog \in Seq(Nat) /\ device_status.seen \subseteq DOMAIN terminalLog /\ OkPullsAreComplete
    BY DEF TunnelInit, OkPullsAreComplete
  <1> QED
    BY <1>1, <1>2 DEF PullInv, SawTheLog, HasItsRows

LEMMA PullsStay == ASSUME PullInv, UNCHANGED pullVars PROVE PullInv'
  BY DEF PullInv, OkPullsAreComplete, SawTheLog, HasItsRows, PullRows, Oldest, pullVars

\* One pull moves: the log and the rows only grow.
LEMMA OnePullMoves ==
    ASSUME PullInv, NEW p \in Pullers, NEW r \in Pull, pull' = [pull EXCEPT ![p] = r],
           UNCHANGED <<terminalLog, nameless>>, access_logs \subseteq access_logs', OkPullsAreComplete',
           device_status'.seen \subseteq DOMAIN terminalLog,
           r.seen \subseteq DOMAIN terminalLog,
           r.step = "ok" => Oldest(r.seen \ nameless) \subseteq access_logs'
    PROVE  PullInv'
  <1>1. pull' \in [Pullers -> Pull]
    BY DEF PullInv
  <1>2. ASSUME NEW q \in Pullers
        PROVE  /\ pull'[q].seen \subseteq DOMAIN terminalLog
               /\ pull'[q].step = "ok" => Oldest(pull'[q].seen \ nameless) \subseteq access_logs'
    <2>1. CASE q = p
      BY <2>1 DEF PullInv
    <2>2. CASE q # p
      <3>1. pull'[q] = pull[q]
        BY <2>2 DEF PullInv
      <3>2. SawTheLog(pull[q]) /\ HasItsRows(pull[q])
        BY DEF PullInv
      <3> QED
        BY <3>1, <3>2 DEF SawTheLog, HasItsRows
    <2> QED
      BY <2>1, <2>2
  <1>3. \A q \in Pullers : (SawTheLog(pull[q]) /\ HasItsRows(pull[q]))'
    BY <1>2 DEF SawTheLog, HasItsRows, Oldest
  <1> QED
    BY <1>1, <1>3 DEF PullInv

LEMMA PullsStep == ASSUME PullInv, NEW p \in Pullers, pullAccessLogs(p) PROVE PullInv'
  <1>h. pull \in [Pullers -> Pull] /\ SawTheLog(pull[p]) /\ HasItsRows(pull[p])
    BY DEF PullInv
  <1>t. /\ pull \in [Pullers -> Pull] /\ pull[p] \in Pull /\ pull[p].seen \subseteq DOMAIN terminalLog
        /\ device_status.seen \subseteq DOMAIN terminalLog
    BY <1>h DEF SawTheLog, PullInv
  <1>s. DOMAIN terminalLog = 1 .. Len(terminalLog) /\ Len(terminalLog) \in Nat /\ DOMAIN terminalLog \subseteq Nat
    BY DEF PullInv
  <1>1. ASSUME StartPull(p) PROVE PullInv'
    <2> DEFINE r == [pull[p] EXCEPT !.step = "get"]
    <2>1. /\ pull' = [pull EXCEPT ![p] = r] /\ UNCHANGED <<terminalLog, nameless, access_logs, device_status>>
      BY <1>1 DEF StartPull
    <2>2. r \in Pull /\ r.step = "get" /\ r.seen = pull[p].seen
      BY <1>t DEF Pull
    <2>3. OkPullsAreComplete'
      BY <2>1 DEF PullInv, OkPullsAreComplete
    <2> QED
      BY <1>t, <2>1, <2>2, <2>3, OnePullMoves
  <1>2. ASSUME PullGet(p) PROVE PullInv'
    <2> DEFINE r == IF firmware.get THEN [step |-> "store", seen |-> DOMAIN terminalLog]
                                    ELSE [pull[p] EXCEPT !.step = "search"]
    <2>1. /\ pull' = [pull EXCEPT ![p] = r] /\ UNCHANGED <<terminalLog, nameless, access_logs, device_status>>
      BY <1>2 DEF PullGet
    <2>2. r \in Pull /\ r.step \in {"store", "search"} /\ r.seen \subseteq DOMAIN terminalLog
      <3>1. [step |-> "store", seen |-> DOMAIN terminalLog] \in Pull
        BY <1>s DEF Pull
      <3>2. [pull[p] EXCEPT !.step = "search"] \in [step : {"search"}, seen : {pull[p].seen}]
        BY <1>t DEF Pull
      <3> QED
        BY <1>t, <1>s, <3>1, <3>2 DEF Pull
    <2>3. OkPullsAreComplete'
      BY <2>1 DEF PullInv, OkPullsAreComplete
    <2> HIDE DEF r
    <2> QED
      BY <1>t, <2>1, <2>2, <2>3, OnePullMoves
  <1>3. ASSUME PullSearch(p) PROVE PullInv'
    <2> DEFINE r == [step |-> "store", seen |-> Oldest(searchWindow)]
    <2>1. /\ pull' = [pull EXCEPT ![p] = r] /\ UNCHANGED <<terminalLog, nameless, access_logs, device_status>>
      BY <1>3 DEF PullSearch
    <2>2. r \in Pull /\ r.step = "store" /\ r.seen \subseteq DOMAIN terminalLog
      BY <1>s DEF Pull, Oldest, searchWindow
    <2>3. OkPullsAreComplete'
      BY <2>1 DEF PullInv, OkPullsAreComplete
    <2> QED
      BY <1>t, <2>1, <2>2, <2>3, OnePullMoves
  <1>4. ASSUME PullStore(p) PROVE PullInv'
    <2> DEFINE r == [pull[p] EXCEPT !.step = "ok"]
    <2>1. /\ pull' = [pull EXCEPT ![p] = r] /\ UNCHANGED <<terminalLog, nameless, device_status>>
          /\ access_logs' = access_logs \cup PullRows(p)
      BY <1>4 DEF PullStore
    <2>2. r \in Pull /\ r.seen = pull[p].seen
      BY <1>t DEF Pull
    <2>3. OkPullsAreComplete'
      BY <2>1 DEF PullInv, OkPullsAreComplete
    <2> QED
      BY <1>t, <2>1, <2>2, <2>3, OnePullMoves DEF PullRows, collectAcsEvents
  <1>n. NoPull \in Pull /\ NoPull.step = "idle" /\ NoPull.seen = {}
    BY DEF NoPull, Pull
  <1>5. ASSUME PullReports(p) PROVE PullInv'
    <2> DEFINE rows == pull[p].seen \ nameless
    <2>1. /\ pull' = [pull EXCEPT ![p] = NoPull] /\ UNCHANGED <<terminalLog, nameless, access_logs>>
          /\ device_status' = [ok |-> TRUE, count |-> Cardinality(Oldest(rows)), seen |-> pull[p].seen]
          /\ Oldest(rows) \subseteq access_logs
      BY <1>h, <1>5 DEF PullReports, recordPullStatus, PullRows, collectAcsEvents, HasItsRows
    <2>2. Cardinality(Oldest(rows)) < MAX_EVENT_BATCH => Oldest(rows) = rows
      <3>1. rows \in SUBSET (1 .. Len(terminalLog))
        BY <1>t, <1>s
      <3> HIDE DEF rows
      <3> SUFFICES ASSUME Oldest(rows) # rows PROVE ~(Cardinality(Oldest(rows)) < MAX_EVENT_BATCH)
        OBVIOUS
      <3>2. IsFiniteSet(Oldest(rows)) /\ Cardinality(Oldest(rows)) >= MAX_EVENT_BATCH
        BY <1>s, <3>1, OldestIsAllOrFull
      <3>3. Cardinality(Oldest(rows)) \in Nat /\ MAX_EVENT_BATCH \in Nat
        BY <3>2, FS_CardinalityType, TunnelAssumption
      <3> QED
        BY <3>2, <3>3
    <2>3. OkPullsAreComplete'
      BY <2>1, <2>2 DEF OkPullsAreComplete
    <2> HIDE DEF rows
    <2>4. device_status'.seen \subseteq DOMAIN terminalLog
      BY <1>t, <2>1
    <2> QED
      BY <1>n, <2>1, <2>3, <2>4, OnePullMoves
  <1>6. ASSUME PullFails(p) PROVE PullInv'
    <2>1. /\ pull' = [pull EXCEPT ![p] = NoPull] /\ UNCHANGED <<terminalLog, nameless, access_logs>>
          /\ device_status' = [ok |-> FALSE, count |-> 0, seen |-> {}]
      BY <1>6 DEF PullFails, recordPullStatus
    <2>2. OkPullsAreComplete'
      BY <2>1 DEF OkPullsAreComplete
    <2> QED
      BY <1>n, <2>1, <2>2, OnePullMoves
  <1> QED
    BY <1>1, <1>2, <1>3, <1>4, <1>5, <1>6 DEF pullAccessLogs

LEMMA LogGrows == ASSUME PullInv, TerminalLogs PROVE PullInv'
  <1> DEFINE older == [i \in DOMAIN terminalLog |-> terminalLog[i] + 1]
  <1>1. terminalLog' = Append(older, 0) /\ UNCHANGED <<access_logs, device_status, pull>>
    BY DEF TerminalLogs
  <1>0. \A S \in SUBSET DOMAIN terminalLog : S \ nameless' = S \ nameless
    <2>1. DOMAIN terminalLog = 1 .. Len(terminalLog) /\ Len(terminalLog) \in Nat
      BY DEF PullInv
    <2>2. Len(terminalLog) + 1 \notin DOMAIN terminalLog
      BY <2>1
    <2> QED
      BY <2>2 DEF TerminalLogs
  <1>2. older \in Seq(Nat) /\ DOMAIN older = DOMAIN terminalLog
    <2>1. /\ DOMAIN terminalLog = 1 .. Len(terminalLog) /\ Len(terminalLog) \in Nat
          /\ \A i \in DOMAIN terminalLog : terminalLog[i] \in Nat
      BY DEF PullInv
    <2>2. older \in [1 .. Len(terminalLog) -> Nat]
      BY <2>1
    <2> QED
      BY <2>1, <2>2
  <1> HIDE DEF older
  <1>3. terminalLog' \in Seq(Nat) /\ DOMAIN terminalLog \subseteq DOMAIN terminalLog'
    BY <1>1, <1>2
  <1>4. OkPullsAreComplete' /\ device_status'.seen \subseteq DOMAIN terminalLog'
    <2>1. device_status.seen \ nameless' = device_status.seen \ nameless
      BY <1>0 DEF PullInv
    <2>2. OkPullsAreComplete
      BY DEF PullInv
    <2> QED
      BY <1>1, <1>3, <2>1, <2>2 DEF PullInv, OkPullsAreComplete
  <1>5. pull' \in [Pullers -> Pull]
    BY <1>1 DEF PullInv
  <1>6. ASSUME NEW q \in Pullers PROVE (SawTheLog(pull[q]) /\ HasItsRows(pull[q]))'
    <2>1. SawTheLog(pull[q]) /\ HasItsRows(pull[q])
      BY DEF PullInv
    <2>2. pull'[q] = pull[q] /\ access_logs' = access_logs
      BY <1>1
    <2>3. pull[q].seen \ nameless' = pull[q].seen \ nameless
      BY <1>0, <2>1 DEF SawTheLog
    <2> QED
      BY <1>3, <2>1, <2>2, <2>3 DEF SawTheLog, HasItsRows, Oldest
  <1> QED
    BY <1>3, <1>4, <1>5, <1>6 DEF PullInv

Row == [version : 0..MaxVersions, status : {"none", "pending", "synced", "failed"}]
Sync == [step : {"idle", "push"}, todo : SUBSET (Employees \X (0..MaxVersions)),
         done : SUBSET Employees, failed : SUBSET Employees, staged : BOOLEAN]

UserTypes ==
    /\ device_users \in [Employees -> Row]
    /\ terminalUsers \in [Employees -> 0..MaxVersions]
    /\ syncing \in [Syncers -> Sync]

\* A request that carries users is right about each of them, or the user was raced: one
\* it has still to push is the row as it is now, one it pushed is on the terminal.
OnTerminal(e) == terminalUsers[e] = device_users[e].version \/ e \in racedUsers
TodoIsNow(r) == \A e \in Employees, v \in 0..MaxVersions :
                    <<e, v>> \in r.todo => v = device_users[e].version \/ e \in racedUsers
DoneIsThere(r) == \A e \in r.done : OnTerminal(e)
UserInv ==
    /\ UserTypes
    /\ \A s \in Syncers : TodoIsNow(syncing[s]) /\ DoneIsThere(syncing[s])
    /\ \A e \in Employees : device_users[e].status = "synced" => OnTerminal(e)

LEMMA UsersStart == TunnelInit => UserInv
  <1> SUFFICES ASSUME TunnelInit PROVE UserInv
    OBVIOUS
  <1>1. 0 \in 0..MaxVersions
    BY TunnelAssumption
  <1>2. NoSyncing \in Sync /\ NoSyncing.todo = {} /\ NoSyncing.done = {}
    BY DEF NoSyncing, Sync
  <1>3. Empty \in Row /\ Empty.status = "none"
    BY <1>1 DEF Empty, Row
  <1>4. UserTypes
    BY <1>1, <1>2, <1>3 DEF TunnelInit, UserTypes
  <1>5. \A s \in Syncers : TodoIsNow(syncing[s]) /\ DoneIsThere(syncing[s])
    BY <1>2 DEF TunnelInit, TodoIsNow, DoneIsThere
  <1> QED
    BY <1>3, <1>4, <1>5 DEF UserInv, TunnelInit

LEMMA UsersStay == ASSUME UserInv, UNCHANGED userVars PROVE UserInv'
  BY DEF UserInv, UserTypes, TodoIsNow, DoneIsThere, OnTerminal, userVars

\* What one request does to its own record, with the rows as they were.
LEMMA OneSyncMoves ==
    ASSUME UserInv, NEW s \in Syncers, NEW r \in Sync, syncing' = [syncing EXCEPT ![s] = r],
           UNCHANGED device_users, terminalUsers' \in [Employees -> 0..MaxVersions],
           \A e \in Employees : OnTerminal(e) => OnTerminal(e)',
           racedUsers \subseteq racedUsers', TodoIsNow(r)', DoneIsThere(r)'
    PROVE  UserInv'
  <1>1. UserTypes'
    BY DEF UserInv, UserTypes
  <1>2. ASSUME NEW q \in Syncers PROVE (TodoIsNow(syncing[q]) /\ DoneIsThere(syncing[q]))'
    <2>1. CASE q = s
      <3>1. syncing'[q] = r
        BY <2>1 DEF UserInv, UserTypes
      <3> QED
        BY <3>1 DEF TodoIsNow, DoneIsThere, OnTerminal
    <2>2. CASE q # s
      <3>1. syncing'[q] = syncing[q]
        BY <2>2 DEF UserInv, UserTypes
      <3>2. TodoIsNow(syncing[q]) /\ DoneIsThere(syncing[q])
        BY DEF UserInv
      <3>3. \A e \in syncing[q].done : OnTerminal(e)'
        <4>1. syncing[q].done \subseteq Employees
          BY DEF UserInv, UserTypes, Sync
        <4> QED
          BY <3>2, <4>1 DEF DoneIsThere
      <3> QED
        BY <3>1, <3>2, <3>3 DEF TodoIsNow, DoneIsThere, OnTerminal
    <2> QED
      BY <2>1, <2>2
  <1>3. \A e \in Employees : (device_users[e].status = "synced" => OnTerminal(e))'
    BY DEF UserInv
  <1> QED
    BY <1>1, <1>2, <1>3 DEF UserInv

LEMMA StagingKeepsUsers == ASSUME UserInv, NEW e \in Employees, StageUser(e) PROVE UserInv'
  <1> DEFINE row == [version |-> device_users[e].version + 1, status |-> "pending"]
  <1>1. /\ device_users' = [device_users EXCEPT ![e] = row] /\ UNCHANGED <<terminalUsers, syncing>>
        /\ device_users[e].version < MaxVersions
    BY DEF StageUser
  <1>2. racedUsers' = IF InFlight(e) THEN racedUsers \cup {e} ELSE racedUsers \ {e}
    BY DEF StageUser
  <1>3. row \in Row /\ row.status = "pending"
    <2>1. device_users[e].version \in 0..MaxVersions /\ MaxVersions \in Nat
      BY TunnelAssumption DEF UserInv, UserTypes, Row
    <2>2. device_users[e].version + 1 \in 0..MaxVersions
      BY <1>1, <2>1
    <2> QED
      BY <2>2 DEF Row
  <1> HIDE DEF row
  <1>4. UserTypes'
    BY <1>1, <1>3 DEF UserInv, UserTypes
  <1>5. \A d \in Employees \ {e} :
            device_users'[d] = device_users[d] /\ (d \in racedUsers' <=> d \in racedUsers)
    BY <1>1, <1>2 DEF UserInv, UserTypes
  <1>6. ASSUME NEW s \in Syncers PROVE (TodoIsNow(syncing[s]) /\ DoneIsThere(syncing[s]))'
    <2>1. TodoIsNow(syncing[s]) /\ DoneIsThere(syncing[s]) /\ syncing' = syncing
      BY <1>1 DEF UserInv
    <2>2. InFlight(e) => e \in racedUsers'
      BY <1>2
    <2>3. ASSUME NEW d \in Employees, NEW v \in 0..MaxVersions, <<d, v>> \in syncing[s].todo
          PROVE  v = device_users'[d].version \/ d \in racedUsers'
      <3>1. CASE d = e
        <4>1. <<e, v>> \in syncing[s].todo
          BY <2>3, <3>1
        <4>2. InFlight(e)
          BY <4>1 DEF InFlight
        <4> QED
          BY <2>2, <3>1, <4>2
      <3>2. CASE d # e
        <4>1. v = device_users[d].version \/ d \in racedUsers
          BY <2>1, <2>3 DEF TodoIsNow
        <4>2. device_users'[d] = device_users[d] /\ (d \in racedUsers' <=> d \in racedUsers)
          BY <1>5, <3>2
        <4> QED
          BY <4>1, <4>2
      <3> QED
        BY <3>1, <3>2
    <2>4. ASSUME NEW d \in syncing[s].done PROVE OnTerminal(d)'
      <3>0. d \in Employees
        BY DEF UserInv, UserTypes, Sync
      <3>1. CASE d = e
        BY <2>2, <3>1 DEF InFlight, OnTerminal
      <3>2. CASE d # e
        BY <1>1, <1>5, <2>1, <3>0, <3>2 DEF DoneIsThere, OnTerminal
      <3> QED
        BY <3>1, <3>2
    <2> QED
      BY <2>1, <2>3, <2>4 DEF TodoIsNow, DoneIsThere, OnTerminal
  <1>7. ASSUME NEW d \in Employees, device_users'[d].status = "synced" PROVE OnTerminal(d)'
    <2>1. d # e
      <3>1. device_users'[e] = row
        BY <1>1 DEF UserInv, UserTypes
      <3> QED
        BY <1>3, <1>7, <3>1
    <2>2. device_users'[d] = device_users[d] /\ (d \in racedUsers' <=> d \in racedUsers)
      BY <1>5, <2>1
    <2>3. device_users[d].status = "synced"
      BY <1>7, <2>2
    <2>4. OnTerminal(d)
      BY <2>3 DEF UserInv
    <2> QED
      BY <1>1, <2>2, <2>4 DEF OnTerminal
  <1> QED
    BY <1>4, <1>6, <1>7 DEF UserInv

LEMMA SyncingKeepsUsers == ASSUME UserInv, NEW s \in Syncers, handleSyncUser(s) PROVE UserInv'
  <1>t. /\ syncing[s] \in Sync /\ TodoIsNow(syncing[s]) /\ DoneIsThere(syncing[s])
        /\ device_users \in [Employees -> Row] /\ terminalUsers \in [Employees -> 0..MaxVersions]
    BY DEF UserInv, UserTypes
  <1>1. ASSUME SyncStaged(s) PROVE UserInv'
    <2>1. PICK S \in stagedUsers : syncing' = [syncing EXCEPT ![s] =
            [NoSyncing EXCEPT !.step = "push", !.staged = TRUE,
                              !.todo = {<<e, device_users[e].version>> : e \in S}]]
      BY <1>1 DEF SyncStaged
    <2> DEFINE todo == {<<e, device_users[e].version>> : e \in S}
               r1 == [NoSyncing EXCEPT !.step = "push", !.staged = TRUE, !.todo = todo]
    <2>2. UNCHANGED <<device_users, terminalUsers, racedUsers>>
      BY <1>1 DEF SyncStaged
    <2>3. S \subseteq Employees /\ \A e \in Employees : device_users[e].version \in 0..MaxVersions
      BY <1>t DEF stagedUsers, Row
    <2>4. /\ todo \in SUBSET (Employees \X (0..MaxVersions))
          /\ \A e \in Employees, v \in 0..MaxVersions : <<e, v>> \in todo => v = device_users[e].version
      BY <2>3
    <2> HIDE DEF todo
    <2>5. r1 \in [step : {"push"}, todo : {todo}, done : {{}}, failed : {{}}, staged : {TRUE}]
      BY DEF NoSyncing
    <2>m. syncing' = [syncing EXCEPT ![s] = r1]
      BY <2>1 DEF todo
    <2> HIDE DEF r1
    <2>6. PICK r \in Sync : r.todo = todo /\ r.done = {} /\ syncing' = [syncing EXCEPT ![s] = r]
      BY <2>4, <2>5, <2>m DEF Sync
    <2>7. TodoIsNow(r)' /\ DoneIsThere(r)'
      BY <2>2, <2>4, <2>6 DEF TodoIsNow, DoneIsThere
    <2> QED
      BY <1>t, <2>2, <2>6, <2>7, OneSyncMoves DEF OnTerminal
  <1>2. ASSUME NEW e \in Employees, SyncBody(s, e) PROVE UserInv'
    <2>1. PICK v \in 1..MaxVersions : syncing' = [syncing EXCEPT ![s] =
            [NoSyncing EXCEPT !.step = "push", !.todo = {<<e, v>>}]]
      BY <1>2 DEF SyncBody
    <2> DEFINE r1 == [NoSyncing EXCEPT !.step = "push", !.todo = {<<e, v>>}]
    <2>2. UNCHANGED <<device_users, terminalUsers>> /\ racedUsers' = racedUsers \cup {e}
      BY <1>2 DEF SyncBody
    <2>3. v \in 0..MaxVersions
      OBVIOUS
    <2>4. r1 \in [step : {"push"}, todo : {{<<e, v>>}}, done : {{}}, failed : {{}}, staged : {FALSE}]
      BY DEF NoSyncing
    <2>m. syncing' = [syncing EXCEPT ![s] = r1]
      BY <2>1
    <2> HIDE DEF r1
    <2>5. {<<e, v>>} \in SUBSET (Employees \X (0..MaxVersions))
      BY <2>3
    <2>6. PICK r \in Sync : r.todo = {<<e, v>>} /\ r.done = {} /\ syncing' = [syncing EXCEPT ![s] = r]
      BY <2>4, <2>5, <2>m DEF Sync
    <2>7. TodoIsNow(r)' /\ DoneIsThere(r)'
      BY <2>2, <2>6 DEF TodoIsNow, DoneIsThere
    <2> QED
      BY <1>t, <2>2, <2>6, <2>7, OneSyncMoves DEF OnTerminal
  <1>3. ASSUME NEW u \in syncing[s].todo, pushUserToDevice(s, u) PROVE UserInv'
    <2>1. /\ u = <<u[1], u[2]>> /\ u[1] \in Employees /\ u[2] \in 0..MaxVersions
          /\ u[2] = device_users[u[1]].version \/ u[1] \in racedUsers
      BY <1>t DEF Sync, TodoIsNow
    <2>2. PICK ok \in BOOLEAN :
            /\ Pushed(s, u, ok)
            /\ \/ terminalUsers' = [terminalUsers EXCEPT ![u[1]] = u[2]]
               \/ ~ok /\ terminalUsers' = terminalUsers
      BY <1>3 DEF pushUserToDevice
    <2> DEFINE r1 == [syncing[s] EXCEPT !.todo = @ \ {u},
                                        !.done = IF ok THEN @ \cup {u[1]} ELSE @,
                                        !.failed = IF ok THEN @ ELSE @ \cup {u[1]}]
    <2>3. UNCHANGED <<device_users, racedUsers>>
      BY <1>3 DEF pushUserToDevice
    <2>4. syncing' = [syncing EXCEPT ![s] = r1]
      BY <2>2 DEF Pushed, UserInv, UserTypes
    <2>5. /\ r1.todo = syncing[s].todo \ {u}
          /\ r1.done = IF ok THEN syncing[s].done \cup {u[1]} ELSE syncing[s].done
      BY <1>t DEF Sync
    <2>m. r1 \in Sync
      BY <1>t, <2>1 DEF Sync
    <2> HIDE DEF r1
    <2>6. PICK r \in Sync : /\ syncing' = [syncing EXCEPT ![s] = r]
                            /\ r.todo = syncing[s].todo \ {u}
                            /\ r.done = IF ok THEN syncing[s].done \cup {u[1]} ELSE syncing[s].done
      BY <2>4, <2>5, <2>m
    <2>7. \A e \in Employees : OnTerminal(e) => OnTerminal(e)'
      BY <1>t, <2>1, <2>2, <2>3 DEF OnTerminal
    <2>8. ASSUME ok, NEW e \in Employees, e = u[1] PROVE OnTerminal(e)'
      <3>1. terminalUsers'[e] = u[2]
        BY <1>t, <2>1, <2>2, <2>8
      <3> QED
        BY <2>1, <2>3, <2>8, <3>1 DEF OnTerminal
    <2>9. TodoIsNow(r)'
      BY <1>t, <2>3, <2>6 DEF TodoIsNow
    <2>10. DoneIsThere(r)'
      <3>1. syncing[s].done \subseteq Employees
        BY <1>t DEF Sync
      <3> QED
        BY <1>t, <2>1, <2>6, <2>7, <2>8, <3>1 DEF DoneIsThere
    <2>11. terminalUsers' \in [Employees -> 0..MaxVersions]
      BY <1>t, <2>1, <2>2
    <2> QED
      BY <2>3, <2>6, <2>7, <2>9, <2>10, <2>11, OneSyncMoves
  <1>4. ASSUME markStaged(s) PROVE UserInv'
    <2>1. /\ syncing' = [syncing EXCEPT ![s] = NoSyncing] /\ UNCHANGED <<terminalUsers, racedUsers>>
          /\ device_users' = IF syncing[s].staged
                             THEN [e \in Employees |-> [device_users[e] EXCEPT !.status = Marked(s, e)]]
                             ELSE device_users
      BY <1>4 DEF markStaged
    <2>2. ASSUME NEW e \in Employees
          PROVE  /\ device_users'[e] \in Row /\ device_users'[e].version = device_users[e].version
                 /\ \/ device_users'[e].status = device_users[e].status
                    \/ device_users'[e].status = "failed"
                    \/ e \in syncing[s].done
      <3>1. Marked(s, e) \in {"none", "pending", "synced", "failed"}
        BY <1>t DEF Marked, Row
      <3>2. device_users[e] \in Row
        BY <1>t
      <3>3. CASE syncing[s].staged
        <4>1. device_users'[e] = [device_users[e] EXCEPT !.status = Marked(s, e)]
          BY <2>1, <3>3
        <4>2. device_users'[e] \in [version : {device_users[e].version}, status : {Marked(s, e)}]
          BY <3>2, <4>1 DEF Row
        <4>3. device_users'[e].status = Marked(s, e) /\ device_users'[e].version = device_users[e].version
          BY <4>2
        <4>4. device_users'[e] \in Row
          BY <3>1, <3>2, <4>2 DEF Row
        <4> QED
          BY <4>3, <4>4 DEF Marked
      <3> QED
        BY <2>1, <3>2, <3>3
    <2>3. NoSyncing \in Sync /\ NoSyncing.todo = {} /\ NoSyncing.done = {}
      BY DEF NoSyncing, Sync
    <2>4. UserTypes'
      <3>1. device_users' \in [Employees -> Row]
        <4>1. CASE syncing[s].staged
          BY <2>1, <2>2, <4>1
        <4>2. CASE ~syncing[s].staged
          BY <1>t, <2>1, <4>2
        <4> QED
          BY <4>1, <4>2
      <3> QED
        BY <2>1, <2>3, <3>1 DEF UserInv, UserTypes
    <2>5. \A e \in Employees : OnTerminal(e) => OnTerminal(e)'
      BY <2>1, <2>2 DEF OnTerminal
    <2>6. ASSUME NEW q \in Syncers PROVE (TodoIsNow(syncing[q]) /\ DoneIsThere(syncing[q]))'
      <3>1. CASE q = s
        <4>1. syncing'[q] = NoSyncing
          BY <2>1, <3>1 DEF UserInv, UserTypes
        <4> QED
          BY <2>3, <4>1 DEF TodoIsNow, DoneIsThere
      <3>2. CASE q # s
        <4>1. syncing'[q] = syncing[q]
          BY <2>1, <3>2 DEF UserInv, UserTypes
        <4>2. TodoIsNow(syncing[q]) /\ DoneIsThere(syncing[q]) /\ syncing[q].done \subseteq Employees
          BY DEF UserInv, UserTypes, Sync
        <4>3. TodoIsNow(syncing[q])'
          BY <2>1, <2>2, <4>1, <4>2 DEF TodoIsNow
        <4> QED
          BY <2>5, <4>1, <4>2, <4>3 DEF DoneIsThere
      <3> QED
        BY <3>1, <3>2
    <2>7. ASSUME NEW e \in Employees, device_users'[e].status = "synced" PROVE OnTerminal(e)'
      <3>1. CASE e \in syncing[s].done
        BY <1>t, <2>5, <3>1 DEF DoneIsThere
      <3>2. CASE e \notin syncing[s].done
        BY <2>2, <2>5, <2>7, <3>2 DEF UserInv
      <3> QED
        BY <3>1, <3>2
    <2> QED
      BY <2>4, <2>6, <2>7 DEF UserInv
  <1> QED
    BY <1>1, <1>2, <1>3, <1>4 DEF handleSyncUser

TunnelInv == PullInv /\ UserInv

LEMMA TunnelStarts == TunnelInit => TunnelInv
  BY PullsStart, UsersStart DEF TunnelInv

LEMMA TunnelStep == TunnelInv /\ [TunnelNext]_tunnelVars => TunnelInv'
  <1> SUFFICES ASSUME TunnelInv, [TunnelNext]_tunnelVars PROVE TunnelInv'
    OBVIOUS
  <1>i. PullInv /\ UserInv
    BY DEF TunnelInv
  <1>1. CASE UNCHANGED tunnelVars
    BY <1>i, <1>1, PullsStay, UsersStay DEF TunnelInv, tunnelVars
  <1>2. CASE TerminalLogs
    <2>1. UNCHANGED userVars
      BY <1>2 DEF TerminalLogs
    <2> QED
      BY <1>i, <1>2, <2>1, LogGrows, UsersStay DEF TunnelInv
  <1>3. ASSUME NEW p \in Pullers, pullAccessLogs(p) PROVE TunnelInv'
    <2>1. UNCHANGED userVars
      BY <1>3 DEF pullAccessLogs, StartPull, PullGet, PullSearch, PullStore, PullReports, PullFails
    <2> QED
      BY <1>i, <1>3, <2>1, PullsStep, UsersStay DEF TunnelInv
  <1>4. ASSUME NEW e \in Employees, StageUser(e) PROVE TunnelInv'
    <2>1. UNCHANGED pullVars
      BY <1>4 DEF StageUser
    <2> QED
      BY <1>i, <1>4, <2>1, StagingKeepsUsers, PullsStay DEF TunnelInv
  <1>5. ASSUME NEW s \in Syncers, handleSyncUser(s) PROVE TunnelInv'
    <2>1. UNCHANGED pullVars
      BY <1>5 DEF handleSyncUser, SyncStaged, SyncBody, pushUserToDevice, markStaged
    <2> QED
      BY <1>i, <1>5, <2>1, SyncingKeepsUsers, PullsStay DEF TunnelInv
  <1> QED
    BY <1>1, <1>2, <1>3, <1>4, <1>5 DEF TunnelNext, PullsNext, UsersNext

\* What the tunnel Worker reports is true (TunnelReportsAreTrue), for any number of
\* pulls and of requests, of users and events, and any size of the batches: a row reads
\* synced only while the terminal holds that version of the user, or the user was raced;
\* and a pull that reports fewer rows than a batch holds has stored all the events it saw.
THEOREM TunnelReportsHold == TunnelSpec => []TunnelReportsAreTrue
  <1>1. TunnelInv => TunnelReportsAreTrue
    BY DEF TunnelInv, PullInv, UserInv, OnTerminal, TunnelReportsAreTrue, SyncedRowsAreOnTerminal
  <1> QED
    BY <1>1, TunnelStarts, TunnelStep, PTL DEF TunnelSpec
-----------------------------------------------------------------------------
(* What the clock pass reports *)

Clocks == DOMAIN Firmware

\* What a process remembers of a terminal: a drift that was read, of a time that names
\* one instant, is how far the terminal was off.
Honest(s) == s.checked /\ ~s.ambiguous => s.driftMs = s.actual
Report == {s \in [driftMs : Int, lastError : BOOLEAN, synced : BOOLEAN, checked : BOOLEAN,
                  actual : Int, ambiguous : BOOLEAN] : Honest(s)}
\* A pass that is under way has a terminal to be at.
Underway == {r \in [left : Seq(Clocks), at : {"rest", "read", "set", "confirm", "done"},
                    state : Report] : r.at \in {"read", "set", "confirm"} => r.left # <<>>}
ClockInv ==
    /\ zone \in [before : Int, after : Int] /\ now \in Int
    /\ err \in [Clocks -> Int]
    /\ pass \in [Procs -> Underway]
    /\ clockStates \in [Procs -> [Clocks -> Report]]

\* A wall clock that shows one instant is read as that instant, whatever the two offsets
\* of the zone and the instant of its transition.
LEMMA WallClockIsRead ==
    ASSUME zone \in [before : Int, after : Int], NEW i \in Int,
           ~Ambiguous(formatEstateLocalTime(i))
    PROVE  instantFromWallClock(formatEstateLocalTime(i)) = i
  <1>1. zone.before \in Int /\ zone.after \in Int /\ Transition \in Int
    BY ClockAssumption
  <1>2. CASE i < Transition
    BY <1>1, <1>2 DEF Ambiguous, formatEstateLocalTime, instantFromWallClock, Offset
  <1>3. CASE ~(i < Transition)
    BY <1>1, <1>3 DEF Ambiguous, formatEstateLocalTime, instantFromWallClock, Offset
  <1> QED
    BY <1>2, <1>3

LEMMA UncheckedIsHonest == Unchecked \in Report /\ Rested \in Underway
  <1>1. Unchecked \in Report
    BY DEF Unchecked, Report, Honest
  <1> QED
    BY <1>1 DEF Rested, Underway

LEMMA ClocksStart == ClockInit => ClockInv
  <1> SUFFICES ASSUME ClockInit PROVE ClockInv
    OBVIOUS
  <1>1. MaxErr \in Int /\ zone \in [before : Int, after : Int]
    BY ClockAssumption DEF ClockInit
  <1>2. DOMAIN err = Clocks /\ err \in [Clocks -> {MaxErr}]
    BY DEF ClockInit, Clocks
  <1> QED
    BY <1>1, <1>2, UncheckedIsHonest DEF ClockInit, ClockInv

\* Where a pass is, and what a reading there remembers.
LEMMA PassIsSomewhere ==
    ASSUME ClockInv, NEW p \in Procs, pass[p].at \in {"read", "set", "confirm"}
    PROVE  /\ pass[p] \in Underway /\ pass[p].state \in Report
           /\ pass[p].left \in Seq(Clocks) /\ pass[p].left # <<>>
           /\ Terminal(p) \in Clocks /\ Tail(pass[p].left) \in Seq(Clocks)
           /\ clockStates[p][Terminal(p)] \in Report
  <1>1. pass[p] \in Underway
    BY DEF ClockInv
  <1>2. pass[p].left \in Seq(Clocks) /\ pass[p].left # <<>> /\ pass[p].state \in Report
    BY <1>1 DEF Underway
  <1>3. Terminal(p) \in Clocks /\ Tail(pass[p].left) \in Seq(Clocks)
    BY <1>2, HeadTailProperties DEF Terminal
  <1> QED
    BY <1>1, <1>2, <1>3 DEF ClockInv

LEMMA ReadingIsHonest ==
    ASSUME ClockInv, NEW p \in Procs, NEW s \in Report, Terminal(p) \in Clocks
    PROVE  Reading(p, s) \in Report
  <1> DEFINE i == now + err[Terminal(p)]
             wall == formatEstateLocalTime(i)
  <1>1. err[Terminal(p)] \in Int /\ now \in Int /\ i \in Int
    BY DEF ClockInv
  <1>2. readTerminalClock(Terminal(p)) \in Int
    <2>1. wall \in Int
      BY <1>1, ClockAssumption DEF ClockInv, formatEstateLocalTime, Offset
    <2>2. instantFromWallClock(wall) \in Int
      BY <2>1, ClockAssumption DEF ClockInv, instantFromWallClock, Offset
    <2> HIDE DEF wall
    <2> QED
      BY <1>1, <2>2 DEF readTerminalClock, wall
  <1>3. ~Ambiguous(wall) => readTerminalClock(Terminal(p)) = err[Terminal(p)]
    <2>1. ~Ambiguous(wall) => instantFromWallClock(wall) = i
      BY <1>1, WallClockIsRead DEF ClockInv
    <2> HIDE DEF wall
    <2> QED
      BY <1>1, <2>1 DEF readTerminalClock, wall
  <1>4. Ambiguous(wall) \in BOOLEAN
    BY DEF Ambiguous
  <1>5. Reading(p, s) \in [driftMs : {readTerminalClock(Terminal(p))}, lastError : {FALSE},
                           synced : BOOLEAN, checked : {TRUE}, actual : {err[Terminal(p)]},
                           ambiguous : {Ambiguous(wall)}]
    BY DEF Reading, Report
  <1> HIDE DEF wall
  <1> QED
    BY <1>1, <1>2, <1>3, <1>4, <1>5 DEF Report, Honest

LEMMA FailedIsHonest == ASSUME NEW s \in Report PROVE Failed(s) \in Report
  BY DEF Failed, Report, Honest

LEMMA SyncedIsHonest == ASSUME NEW s \in Report PROVE [s EXCEPT !.synced = TRUE] \in Report
  BY DEF Report, Honest

LEMMA LongTails == ASSUME NEW S, NEW q \in Seq(S), Len(q) > 1 PROVE Tail(q) # <<>>
  <1> DEFINE t == Tail(q)
  <1>1. q # <<>> /\ Len(q) \in Nat
    BY LenProperties, EmptySeq
  <1>2. t \in Seq(S) /\ Len(t) = Len(q) - 1
    BY <1>1, HeadTailProperties
  <1> HIDE DEF t
  <1>3. Len(t) # 0
    BY <1>1, <1>2
  <1>4. t # <<>>
    BY <1>3, <1>2, EmptySeq
  <1> QED
    BY <1>4 DEF t

\* A terminal is done with: its report is remembered, and the pass goes on.
LEMMA FinishKeeps ==
    ASSUME ClockInv, NEW p \in Procs, pass[p].at \in {"read", "set", "confirm"},
           NEW s \in Report, Finish(p, s), UNCHANGED zone, now' \in Int, err' \in [Clocks -> Int]
    PROVE  ClockInv'
  <1>1. clockStates' \in [Procs -> [Clocks -> Report]]
    BY PassIsSomewhere DEF Finish, ClockInv
  <1> DEFINE r == [pass[p] EXCEPT !.left = Tail(@), !.state = Unchecked,
                                  !.at = IF Len(pass[p].left) > 1 THEN "read" ELSE "done"]
  <1>2. r \in Underway
    <2>1. /\ pass[p] \in Underway /\ pass[p].left \in Seq(Clocks) /\ pass[p].left # <<>>
          /\ Tail(pass[p].left) \in Seq(Clocks)
      BY PassIsSomewhere
    <2>2. Len(pass[p].left) > 1 => Tail(pass[p].left) # <<>>
      BY <2>1, LongTails
    <2>3. r \in [left : {Tail(pass[p].left)}, state : {Unchecked},
                 at : {IF Len(pass[p].left) > 1 THEN "read" ELSE "done"}]
      BY <2>1 DEF Underway
    <2> HIDE DEF r
    <2> QED
      BY <2>1, <2>2, <2>3, UncheckedIsHonest DEF Underway
  <1>3. pass' = [pass EXCEPT ![p] = r]
    BY DEF Finish, ClockInv
  <1> HIDE DEF r
  <1>4. pass' \in [Procs -> Underway]
    BY <1>2, <1>3 DEF ClockInv
  <1> QED
    BY <1>1, <1>4 DEF ClockInv

LEMMA EntersKeeps ==
    ASSUME ClockInv, NEW p \in Procs, pass[p].at \in {"read", "set", "confirm"},
           NEW s \in Report, NEW where \in {"set", "confirm"}, Enters(p, where, s),
           UNCHANGED <<zone, now, clockStates>>, err' \in [Clocks -> Int]
    PROVE  ClockInv'
  <1> DEFINE r == [pass[p] EXCEPT !.at = where, !.state = s]
  <1>1. pass[p] \in Underway /\ pass[p].left # <<>>
    BY PassIsSomewhere
  <1>2. r \in Underway
    BY <1>1 DEF Underway
  <1>3. pass' = [pass EXCEPT ![p] = r]
    BY DEF Enters, ClockInv
  <1> HIDE DEF r
  <1>4. pass' \in [Procs -> Underway]
    BY <1>2, <1>3 DEF ClockInv
  <1> QED
    BY <1>4 DEF ClockInv

LEMMA PassKeeps == ASSUME ClockInv, NEW p \in Procs, Pass(p) PROVE ClockInv'
  <1>e. err \in [Clocks -> Int] /\ now \in Int /\ DOMAIN err = Clocks
    BY DEF ClockInv
  <1>1. ASSUME checkAllTerminalClocks(p) PROVE ClockInv'
    <2> DEFINE r == [Rested EXCEPT !.left = ClockTerminals, !.at = "read"]
    <2>1. r \in Underway
      BY ClockAssumption, UncheckedIsHonest DEF Rested, Underway, Clocks
    <2>2. pass' = [pass EXCEPT ![p] = r] /\ UNCHANGED <<zone, now, err, clockStates>>
      BY <1>1 DEF checkAllTerminalClocks
    <2> HIDE DEF r
    <2> QED
      BY <2>1, <2>2 DEF ClockInv
  <1>2. ASSUME ClockReadFails(p) PROVE ClockInv'
    <2>1. pass[p].at = "read" /\ UNCHANGED <<zone, now, err>>
          /\ Finish(p, Failed(clockStates[p][Terminal(p)]))
      BY <1>2 DEF ClockReadFails, At
    <2>2. Failed(clockStates[p][Terminal(p)]) \in Report
      BY <2>1, PassIsSomewhere, FailedIsHonest
    <2> QED
      BY <1>e, <2>1, <2>2, FinishKeeps
  <1>3. ASSUME ClockRead(p) PROVE ClockInv'
    <2> DEFINE s == Reading(p, clockStates[p][Terminal(p)])
    <2>1. /\ pass[p].at = "read" /\ UNCHANGED <<zone, now, err>>
          /\ Finish(p, s) \/ (Enters(p, "set", s) /\ UNCHANGED clockStates)
      BY <1>3 DEF ClockRead, At
    <2>2. s \in Report
      BY <2>1, PassIsSomewhere, ReadingIsHonest
    <2> HIDE DEF s
    <2> QED
      BY <1>e, <2>1, <2>2, FinishKeeps, EntersKeeps
  <1>4. ASSUME setTerminalClock(p) PROVE ClockInv'
    <2>1. /\ pass[p].at = "set" /\ UNCHANGED <<zone, now, clockStates>>
          /\ Enters(p, "confirm", pass[p].state)
      BY <1>4 DEF setTerminalClock, At
    <2>2. PICK e \in -1..1 : err' = [err EXCEPT ![Terminal(p)] = e]
      BY <1>4 DEF setTerminalClock, Showing
    <2>0. e \in Int
      OBVIOUS
    <2>3. err' \in [Clocks -> Int]
      BY <1>e, <2>0, <2>2
    <2>4. pass[p].state \in Report
      BY <2>1, PassIsSomewhere
    <2> QED
      BY <2>1, <2>3, <2>4, EntersKeeps
  <1>5. ASSUME ClockSetFails(p) PROVE ClockInv'
    <2>1. pass[p].at = "set" /\ UNCHANGED <<zone, now, err>> /\ Finish(p, Failed(pass[p].state))
      BY <1>5 DEF ClockSetFails, At
    <2>2. Failed(pass[p].state) \in Report
      BY <2>1, PassIsSomewhere, FailedIsHonest
    <2> QED
      BY <1>e, <2>1, <2>2, FinishKeeps
  <1>6. ASSUME checkTerminalClock(p) PROVE ClockInv'
    <2> DEFINE s == Reading(p, pass[p].state)
    <2>1. /\ pass[p].at = "confirm" /\ UNCHANGED <<zone, now, err>>
          /\ Finish(p, [s EXCEPT !.synced = TRUE]) \/ Finish(p, [pass[p].state EXCEPT !.synced = TRUE])
      BY <1>6 DEF checkTerminalClock, At
    <2>2. s \in Report /\ pass[p].state \in Report
      BY <2>1, PassIsSomewhere, ReadingIsHonest
    <2> HIDE DEF s
    <2>3. [s EXCEPT !.synced = TRUE] \in Report /\ [pass[p].state EXCEPT !.synced = TRUE] \in Report
      BY <2>2, SyncedIsHonest
    <2> QED
      BY <1>e, <2>1, <2>3, FinishKeeps
  <1> QED
    BY <1>1, <1>2, <1>3, <1>4, <1>5, <1>6 DEF Pass

LEMMA ClocksStep == ClockInv /\ [ClockNext]_clockVars => ClockInv'
  <1> SUFFICES ASSUME ClockInv, [ClockNext]_clockVars PROVE ClockInv'
    OBVIOUS
  <1>1. CASE UNCHANGED clockVars
    BY <1>1 DEF ClockInv, clockVars
  <1>2. ASSUME NEW p \in Procs, Restarts(p) PROVE ClockInv'
    <2>1. [t \in DOMAIN err |-> Unchecked] \in [Clocks -> Report]
      BY UncheckedIsHonest DEF ClockInv
    <2> QED
      BY <1>2, <2>1, UncheckedIsHonest DEF ClockInv, Restarts
  <1>3. ASSUME NEW t \in DOMAIN err, Drifts(t) PROVE ClockInv'
    <2>1. PICK e \in -MaxErr..MaxErr : err' = [err EXCEPT ![t] = e]
      BY <1>3 DEF Drifts
    <2>2. e \in Int
      BY ClockAssumption
    <2>3. err' \in [Clocks -> Int]
      BY <2>1, <2>2 DEF ClockInv
    <2> QED
      BY <1>3, <2>3 DEF ClockInv, Drifts
  <1>4. CASE ClockTick
    BY <1>4 DEF ClockInv, ClockTick
  <1> QED
    BY <1>1, <1>2, <1>3, <1>4, PassKeeps DEF ClockNext

\* The reported drift of a terminal is how far it was off when it was read, in every
\* zone, with any transition, whatever fails or restarts in between; the hour that is
\* repeated is the only exception.
THEOREM ReportedDriftsAreTrue == ClockSpec => []DriftReportsAreTrue
  <1>1. ClockInv => DriftReportsAreTrue
    <2> SUFFICES ASSUME ClockInv, NEW p \in Procs, NEW t \in DOMAIN err
                 PROVE  Honest(clockStates[p][t])
      BY DEF DriftReportsAreTrue, Honest
    <2>1. clockStates[p][t] \in Report
      BY DEF ClockInv
    <2> QED
      BY <2>1 DEF Report
  <1> QED
    BY <1>1, ClocksStart, ClocksStep, PTL DEF ClockSpec
-----------------------------------------------------------------------------
(* The relay of the Pi gate *)

\* A relay that is on for no mode has a time to fall back, and that time is at most
\* one pulse away; a mode holds the relay by itself, and the disk knows the mode.
RelayIsArmed ==
    /\ door.relay /\ door.mode # "remain_open" =>
          door.offAt # Never /\ door.offAt <= nowMs + DoorOpen
    /\ door.mode = "remain_open" => door.relay /\ door.offAt = Never
    /\ door.mode = modeFile

DoorModes == {"normal", "remain_open", "remain_closed"}

RelayInv ==
    /\ gateTime \in Nat
    /\ firstEdge \in Int /\ firstEdge <= gateTime
    /\ firstEdge = Never \/ firstEdge >= 0
    /\ door \in [mode : DoorModes, relay : BOOLEAN, offAt : Int]
    /\ RelayIsArmed

LEMMA GateNumbers == ClockBase \in Nat /\ DoorOpen \in Nat /\ DoorOpen # 0
  BY GateAssumption

LEMMA RelayStarts == GateInit => RelayInv
  <1> SUFFICES ASSUME GateInit PROVE RelayInv
    OBVIOUS
  <1>1. gateTime = 0 /\ firstEdge = -1 /\ Never = -1 /\ modeFile = "normal"
    BY DEF GateInit, Never
  <1>2. door = [mode |-> "normal", relay |-> FALSE, offAt |-> -1]
    BY DEF GateInit, Never
  <1>3. RelayIsArmed
    <2>1. door.relay = FALSE /\ door.mode = "normal"
      BY <1>2
    <2>2. ~door.relay
      BY <2>1
    <2> QED
      BY <1>1, <2>1, <2>2 DEF RelayIsArmed
  <1> QED
    BY <1>1, <1>2, <1>3 DEF RelayInv, DoorModes

\* What the invariant reads.
LEMMA RelayRests ==
    ASSUME RelayInv, UNCHANGED <<gateTime, firstEdge, door, modeFile>>
    PROVE  RelayInv'
  BY DEF RelayInv, RelayIsArmed, nowMs

LEMMA TimePasses ==
    ASSUME RelayInv, gateTime' = gateTime + 1, UNCHANGED <<firstEdge, door, modeFile>>
    PROVE  RelayInv'
  <1>1. ClockBase \in Nat /\ DoorOpen \in Nat
    BY GateAssumption
  <1>2. PICK at : at = door.offAt
    OBVIOUS
  <1>3. at \in Int
    BY <1>2 DEF RelayInv
  <1>4. at <= ClockBase + gateTime + DoorOpen => at <= ClockBase + (gateTime + 1) + DoorOpen
    BY <1>1, <1>3 DEF RelayInv
  <1>5. gateTime + 1 \in Nat /\ firstEdge <= gateTime + 1
    BY DEF RelayInv
  <1>6. RelayIsArmed'
    BY <1>2, <1>4 DEF RelayInv, RelayIsArmed, nowMs
  <1> QED
    BY <1>5, <1>6 DEF RelayInv

\* An edge is stamped on a clock that started at the first edge, so its stamp is no
\* later than the process clock.
LEMMA EdgesAreStamped ==
    ASSUME RelayInv, Edge, UNCHANGED gateTime
    PROVE  /\ firstEdge' \in Int /\ firstEdge' <= gateTime' /\ (firstEdge' = Never \/ firstEdge' >= 0)
           /\ Stamp \in Nat /\ Stamp <= nowMs /\ nowMs \in Nat
  <1>1. ClockBase \in Nat /\ Never = -1
    BY GateAssumption DEF Never
  <1>2. firstEdge \in Int /\ firstEdge <= gateTime /\ gateTime \in Nat /\ (firstEdge = Never \/ firstEdge >= 0)
    BY DEF RelayInv
  <1> QED
    BY <1>1, <1>2 DEF Edge, Stamp, nowMs

\* A pulse ends at most a pulse from now.
LEMMA PulseIsShort ==
    ASSUME RelayInv, NEW at \in Nat, at <= nowMs, pulseDoor(at), UNCHANGED <<gateTime, modeFile>>
    PROVE  door' \in [mode : DoorModes, relay : BOOLEAN, offAt : Int] /\ RelayIsArmed'
  <1>1. DoorOpen \in Nat \ {0} /\ ClockBase \in Nat
    BY GateAssumption
  <1>2. PICK end : end = at + DoorOpen
    OBVIOUS
  <1>3. end \in Int /\ end # Never /\ end <= nowMs + DoorOpen
    BY <1>1, <1>2 DEF Never, nowMs, RelayInv
  <1>4. nowMs' = nowMs
    BY DEF nowMs
  <1>5. CASE door.mode = "remain_open"
    BY <1>4, <1>5 DEF RelayInv, RelayIsArmed, pulseDoor
  <1>6. CASE door.mode # "remain_open"
    <2>1. door' = [mode |-> door.mode, relay |-> TRUE, offAt |-> end]
      BY <1>2, <1>6 DEF pulseDoor, RelayInv
    <2> QED
      BY <1>3, <1>4, <1>6, <2>1 DEF RelayInv, RelayIsArmed
  <1> QED
    BY <1>5, <1>6

\* A relay that is switched off needs no time to fall back.
LEMMA SwitchedOff ==
    ASSUME RelayInv, door.mode # "remain_open", door' = [door EXCEPT !.relay = FALSE, !.offAt = Never],
           UNCHANGED <<gateTime, firstEdge, modeFile>>
    PROVE  RelayInv'
  <1>1. Never \in Int
    BY DEF Never
  <1>2. PICK mode \in DoorModes : mode = door.mode
    BY DEF RelayInv
  <1>3. door' = [mode |-> mode, relay |-> FALSE, offAt |-> Never]
    BY <1>2 DEF RelayInv
  <1>4. mode # "remain_open" /\ modeFile' = mode
    BY <1>2 DEF RelayInv, RelayIsArmed
  <1>5. RelayIsArmed'
    <2>1. PICK row : row = door'
      OBVIOUS
    <2>2. row = [mode |-> mode, relay |-> FALSE, offAt |-> Never]
      BY <1>3, <2>1
    <2>3. row.relay = FALSE /\ row.mode = mode
      BY <2>2
    <2>4. ~row.relay
      BY <2>3
    <2> QED
      BY <1>4, <2>1, <2>3, <2>4 DEF RelayIsArmed
  <1> QED
    BY <1>1, <1>3, <1>5 DEF RelayInv

LEMMA ModesAreKept ==
    ASSUME RelayInv, NEW mode \in DoorModes, door' = [mode |-> mode, relay |-> mode = "remain_open", offAt |-> Never],
           modeFile' = mode, gateTime' = gateTime,
           firstEdge' \in Int /\ firstEdge' <= gateTime /\ (firstEdge' = Never \/ firstEdge' >= 0)
    PROVE  RelayInv'
  <1>1. Never \in Int
    BY DEF Never
  <1> QED
    BY <1>1 DEF RelayInv, RelayIsArmed

LEMMA RelayStep == ASSUME RelayInv, [GateNext]_gateVars PROVE RelayInv'
  <1>1. CASE UNCHANGED gateVars
    BY <1>1, RelayRests DEF gateVars, doorVars
  <1>2. CASE GateRestarts
    <2>1. /\ door' = [mode |-> modeFile, relay |-> modeFile = "remain_open", offAt |-> Never]
          /\ modeFile' = modeFile /\ firstEdge' = Never /\ gateTime' = gateTime
      BY <1>2 DEF GateRestarts
    <2>2. modeFile \in DoorModes
      BY DEF RelayInv, RelayIsArmed
    <2>3. Never \in Int /\ (gateTime \in Nat => Never <= gateTime)
      BY DEF Never
    <2> QED
      BY <2>1, <2>2, <2>3, ModesAreKept DEF RelayInv
  <1>3. CASE GateCacheNext
    <2>1. CASE GateTick
      BY <2>1, TimePasses DEF GateTick, doorVars
    <2>2. CASE ~GateTick
      BY <1>3, <2>2, RelayRests DEF GateCacheNext, EstateChanges, GateHolderChanges, StartSync,
                                    SnapshotPageAnswered, ApplySnapshot, SyncPageFails, doorVars
    <2> QED
      BY <2>1, <2>2
  <1>4. CASE FlushNext
    BY <1>4, RelayRests DEF FlushNext, FlushStarts, BatchLeaves, FlushAccepted, FlushRefused, FlushFailed
  <1>5. ASSUME NEW at \in Nat, at <= nowMs, pulseDoor(at), Edge, UNCHANGED <<gateTime, modeFile>>
        PROVE  RelayInv'
    <2>1. door' \in [mode : DoorModes, relay : BOOLEAN, offAt : Int] /\ RelayIsArmed'
      BY <1>5, PulseIsShort
    <2> QED
      BY <1>5, <2>1, EdgesAreStamped DEF RelayInv
  <1>6. ASSUME Edge, UNCHANGED <<gateTime, door, modeFile>> PROVE RelayInv'
    <2>1. RelayIsArmed'
      BY <1>6 DEF RelayInv, RelayIsArmed, nowMs
    <2> QED
      BY <1>6, <2>1, EdgesAreStamped DEF RelayInv
  <1>7. CASE GateDoorNext
    <2>1. CASE GateTick
      BY <2>1, TimePasses DEF GateTick, doorVars
    <2>2. ASSUME NEW granted \in BOOLEAN, NEW whole \in BOOLEAN, handleCard(1, granted, whole) PROVE RelayInv'
      <3>1. (pulseDoor(nowMs) \/ UNCHANGED door) /\ Edge /\ UNCHANGED <<gateTime, modeFile>>
        BY <2>2 DEF handleCard
      <3> QED
        BY <3>1, <1>5, <1>6, EdgesAreStamped DEF nowMs
    <2>3. ASSUME NEW v \in Passes, handlePin(v) PROVE RelayInv'
      <3>1. (pulseDoor(nowMs) \/ UNCHANGED door) /\ Edge /\ UNCHANGED <<gateTime, modeFile>>
        BY <2>3 DEF handlePin
      <3> QED
        BY <3>1, <1>5, <1>6, EdgesAreStamped DEF nowMs
    <2>4. CASE pressExit
      <3>1. (pulseDoor(Stamp) \/ UNCHANGED door) /\ Edge /\ UNCHANGED <<gateTime, modeFile>>
        BY <2>4 DEF pressExit
      <3> QED
        BY <3>1, <1>5, <1>6, EdgesAreStamped
    <2>5. ASSUME NEW v \in Passes, VisitorOperation(v) PROVE RelayInv'
      BY <2>5, RelayRests DEF VisitorOperation
    <2>6. CASE applyDoorCommand
      <3>1. UNCHANGED <<gateTime, firstEdge>>
        BY <2>6 DEF applyDoorCommand
      <3>2. CASE pulseDoor(nowMs) /\ UNCHANGED modeFile
        <4>1. nowMs \in Nat /\ nowMs <= nowMs
          BY GateNumbers DEF nowMs, RelayInv
        <4>2. door' \in [mode : DoorModes, relay : BOOLEAN, offAt : Int] /\ RelayIsArmed'
          BY <3>1, <3>2, <4>1, PulseIsShort
        <4> QED
          BY <3>1, <4>2 DEF RelayInv
      <3>3. CASE /\ door' = IF door.mode = "remain_open" THEN door
                            ELSE [door EXCEPT !.relay = FALSE, !.offAt = Never]
                 /\ UNCHANGED modeFile
        BY <3>1, <3>3, RelayRests, SwitchedOff
      <3>4. ASSUME NEW mode \in {"remain_open", "remain_closed", "normal"}, setDoorMode(mode) PROVE RelayInv'
        <4>1. /\ mode \in DoorModes /\ modeFile' = mode
              /\ door' = [mode |-> mode, relay |-> mode = "remain_open", offAt |-> Never]
          BY <3>4 DEF setDoorMode, DoorModes
        <4>2. firstEdge' \in Int /\ firstEdge' <= gateTime /\ (firstEdge' = Never \/ firstEdge' >= 0)
          BY <3>1 DEF RelayInv
        <4> QED
          BY <3>1, <4>1, <4>2, ModesAreKept
      <3> QED
        BY <2>6, <3>2, <3>3, <3>4 DEF applyDoorCommand
    <2>7. CASE service
      BY <2>7, SwitchedOff DEF service
    <2> QED
      BY <1>7, <2>1, <2>2, <2>3, <2>4, <2>5, <2>6, <2>7 DEF GateDoorNext
  <1> QED
    BY <1>1, <1>2, <1>3, <1>4, <1>7 DEF GateNext, CacheNext, DoorNext

\* A door that was opened has a time to close, at most one pulse away by the process
\* clock, whichever clock stamped the pulse, and a power cut brings back the mode
\* and no more (pulseDoor, setDoorMode, service).
THEOREM OpenedDoorsHaveATime == GateSpec => []RelayIsArmed
  <1>1. RelayInv => RelayIsArmed
    BY DEF RelayInv
  <1> QED
    BY <1>1, RelayStarts, RelayStep, PTL DEF GateSpec
-----------------------------------------------------------------------------
(* Terminals that were removed *)

EventMark(a, d) == delivery[a].step = "seen" /\ delivery[a].device = d
HeartbeatMark(a, d) == request[a].step = "up" /\ d \in request[a].up

\* The writes to come that mark the terminal online by its id alone, whatever became of it.
MarksUnderWay(d) ==
    {a \in Agents : EventMark(a, d)} \X {"event"} \cup {a \in Agents : HeartbeatMark(a, d)} \X {"heartbeat"}

\* A removed terminal stays removed, nothing new sets out to mark it online, and it
\* comes to read online only by a mark that was under way, which is then spent.
RemovedGetsNoNewMarks == [][\A d \in Terminals : terminal[d].deleted =>
    /\ terminal'[d].deleted
    /\ MarksUnderWay(d)' \subseteq MarksUnderWay(d)
    /\ terminal'[d].status = "online" /\ terminal[d].status # "online" =>
          MarksUnderWay(d)' # MarksUnderWay(d)]_presenceVars

Heartbeats == [step : {"auth", "agent", "report", "up"}, secret : BOOLEAN,
               up : SUBSET Terminals, todo : SUBSET Terminals]
EventRequests == [step : {"resolve", "seen"}, secret : BOOLEAN, device : Terminals]
TerminalRows == [status : StatusValues, deleted : BOOLEAN, age : Nat, owner : Agents \cup {Nil}]
Bridges == [running : BOOLEAN, secret : BOOLEAN, up : SUBSET Terminals]

PresenceTypes ==
    /\ terminal \in [Terminals -> TerminalRows]
    /\ bridge \in [Agents -> Bridges]
    /\ request \in [Agents -> {NoRequest} \cup Heartbeats]
    /\ delivery \in [Agents -> {NoRequest} \cup EventRequests]

LEMMA AgesAreNumbers == TooOld \in Nat /\ 0 \in Nat /\ \A age \in Nat : Older(age) \in Nat
  BY PresenceAssumption DEF TooOld, Older

LEMMA StatusesAreKept == \A s \in StatusValues : OfflineUnlessNot(s) \in StatusValues
  BY DEF OfflineUnlessNot, StatusValues

LEMMA PresenceTypesStart == PresenceInit => PresenceTypes
  BY AgesAreNumbers DEF PresenceInit, PresenceTypes, TerminalRows, Bridges, StatusValues

\* Only these steps write the terminals' rows.
TerminalsRest == UNCHANGED terminal

\* What a step does to the rows, but for the two marks.
DemotesAtMost ==
    /\ terminal' \in [Terminals -> TerminalRows]
    /\ \A d \in Terminals : terminal[d].deleted =>
          /\ terminal'[d].deleted
          /\ terminal'[d].status = "online" => terminal[d].status = "online"

LEMMA RowsRest == ASSUME PresenceTypes, UNCHANGED terminal PROVE DemotesAtMost
  BY DEF PresenceTypes, DemotesAtMost

\* One row is replaced by one that is removed if the old one was, and no more online.
LEMMA OneRowDemoted ==
    ASSUME PresenceTypes, NEW d \in Terminals, NEW row \in TerminalRows,
           terminal' = [terminal EXCEPT ![d] = row],
           terminal[d].deleted => row.deleted /\ (row.status = "online" => terminal[d].status = "online")
    PROVE  DemotesAtMost
  BY DEF PresenceTypes, DemotesAtMost

LEMMA RowsAreRecords ==
    ASSUME PresenceTypes, NEW d \in Terminals
    PROVE  /\ terminal[d] \in TerminalRows
           /\ \A s \in StatusValues : [terminal[d] EXCEPT !.status = s] \in TerminalRows
           /\ \A s \in StatusValues, o \in Agents \cup {Nil} :
                 [terminal[d] EXCEPT !.owner = o, !.status = s] \in TerminalRows
           /\ terminal[d].status \in StatusValues
  BY DEF PresenceTypes, TerminalRows

LEMMA RegistryDemotes == ASSUME PresenceTypes, Registry PROVE DemotesAtMost
  <1>1. ASSUME NEW d \in Terminals, PatchDevice(d) PROVE DemotesAtMost
    <2>1. PICK s \in StatusValues : terminal' = [terminal EXCEPT ![d].status = s]
      BY <1>1 DEF PatchDevice
    <2>2. PICK row : row = [terminal[d] EXCEPT !.status = s]
      OBVIOUS
    <2>3. row \in TerminalRows /\ terminal' = [terminal EXCEPT ![d] = row]
      BY <2>1, <2>2, RowsAreRecords
    <2> QED
      BY <1>1, <2>3, OneRowDemoted DEF PatchDevice
  <1>2. ASSUME NEW d \in Terminals, DeleteDevice(d) PROVE DemotesAtMost
    <2>1. PICK row : row = [terminal[d] EXCEPT !.status = "disabled", !.deleted = TRUE]
      OBVIOUS
    <2>2. row \in TerminalRows /\ ~terminal[d].deleted
      BY <1>2, <2>1 DEF PresenceTypes, TerminalRows, StatusValues, DeleteDevice
    <2>3. terminal' = [terminal EXCEPT ![d] = row]
      BY <1>2, <2>1 DEF DeleteDevice
    <2> QED
      BY <2>2, <2>3, OneRowDemoted
  <1>3. ASSUME NEW d \in Terminals, DeleteConfig(d) PROVE DemotesAtMost
    <2>1. PICK s : s = OfflineUnlessNot(terminal[d].status)
      OBVIOUS
    <2>2. PICK row : row = [terminal[d] EXCEPT !.owner = Nil, !.status = s]
      OBVIOUS
    <2>3. terminal' = [terminal EXCEPT ![d] = row]
      BY <1>3, <2>1, <2>2 DEF DeleteConfig
    <2>4. s \in StatusValues /\ (s = "online" => terminal[d].status = "online")
      BY <2>1, RowsAreRecords, StatusesAreKept DEF OfflineUnlessNot
    <2>5. row \in TerminalRows
      BY <2>2, <2>4, RowsAreRecords
    <2>6. row.deleted = terminal[d].deleted /\ row.status = s
      BY <2>2, RowsAreRecords DEF TerminalRows
    <2> QED
      BY <2>3, <2>4, <2>5, <2>6, OneRowDemoted
  <1>4. ASSUME NEW d \in Terminals, NEW a \in Agents, LinkWrites(d, a) PROVE DemotesAtMost
    <2>1. PICK row : row = [terminal[d] EXCEPT !.owner = a]
      OBVIOUS
    <2>2. terminal' = [terminal EXCEPT ![d] = row]
      BY <1>4, <2>1 DEF LinkWrites
    <2>3. row \in TerminalRows /\ row.deleted = terminal[d].deleted /\ row.status = terminal[d].status
      BY <2>1 DEF PresenceTypes, TerminalRows
    <2> QED
      BY <2>2, <2>3, OneRowDemoted
  <1>5. ASSUME NEW a \in Agents, DeleteAgent(a) PROVE DemotesAtMost
    <2>1. ASSUME NEW d \in Terminals
          PROVE  /\ terminal'[d] \in TerminalRows
                 /\ terminal[d].deleted => terminal'[d].deleted
                 /\ terminal'[d].status = "online" => terminal[d].status = "online"
      <3>1. CASE ~LinkedForEvents(a, d)
        BY <1>5, <3>1, RowsAreRecords DEF DeleteAgent
      <3>2. CASE LinkedForEvents(a, d)
        <4>1. PICK s, o : /\ s = OfflineUnlessNot(terminal[d].status)
                          /\ o = IF terminal[d].owner = a THEN Nil ELSE terminal[d].owner
          OBVIOUS
        <4>2. terminal'[d] = [terminal[d] EXCEPT !.status = s, !.owner = o]
          BY <1>5, <3>2, <4>1 DEF DeleteAgent
        <4>3. s \in StatusValues /\ (s = "online" => terminal[d].status = "online")
          BY <4>1, RowsAreRecords, StatusesAreKept DEF OfflineUnlessNot
        <4>4. o \in Agents \cup {Nil}
          BY <4>1 DEF PresenceTypes, TerminalRows
        <4>5. terminal'[d] \in TerminalRows /\ terminal'[d].deleted = terminal[d].deleted /\ terminal'[d].status = s
          <5>1. PICK row \in TerminalRows : row = terminal[d]
            BY RowsAreRecords
          <5>2. terminal'[d] = [row EXCEPT !.status = s, !.owner = o]
            BY <4>2, <5>1
          <5> QED
            BY <4>3, <4>4, <5>1, <5>2 DEF TerminalRows
        <4> QED
          BY <4>3, <4>5
      <3> QED
        BY <3>1, <3>2
    <2>2. terminal' \in [Terminals -> TerminalRows]
      <3>1. terminal' = [d \in Terminals |-> terminal'[d]]
        BY <1>5 DEF DeleteAgent
      <3> QED
        BY <2>1, <3>1
    <2> QED
      BY <2>1, <2>2 DEF DemotesAtMost
  <1>6. ASSUME UNCHANGED terminal PROVE DemotesAtMost
    BY <1>6, RowsRest
  <1> QED
    BY <1>1, <1>2, <1>3, <1>4, <1>5, <1>6 DEF Registry, PatchConfig, PatchAgent, RotateSecret, LinkChecks

LEMMA TimeDemotes == ASSUME PresenceTypes, expireStalePresence \/ IntervalPasses PROVE DemotesAtMost
  <1>1. CASE expireStalePresence
    <2>1. ASSUME NEW d \in Terminals
          PROVE  /\ terminal'[d] \in TerminalRows
                 /\ terminal[d].deleted => terminal'[d].deleted
                 /\ terminal'[d].status = "online" => terminal[d].status = "online"
      <3>1. CASE ~Stale(terminal[d])
        BY <1>1, <3>1, RowsAreRecords DEF expireStalePresence
      <3>2. CASE Stale(terminal[d])
        <4>1. terminal'[d] = [terminal[d] EXCEPT !.status = "offline"]
          BY <1>1, <3>2 DEF expireStalePresence
        <4> QED
          BY <4>1 DEF PresenceTypes, TerminalRows, StatusValues
      <3> QED
        BY <3>1, <3>2
    <2>2. terminal' = [d \in Terminals |-> terminal'[d]]
      BY <1>1 DEF expireStalePresence
    <2> QED
      BY <2>1, <2>2 DEF DemotesAtMost
  <1>2. CASE IntervalPasses
    <2>1. ASSUME NEW d \in Terminals
          PROVE  /\ terminal'[d] \in TerminalRows
                 /\ terminal'[d].deleted = terminal[d].deleted /\ terminal'[d].status = terminal[d].status
      <3>1. PICK age : age = Older(terminal[d].age)
        OBVIOUS
      <3>2. age \in Nat
        BY <3>1, AgesAreNumbers DEF PresenceTypes, TerminalRows
      <3>3. terminal'[d] = [terminal[d] EXCEPT !.age = age]
        BY <1>2, <3>1 DEF IntervalPasses
      <3> QED
        BY <3>2, <3>3 DEF PresenceTypes, TerminalRows
    <2>2. terminal' = [d \in Terminals |-> terminal'[d]]
      BY <1>2 DEF IntervalPasses
    <2> QED
      BY <2>1, <2>2 DEF DemotesAtMost
  <1> QED
    BY <1>1, <1>2

\* Marking a terminal online writes two fields.
LEMMA OnlineRow ==
    ASSUME PresenceTypes, NEW d \in Terminals, MarkOnline(d)
    PROVE  /\ terminal' \in [Terminals -> TerminalRows]
           /\ \A e \in Terminals : terminal'[e].deleted = terminal[e].deleted
           /\ \A e \in Terminals \ {d} : terminal'[e] = terminal[e]
  <1>1. PICK row : row = [terminal[d] EXCEPT !.status = "online", !.age = 0]
    OBVIOUS
  <1>2. row \in TerminalRows /\ row.deleted = terminal[d].deleted
    BY <1>1 DEF PresenceTypes, TerminalRows, StatusValues
  <1>3. terminal' = [terminal EXCEPT ![d] = row]
    BY <1>1 DEF MarkOnline
  <1> QED
    BY <1>2, <1>3 DEF PresenceTypes

-----------------------------------------------------------------------------
\* What is to come of the requests: no mark of d is among it that was not before.
NoMarkBegins(d) ==
    /\ request' \in [Agents -> {NoRequest} \cup Heartbeats]
    /\ delivery' \in [Agents -> {NoRequest} \cup EventRequests]
    /\ terminal[d].deleted => \A a \in Agents : /\ EventMark(a, d)' => EventMark(a, d)
                                                /\ HeartbeatMark(a, d)' => HeartbeatMark(a, d)

LEMMA RequestsRest ==
    ASSUME PresenceTypes, NEW d, UNCHANGED <<request, delivery>>
    PROVE  NoMarkBegins(d)
  BY DEF NoMarkBegins, PresenceTypes, EventMark, HeartbeatMark

LEMMA HeartbeatMoves ==
    ASSUME PresenceTypes, NEW d, NEW a \in Agents, NEW r \in {NoRequest} \cup Heartbeats,
           request' = [request EXCEPT ![a] = r], UNCHANGED delivery,
           terminal[d].deleted => r.step # "up" \/ d \notin r.up
    PROVE  NoMarkBegins(d)
  <1>1. request' \in [Agents -> {NoRequest} \cup Heartbeats] /\ request'[a] = r
        /\ \A b \in Agents \ {a} : request'[b] = request[b]
    BY DEF PresenceTypes
  <1>2. terminal[d].deleted => \A b \in Agents : HeartbeatMark(b, d)' => HeartbeatMark(b, d)
    BY <1>1 DEF HeartbeatMark
  <1> QED
    BY <1>1, <1>2 DEF NoMarkBegins, PresenceTypes, EventMark

LEMMA DeliveryMoves ==
    ASSUME PresenceTypes, NEW d, NEW a \in Agents, NEW r \in {NoRequest} \cup EventRequests,
           delivery' = [delivery EXCEPT ![a] = r], UNCHANGED request,
           terminal[d].deleted => r.step # "seen" \/ r.device # d
    PROVE  NoMarkBegins(d)
  <1>1. delivery' \in [Agents -> {NoRequest} \cup EventRequests] /\ delivery'[a] = r
        /\ \A b \in Agents \ {a} : delivery'[b] = delivery[b]
    BY DEF PresenceTypes
  <1>2. terminal[d].deleted => \A b \in Agents : EventMark(b, d)' => EventMark(b, d)
    BY <1>1 DEF EventMark
  <1> QED
    BY <1>1, <1>2 DEF NoMarkBegins, PresenceTypes, HeartbeatMark

LEMMA NoRequestIsIdle == NoRequest.step = "idle"
  BY DEF NoRequest

LEMMA RequestEnds ==
    ASSUME PresenceTypes, NEW d, NEW a \in Agents, Answer(a), UNCHANGED delivery
    PROVE  NoMarkBegins(d)
  BY HeartbeatMoves, NoRequestIsIdle DEF Answer

\* A heartbeat that is worked on is a record.
LEMMA HeartbeatAtWork ==
    ASSUME PresenceTypes, NEW a \in Agents, request[a].step \in {"auth", "agent", "report", "up"}
    PROVE  /\ request[a] \in Heartbeats
           /\ \A s \in {"auth", "agent", "report", "up"} :
                 /\ [request[a] EXCEPT !.step = s] \in Heartbeats
                 /\ [request[a] EXCEPT !.step = s].step = s
  BY NoRequestIsIdle DEF PresenceTypes, Heartbeats

LEMMA BridgeBeginsNoMark ==
    ASSUME PresenceTypes, NEW d, NEW a \in Agents, Bridge(a)
    PROVE  NoMarkBegins(d) /\ bridge' \in [Agents -> Bridges] /\ UNCHANGED terminal
  <1>1. bridge[a] \in Bridges
    BY DEF PresenceTypes
  <1>2. CASE BridgeStarts(a)
    BY <1>2, RequestsRest DEF BridgeStarts, PresenceTypes, Bridges
  <1>3. CASE BridgeStops(a)
    <2>1. bridge' \in [Agents -> Bridges]
      BY <1>1, <1>3 DEF BridgeStops, PresenceTypes, Bridges
    <2> QED
      BY <1>3, <2>1, RequestsRest DEF BridgeStops, Outage, registryVars
  <1>4. ASSUME NEW up \in SUBSET Terminals,
               request' = [request EXCEPT ![a] =
                    [step |-> "auth", secret |-> bridge[a].secret, up |-> up, todo |-> Terminals]],
               UNCHANGED delivery
        PROVE  NoMarkBegins(d)
    <2>1. PICK r : r = [step |-> "auth", secret |-> bridge[a].secret, up |-> up, todo |-> Terminals]
      OBVIOUS
    <2>2. r \in Heartbeats /\ r.step = "auth"
      BY <1>1, <2>1 DEF Heartbeats, Bridges
    <2> QED
      BY <1>4, <2>1, <2>2, HeartbeatMoves
  <1>5. CASE Shutdown(a)
    <2>1. bridge' \in [Agents -> Bridges]
      BY <1>1, <1>5 DEF Shutdown, PresenceTypes, Bridges
    <2>2. {} \in SUBSET Terminals
      OBVIOUS
    <2> QED
      BY <1>4, <1>5, <2>1, <2>2 DEF Shutdown, Outage, registryVars
  <1>6. CASE SendHeartbeat(a)
    <2>1. bridge[a].up \in SUBSET Terminals
      BY <1>1 DEF Bridges
    <2> QED
      BY <1>4, <1>6, <2>1 DEF SendHeartbeat, PresenceTypes
  <1>7. ASSUME NEW e \in Terminals, setStreamUp(a, e) \/ setStreamDown(a, e)
        PROVE  NoMarkBegins(d) /\ bridge' \in [Agents -> Bridges] /\ UNCHANGED terminal
    <2>1. PICK up \in SUBSET Terminals : bridge' = [bridge EXCEPT ![a].up = up]
      <3>1. bridge[a].up \cup {e} \in SUBSET Terminals /\ bridge[a].up \ {e} \in SUBSET Terminals
        BY <1>1 DEF Bridges
      <3> QED
        BY <1>7, <3>1 DEF setStreamUp, setStreamDown
    <2>2. bridge' \in [Agents -> Bridges]
      BY <1>1, <2>1 DEF PresenceTypes, Bridges
    <2> QED
      BY <1>7, <2>2, RequestsRest DEF setStreamUp, setStreamDown, Outage, registryVars
  <1>8. ASSUME NEW e \in Terminals, SendEvent(a, e)
        PROVE  NoMarkBegins(d) /\ bridge' \in [Agents -> Bridges] /\ UNCHANGED terminal
    <2>1. PICK r : r = [step |-> "resolve", secret |-> bridge[a].secret, device |-> e]
      OBVIOUS
    <2>2. r \in EventRequests /\ r.step = "resolve"
      BY <1>1, <2>1 DEF EventRequests, Bridges
    <2> QED
      BY <1>8, <2>1, <2>2, DeliveryMoves DEF SendEvent, PresenceTypes
  <1> QED
    BY <1>2, <1>3, <1>5, <1>6, <1>7, <1>8 DEF Bridge

\* The reads before a mark ask for a terminal in service, which a removed one is not.
LEMMA HeartbeatBeginsNoMark ==
    ASSUME PresenceTypes, NEW d, NEW a \in Agents, Heartbeat(a)
    PROVE  NoMarkBegins(d)
  <1>1. ASSUME NEW s \in {"auth", "agent", "report"}, request[a].step \in {"auth", "agent", "report", "up"},
               request' = [request EXCEPT ![a].step = s], UNCHANGED delivery
        PROVE  NoMarkBegins(d)
    <2>1. PICK r : r = [request[a] EXCEPT !.step = s]
      OBVIOUS
    <2>2. r \in Heartbeats /\ r.step = s
      BY <1>1, <2>1, HeartbeatAtWork
    <2> QED
      BY <1>1, <2>1, <2>2, HeartbeatMoves
  <1>2. ASSUME NEW e \in Terminals, request[a].step = "report",
               request' = [request EXCEPT ![a].todo = @ \ {e}], UNCHANGED delivery
        PROVE  NoMarkBegins(d)
    <2>1. PICK r : r = [request[a] EXCEPT !.todo = request[a].todo \ {e}]
      OBVIOUS
    <2>2. r \in Heartbeats /\ r.step = "report"
      BY <1>2, <2>1, HeartbeatAtWork DEF Heartbeats
    <2> QED
      BY <1>2, <2>1, <2>2, HeartbeatMoves
  <1>3. CASE HeartbeatAuth(a)
    BY <1>1, <1>3, RequestEnds DEF HeartbeatAuth
  <1>4. CASE HeartbeatAgent(a)
    BY <1>1, <1>4 DEF HeartbeatAgent
  <1>5. CASE HeartbeatEnds(a)
    BY <1>5, RequestEnds DEF HeartbeatEnds
  <1>6. ASSUME NEW e \in Terminals, markTerminalStreamDown(a, e) PROVE NoMarkBegins(d)
    BY <1>2, <1>6 DEF markTerminalStreamDown
  <1>7. ASSUME NEW e \in Terminals, StreamUpReads(a, e) PROVE NoMarkBegins(d)
    <2>1. CASE InService(e) /\ Linked(a, e)
      <3>1. terminal[d].deleted => e # d
        BY <2>1 DEF InService
      <3>2. PICK r : r = [request[a] EXCEPT !.step = "up", !.todo = request[a].todo \ {e}, !.up = {e}]
        OBVIOUS
      <3>3. r \in Heartbeats /\ r.up = {e}
        BY <1>7, <3>2, HeartbeatAtWork DEF Heartbeats, StreamUpReads
      <3>4. request' = [request EXCEPT ![a] = r] /\ UNCHANGED delivery
        BY <1>7, <2>1, <3>2 DEF StreamUpReads
      <3> QED
        BY <3>1, <3>3, <3>4, HeartbeatMoves
    <2>2. CASE ~(InService(e) /\ Linked(a, e))
      BY <1>2, <1>7, <2>2 DEF StreamUpReads
    <2> QED
      BY <2>1, <2>2
  <1>8. ASSUME NEW e \in Terminals, markTerminalStreamUp(a, e) PROVE NoMarkBegins(d)
    BY <1>1, <1>8 DEF markTerminalStreamUp
  <1> QED
    BY <1>3, <1>4, <1>5, <1>6, <1>7, <1>8 DEF Heartbeat

LEMMA EventsBeginNoMark ==
    ASSUME PresenceTypes, NEW d, NEW a \in Agents, Events(a)
    PROVE  NoMarkBegins(d)
  <1>1. ASSUME delivery' = [delivery EXCEPT ![a] = NoRequest], UNCHANGED request PROVE NoMarkBegins(d)
    BY <1>1, DeliveryMoves, NoRequestIsIdle
  <1>2. CASE EventsMark(a)
    BY <1>1, <1>2 DEF EventsMark
  <1>3. CASE EventsResolve(a) /\ delivery' = [delivery EXCEPT ![a].step = "seen"] /\ InService(delivery[a].device)
    <2>1. delivery[a] \in EventRequests
      BY <1>3, NoRequestIsIdle DEF EventsResolve, PresenceTypes
    <2>2. PICK r : r = [delivery[a] EXCEPT !.step = "seen"]
      OBVIOUS
    <2>3. r \in EventRequests /\ (terminal[d].deleted => r.device # d)
      BY <1>3, <2>1, <2>2 DEF EventRequests, InService
    <2> QED
      BY <1>3, <2>2, <2>3, DeliveryMoves DEF EventsResolve
  <1> QED
    BY <1>1, <1>2, <1>3 DEF Events, EventsResolve

\* What a step does to the rows: a terminal that comes to read online, although it was
\* removed, spent a mark of its own.
MarksAreSpent(d) ==
    /\ terminal[d].deleted => terminal'[d].deleted
    /\ terminal[d].deleted /\ terminal'[d].status = "online" /\ terminal[d].status # "online" =>
          \E a \in Agents : \/ EventMark(a, d) /\ ~EventMark(a, d)'
                            \/ HeartbeatMark(a, d) /\ ~HeartbeatMark(a, d)'

LEMMA DemotionsSpendNothing ==
    ASSUME DemotesAtMost, NEW d \in Terminals
    PROVE  MarksAreSpent(d)
  BY DEF DemotesAtMost, MarksAreSpent

LEMMA MarksSpend ==
    ASSUME PresenceTypes, NEW d \in Terminals, NEW e \in Terminals, NEW a \in Agents, MarkOnline(e),
           \/ EventMark(a, e) /\ ~EventMark(a, e)'
           \/ HeartbeatMark(a, e) /\ ~HeartbeatMark(a, e)'
    PROVE  MarksAreSpent(d)
  <1>1. CASE d = e
    BY <1>1, OnlineRow DEF MarksAreSpent
  <1>2. CASE d # e
    BY <1>2, OnlineRow DEF MarksAreSpent
  <1> QED
    BY <1>1, <1>2

LEMMA HeartbeatKeepsRows ==
    ASSUME PresenceTypes, NEW a \in Agents, Heartbeat(a)
    PROVE  terminal' \in [Terminals -> TerminalRows]
  <1>1. ASSUME NEW e \in Terminals, markTerminalStreamDown(a, e) PROVE terminal' \in [Terminals -> TerminalRows]
    <2>1. [terminal[e] EXCEPT !.status = "offline"] \in TerminalRows
      BY RowsAreRecords DEF StatusValues
    <2> QED
      BY <1>1, <2>1 DEF markTerminalStreamDown, PresenceTypes
  <1>2. ASSUME NEW e \in Terminals, markTerminalStreamUp(a, e) PROVE terminal' \in [Terminals -> TerminalRows]
    BY <1>2, OnlineRow DEF markTerminalStreamUp, PresenceTypes
  <1> QED
    BY <1>1, <1>2 DEF Heartbeat, HeartbeatAuth, HeartbeatAgent, HeartbeatEnds, StreamUpReads, PresenceTypes

LEMMA EventsKeepRows ==
    ASSUME PresenceTypes, NEW a \in Agents, Events(a)
    PROVE  terminal' \in [Terminals -> TerminalRows]
  <1>1. CASE EventsMark(a)
    <2>1. delivery[a].device \in Terminals
      BY <1>1, NoRequestIsIdle DEF EventsMark, PresenceTypes, EventRequests
    <2> QED
      BY <1>1, <2>1, OnlineRow DEF EventsMark
  <1> QED
    BY <1>1 DEF Events, EventsResolve, PresenceTypes

LEMMA HeartbeatSpends ==
    ASSUME PresenceTypes, NEW d \in Terminals, NEW a \in Agents, Heartbeat(a)
    PROVE  MarksAreSpent(d)
  <1>1. ASSUME NEW e \in Terminals, markTerminalStreamUp(a, e) PROVE MarksAreSpent(d)
    <2>1. request[a].step = "up" /\ e \in request[a].up
      BY <1>1 DEF markTerminalStreamUp
    <2>2. PICK r : r = [request[a] EXCEPT !.step = "report"]
      OBVIOUS
    <2>3. r.step = "report" /\ request' = [request EXCEPT ![a] = r]
      BY <1>1, <2>1, <2>2, HeartbeatAtWork DEF markTerminalStreamUp
    <2>4. request'[a].step = "report"
      BY <2>3 DEF PresenceTypes
    <2>5. HeartbeatMark(a, e) /\ ~HeartbeatMark(a, e)'
      BY <2>1, <2>4 DEF HeartbeatMark
    <2>6. CASE StillEnabled(e)
      BY <1>1, <2>5, <2>6, MarksSpend DEF markTerminalStreamUp
    <2>7. CASE ~StillEnabled(e)
      BY <1>1, <2>7, RowsRest, DemotionsSpendNothing DEF markTerminalStreamUp
    <2> QED
      BY <2>6, <2>7
  <1>2. ASSUME NEW e \in Terminals, markTerminalStreamDown(a, e) PROVE MarksAreSpent(d)
    <2>1. CASE terminal' = [terminal EXCEPT ![e].status = "offline"]
      <3>1. PICK row : row = [terminal[e] EXCEPT !.status = "offline"]
        OBVIOUS
      <3>2. row \in TerminalRows /\ row.deleted = terminal[e].deleted /\ row.status = "offline"
        BY <3>1 DEF PresenceTypes, TerminalRows, StatusValues
      <3>3. terminal' = [terminal EXCEPT ![e] = row]
        BY <2>1, <3>1
      <3> QED
        BY <3>2, <3>3, OneRowDemoted, DemotionsSpendNothing
    <2>2. CASE UNCHANGED terminal
      BY <2>2, RowsRest, DemotionsSpendNothing
    <2> QED
      BY <1>2, <2>1, <2>2 DEF markTerminalStreamDown
  <1>3. ASSUME UNCHANGED terminal PROVE MarksAreSpent(d)
    BY <1>3, RowsRest, DemotionsSpendNothing
  <1> QED
    BY <1>1, <1>2, <1>3 DEF Heartbeat, HeartbeatAuth, HeartbeatAgent, HeartbeatEnds, StreamUpReads

LEMMA EventsSpend ==
    ASSUME PresenceTypes, NEW d \in Terminals, NEW a \in Agents, Events(a)
    PROVE  MarksAreSpent(d)
  <1>1. CASE EventsMark(a)
    <2>1. PICK e : e = delivery[a].device
      OBVIOUS
    <2>2. e \in Terminals /\ EventMark(a, e)
      BY <1>1, <2>1, NoRequestIsIdle DEF EventsMark, PresenceTypes, EventRequests, EventMark
    <2>3. delivery'[a] = NoRequest
      BY <1>1 DEF EventsMark, PresenceTypes
    <2>4. ~EventMark(a, e)'
      BY <2>3, NoRequestIsIdle DEF EventMark
    <2>5. MarkOnline(e)
      BY <1>1, <2>1 DEF EventsMark
    <2> QED
      BY <2>2, <2>4, <2>5, MarksSpend
  <1>2. CASE EventsResolve(a)
    BY <1>2, RowsRest, DemotionsSpendNothing DEF EventsResolve
  <1> QED
    BY <1>1, <1>2 DEF Events

\* One step, for every terminal, with the types it keeps.
LEMMA PresenceStep ==
    ASSUME PresenceTypes, [PresenceNext]_presenceVars
    PROVE  /\ PresenceTypes'
           /\ \A d \in Terminals : MarksAreSpent(d) /\ NoMarkBegins(d)
  <1> DEFINE RowsKept == terminal' \in [Terminals -> TerminalRows] /\ bridge' \in [Agents -> Bridges]
             StepDone == RowsKept /\ (\A d \in Terminals : MarksAreSpent(d)) /\ (\A d : NoMarkBegins(d))
  <1>1. ASSUME UNCHANGED <<request, delivery>> PROVE \A d : NoMarkBegins(d)
    BY <1>1, RequestsRest
  <1>2. ASSUME DemotesAtMost
        PROVE  terminal' \in [Terminals -> TerminalRows] /\ \A d \in Terminals : MarksAreSpent(d)
    BY <1>2, DemotionsSpendNothing DEF DemotesAtMost
  <1>3. ASSUME UNCHANGED presenceVars PROVE StepDone
    BY <1>1, <1>2, <1>3, RowsRest DEF presenceVars, PresenceTypes
  <1>4. ASSUME Registry PROVE StepDone
    <2>1. UNCHANGED <<request, delivery>>
      BY <1>4 DEF Registry, PatchDevice, DeleteDevice, PatchConfig, DeleteConfig, PatchAgent, DeleteAgent,
                  RotateSecret, LinkChecks, LinkWrites, RegistryEvent
    <2>2. bridge' \in [Agents -> Bridges]
      <3>1. ASSUME NEW a \in Agents, bridge' = [bridge EXCEPT ![a].secret = FALSE]
            PROVE  bridge' \in [Agents -> Bridges]
        BY <3>1 DEF PresenceTypes, Bridges
      <3> QED
        BY <1>4, <3>1 DEF Registry, PatchDevice, DeleteDevice, PatchConfig, DeleteConfig, PatchAgent, DeleteAgent,
                          RotateSecret, LinkChecks, LinkWrites, RegistryEvent, PresenceTypes
    <2> QED
      BY <1>1, <1>2, <1>4, <2>1, <2>2, RegistryDemotes
  <1>5. ASSUME expireStalePresence \/ IntervalPasses PROVE StepDone
    <2>1. UNCHANGED <<request, delivery, bridge>>
      BY <1>5 DEF expireStalePresence, IntervalPasses, WorkerQuiet
    <2> QED
      BY <1>1, <1>2, <1>5, <2>1, TimeDemotes DEF PresenceTypes
  <1>6. ASSUME NEW a \in Agents, Bridge(a) PROVE StepDone
    <2>1. UNCHANGED terminal /\ bridge' \in [Agents -> Bridges] /\ \A d : NoMarkBegins(d)
      BY <1>6, BridgeBeginsNoMark
    <2> QED
      BY <1>2, <2>1, RowsRest
  <1>7. ASSUME NEW a \in Agents, Heartbeat(a) PROVE StepDone
    <2>1. UNCHANGED bridge
      BY <1>7 DEF Heartbeat, HeartbeatAuth, HeartbeatAgent, HeartbeatEnds, markTerminalStreamDown, StreamUpReads,
                  markTerminalStreamUp, WorkerQuiet
    <2> QED
      BY <1>7, <2>1, HeartbeatSpends, HeartbeatKeepsRows, HeartbeatBeginsNoMark DEF PresenceTypes
  <1>8. ASSUME NEW a \in Agents, Events(a) PROVE StepDone
    <2>1. UNCHANGED bridge
      BY <1>8 DEF Events, EventsResolve, EventsMark, WorkerQuiet
    <2> QED
      BY <1>8, <2>1, EventsSpend, EventsKeepRows, EventsBeginNoMark DEF PresenceTypes
  <1>9. StepDone
    BY <1>3, <1>4, <1>5, <1>6, <1>7, <1>8 DEF PresenceNext
  <1> QED
    BY <1>9 DEF PresenceTypes, NoMarkBegins

\* Marks under way are fewer where one is spent and none begins.
LEMMA SpentMarksAreGone ==
    ASSUME NEW d, NoMarkBegins(d), terminal[d].deleted
    PROVE  /\ MarksUnderWay(d)' \subseteq MarksUnderWay(d)
           /\ \A a \in Agents : (EventMark(a, d) /\ ~EventMark(a, d)') \/ (HeartbeatMark(a, d) /\ ~HeartbeatMark(a, d)')
                    => MarksUnderWay(d)' # MarksUnderWay(d)
  <1>1. MarksUnderWay(d)' \subseteq MarksUnderWay(d)
    BY DEF NoMarkBegins, MarksUnderWay
  <1>2. ASSUME NEW a \in Agents, EventMark(a, d), ~EventMark(a, d)' PROVE MarksUnderWay(d)' # MarksUnderWay(d)
    <2>1. <<a, "event">> \in MarksUnderWay(d) /\ <<a, "event">> \notin MarksUnderWay(d)'
      BY <1>2 DEF MarksUnderWay
    <2> QED
      BY <2>1
  <1>3. ASSUME NEW a \in Agents, HeartbeatMark(a, d), ~HeartbeatMark(a, d)' PROVE MarksUnderWay(d)' # MarksUnderWay(d)
    <2>1. <<a, "heartbeat">> \in MarksUnderWay(d) /\ <<a, "heartbeat">> \notin MarksUnderWay(d)'
      BY <1>3 DEF MarksUnderWay
    <2> QED
      BY <2>1
  <1> QED
    BY <1>1, <1>2, <1>3

LEMMA NoNewMarks ==
    ASSUME PresenceTypes, [PresenceNext]_presenceVars, NEW d \in Terminals, terminal[d].deleted
    PROVE  /\ terminal'[d].deleted
           /\ MarksUnderWay(d)' \subseteq MarksUnderWay(d)
           /\ terminal'[d].status = "online" /\ terminal[d].status # "online" =>
                 MarksUnderWay(d)' # MarksUnderWay(d)
  <1>1. MarksAreSpent(d) /\ NoMarkBegins(d)
    BY PresenceStep
  <1> QED
    BY <1>1, SpentMarksAreGone DEF MarksAreSpent

\* A terminal that an administrator removed stays removed, and it comes to read online
\* again at most once for every heartbeat or event that had passed the check for a
\* terminal in service before the removal (markTerminalStreamUp, handleIsapiAgentEvents).
THEOREM RemovedTerminalsFade == PresenceSpec => RemovedGetsNoNewMarks
  <1>1. PresenceTypes /\ [PresenceNext]_presenceVars => PresenceTypes'
    BY PresenceStep
  <1>2. PresenceTypes /\ [PresenceNext]_presenceVars =>
          [\A d \in Terminals : terminal[d].deleted =>
              /\ terminal'[d].deleted
              /\ MarksUnderWay(d)' \subseteq MarksUnderWay(d)
              /\ terminal'[d].status = "online" /\ terminal[d].status # "online" =>
                    MarksUnderWay(d)' # MarksUnderWay(d)]_presenceVars
    BY NoNewMarks
  <1> QED
    BY <1>1, <1>2, PresenceTypesStart, PTL DEF PresenceSpec, RemovedGetsNoNewMarks
=============================================================================
