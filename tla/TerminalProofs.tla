---------------------------- MODULE TerminalProofs ----------------------------
(***************************************************************************)
(* Proofs about what reaches a terminal and what it keeps: the chains of   *)
(* requests that write one record, the copies of the credentials a bridge  *)
(* and the Pi gate decide from, the queue of card and door commands, and   *)
(* the operator's runs.                                                    *)
(***************************************************************************)
EXTENDS TerminalWrites, RemoteVerify, CardCommands, PiGate, AccessOperations, FiniteSetTheorems,
        WellFoundedInduction, TLAPS

-----------------------------------------------------------------------------
(* One record on one terminal *)

\* The calls an operation can be at.
ChainOf(op) ==
    CASE op \in PersonWrites -> {"Record", "Modify", "SetUp", "RecordXml"}
      [] op \in PersonDeletes -> {"DetailDelete", "DetailDeleteBare", "Delete", "DeleteBare", "DeleteXml"}
      [] op = "upsert_card" -> {"CardRecord", "CardModify", "CardRecordXml"}
      [] op = "delete_card" -> {"CardDelete", "CardDeleteXml"}
      [] OTHER -> FingerCalls

Answers == {"ok", "exists", "gone", "rejected", "unsupported", "notFound"}
Parts == {"person", "card", "finger"}

\* The terminal's records, and an operation at a call of its own chain.
WritesTypeOK ==
    /\ record \in [Parts -> {"none", "old", "asked"}]
    /\ firmware \in [Calls -> Behaviours \cup {"unknown"}]
    /\ \/ job = NoJob
       \/ \E op \in Writes \cup Deletes : \E at \in ChainOf(op) \cup Ends : \E s \in Seq(Answers) :
             job = [op |-> op, at |-> at, answers |-> s]

WritesInv == WritesTypeOK /\ AppliedIsTrue

LEMMA WritesStart == WritesInit => WritesInv
  BY DEF WritesInit, WritesInv, WritesTypeOK, AppliedIsTrue, NoJob, Parts

\* A chain goes on with a call of its own, or it is over.
LEMMA ChainsAreClosed ==
    ASSUME NEW op \in Writes \cup Deletes, NEW q \in ChainOf(op), NEW a, NEW s
    PROVE  Follows(op, q, a, s) \in ChainOf(op) \cup Ends
  <1>1. CASE op \in PersonWrites
    BY <1>1 DEF ChainOf, Follows, writeTerminalPerson, writeTerminalVisitorPerson, Otherwise, PersonWrites,
       PersonDeletes, Ends
  <1>2. CASE op \in PersonDeletes
    BY <1>2 DEF ChainOf, Follows, deleteTerminalPerson, Otherwise, PersonWrites, PersonDeletes, Ends
  <1>3. CASE op \in {"upsert_card", "delete_card"}
    BY <1>3 DEF ChainOf, Follows, writeTerminalCard, deleteTerminalCard, Otherwise, PersonWrites,
       PersonDeletes, Ends
  <1>4. CASE op \in {"upload_fingerprint", "delete_fingerprint_device"}
    BY <1>4 DEF ChainOf, Follows, writeTerminalFingerprint, deleteTerminalFingerprint, Otherwise, PersonWrites,
       PersonDeletes, FingerCalls, Ends
  <1> QED
    BY <1>1, <1>2, <1>3, <1>4 DEF Writes, Deletes, PersonWrites, PersonDeletes

\* Only a good answer ends a chain as applied, and on a removal the answer that there
\* is nothing to remove.
LEMMA OnlyTwoAnswersApply ==
    ASSUME NEW op \in Writes \cup Deletes, NEW q \in ChainOf(op), NEW a, NEW s,
           a # "ok", op \in Deletes => a \notin {"gone", "notFound"}
    PROVE  Follows(op, q, a, s) # "applied"
  <1>1. CASE op = "upsert_person"
    <2>1. writeTerminalPerson(q, a) # "applied"
      BY DEF writeTerminalPerson, Otherwise, isapiOk
    <2> QED
      BY <1>1, <2>1 DEF Follows, PersonDeletes
  <1>2. CASE op = "upsert_visitor"
    <2>1. writeTerminalVisitorPerson(q, a, s) # "applied"
      BY DEF writeTerminalVisitorPerson, isapiOk
    <2> QED
      BY <1>2, <2>1 DEF Follows, PersonDeletes
  <1>3. CASE op \in PersonDeletes
    <2>1. a \notin {"gone", "notFound"}
      BY <1>3 DEF Deletes
    <2>2. deleteTerminalPerson(q, a) # "applied"
      BY <2>1 DEF deleteTerminalPerson, Otherwise, isapiOk, alreadyGone
    <2> QED
      BY <1>3, <2>2 DEF Follows, PersonDeletes
  <1>4. CASE op = "upsert_card"
    BY <1>4 DEF Follows, writeTerminalCard, Otherwise, PersonDeletes, isapiOk
  <1>5. CASE op = "delete_card"
    BY <1>5 DEF Follows, deleteTerminalCard, PersonDeletes, Deletes, isapiOk, alreadyGone
  <1>6. CASE op \in {"upload_fingerprint", "delete_fingerprint_device"}
    BY <1>6 DEF Follows, writeTerminalFingerprint, deleteTerminalFingerprint, Otherwise, PersonDeletes,
       isapiOk
  <1> QED
    BY <1>1, <1>2, <1>3, <1>4, <1>5, <1>6 DEF Writes, Deletes, PersonWrites, PersonDeletes

\* A call that is carried out leaves what its operation asks for.
LEMMA CallsLeaveWhatWasAsked ==
    ASSUME record \in [Parts -> {"none", "old", "asked"}],
           NEW op \in Writes \cup Deletes, NEW q \in ChainOf(op)
    PROVE  /\ Leaves(op, q) \in [Parts -> {"none", "old", "asked"}]
           /\ op \in Writes => Leaves(op, q)[Part(op)] = "asked"
           /\ op \notin Writes => Leaves(op, q)[Part(op)] = "none"
  <1>1. Part(op) \in Parts
    BY DEF Part, Parts
  <1>2. op \in Writes => op \notin Deletes /\ q \notin {"DetailDelete", "DetailDeleteBare"}
    BY DEF Writes, Deletes, PersonWrites, PersonDeletes, ChainOf, FingerCalls
  <1> QED
    BY <1>1, <1>2 DEF Leaves

\* An answer that there is nothing to remove, from a call that works, is true.
LEMMA GoneIsTrue ==
    ASSUME NEW op \in Deletes, NEW q \in ChainOf(op), "gone" \in Answered(op, q)
    PROVE  record[Part(op)] = "none"
  <1>1. op \notin Writes /\ q \notin Edits
    BY DEF Writes, Deletes, PersonWrites, PersonDeletes, ChainOf, FingerCalls, Edits
  <1> QED
    BY <1>1 DEF Answered

LEMMA WritesStep == ASSUME WritesInv, [WritesNext]_writeVars PROVE WritesInv'
  <1>t. WritesTypeOK /\ AppliedIsTrue
    BY DEF WritesInv
  <1>1. ASSUME NEW op \in Writes \cup Deletes, NEW p \in PayloadsOf(op), applyCardOperation(op, p)
        PROVE  WritesInv'
    <2>1. FirstCall(op) \in ChainOf(op)
      BY DEF FirstCall, ChainOf, Writes, Deletes, PersonWrites, PersonDeletes, FingerCalls
    <2>2. job' = [op |-> op, at |-> IF Sendable(op, p) THEN FirstCall(op) ELSE "failed", answers |-> <<>>]
      BY <1>1 DEF applyCardOperation
    <2>3. job'.at # "applied"
      BY <2>2 DEF FirstCall
    <2>4. record' \in [Parts -> {"none", "old", "asked"}]
      BY <1>t, <1>1 DEF WritesTypeOK, applyCardOperation
    <2>5. <<>> \in Seq(Answers)
      OBVIOUS
    <2>6. firmware' = firmware /\ \E at \in ChainOf(op) \cup Ends :
             job' = [op |-> op, at |-> at, answers |-> <<>>]
      BY <1>1, <2>1, <2>2 DEF applyCardOperation, Ends
    <2>7. WritesTypeOK'
      BY <1>t, <2>4, <2>5, <2>6 DEF WritesTypeOK
    <2> QED
      BY <2>3, <2>7 DEF WritesInv, AppliedIsTrue
  <1>2. CASE Request
    <2> DEFINE op == job.op
               q == job.at
    <2>1. PICK b : /\ b \in (IF firmware[q] = "unknown" THEN Behaviours ELSE {firmware[q]})
                   /\ \E a \in CASE b = "works" -> Answered(op, q)
                                 [] b = "refuses" -> {"rejected"}
                                 [] OTHER -> {b} :
                        /\ record' = IF isapiOk(a) THEN Leaves(op, q) ELSE record
                        /\ job' = [job EXCEPT !.answers = Append(@, a),
                                              !.at = Follows(op, q, a, Append(job.answers, a))]
      BY <1>2 DEF Request
    <2>2. PICK a : /\ a \in (CASE b = "works" -> Answered(op, q)
                               [] b = "refuses" -> {"rejected"}
                               [] OTHER -> {b})
                   /\ record' = IF isapiOk(a) THEN Leaves(op, q) ELSE record
                   /\ job' = [job EXCEPT !.answers = Append(@, a),
                                         !.at = Follows(op, q, a, Append(job.answers, a))]
      BY <2>1
    <2>3. q \in Calls
      BY <1>2 DEF Request
    <2>4. /\ op \in Writes \cup Deletes /\ q \in ChainOf(op) /\ job.answers \in Seq(Answers)
          /\ job = [op |-> op, at |-> q, answers |-> job.answers]
      BY <1>t, <2>3 DEF WritesTypeOK, NoJob, Calls, PersonCalls, CardCalls, FingerCalls, Ends
    <2> DEFINE s == Append(job.answers, a)
               next == Follows(op, q, a, s)
    <2>5. job' = [op |-> op, at |-> next, answers |-> s]
      BY <2>2, <2>4
    <2>6. next \in ChainOf(op) \cup Ends
      BY <2>4, ChainsAreClosed
    <2>7. b \in Behaviours /\ a \in Answers
      BY <1>t, <2>1, <2>2, <2>3 DEF WritesTypeOK, Behaviours, Answers, Answered
    <2>8. record' \in [Parts -> {"none", "old", "asked"}]
      BY <1>t, <2>2, <2>4, CallsLeaveWhatWasAsked DEF WritesTypeOK
    <2>9. firmware' \in [Calls -> Behaviours \cup {"unknown"}]
      BY <1>2, <1>t, <2>3 DEF Request, WritesTypeOK
    <2>10. s \in Seq(Answers) /\ Last(s) = a
      BY <2>4, <2>7 DEF Last
    <2>11. WritesTypeOK'
      BY <2>4, <2>5, <2>6, <2>8, <2>9, <2>10 DEF WritesTypeOK
    <2>12. ASSUME next = "applied"
           PROVE  IF op \in Writes THEN record'[Part(op)] = "asked"
                  ELSE record'[Part(op)] = "none" \/ a = "notFound"
      <3>1. CASE a = "ok"
        BY <3>1, <1>t, <2>2, <2>4, CallsLeaveWhatWasAsked DEF WritesTypeOK, isapiOk
      <3>2. CASE a = "gone" /\ op \in Deletes
        <4>1. "gone" \in Answered(op, q)
          BY <3>2, <2>2, <2>7 DEF Behaviours
        <4>2. record[Part(op)] = "none" /\ record' = record
          BY <3>2, <4>1, <2>2, <2>4, GoneIsTrue DEF isapiOk
        <4> QED
          BY <3>2, <4>2 DEF Writes, Deletes, PersonWrites, PersonDeletes
      <3>3. CASE a = "notFound" /\ op \in Deletes
        BY <3>3 DEF Writes, Deletes, PersonWrites, PersonDeletes
      <3> QED
        BY <3>1, <3>2, <3>3, <2>4, <2>12, OnlyTwoAnswersApply
    <2>13. AppliedIsTrue'
      BY <2>5, <2>10, <2>12 DEF AppliedIsTrue
    <2> QED
      BY <2>11, <2>13 DEF WritesInv
  <1>3. CASE RequestLost
    <2> DEFINE op == job.op
               q == job.at
    <2>1. q \in Calls /\ job' = [job EXCEPT !.at = "failed"]
      BY <1>3 DEF RequestLost
    <2>2. /\ op \in Writes \cup Deletes /\ q \in ChainOf(op) /\ job.answers \in Seq(Answers)
          /\ job = [op |-> op, at |-> q, answers |-> job.answers]
      BY <1>t, <2>1 DEF WritesTypeOK, NoJob, Calls, PersonCalls, CardCalls, FingerCalls, Ends
    <2>3. job' = [op |-> op, at |-> "failed", answers |-> job.answers]
      BY <2>1, <2>2
    <2>4. record' \in [Parts -> {"none", "old", "asked"}] /\ firmware' \in [Calls -> Behaviours \cup {"unknown"}]
      BY <1>3, <1>t, <2>1, <2>2, CallsLeaveWhatWasAsked DEF RequestLost, WritesTypeOK, Behaviours
    <2> QED
      BY <2>2, <2>3, <2>4 DEF WritesInv, WritesTypeOK, AppliedIsTrue, Ends
  <1>4. CASE UNCHANGED writeVars
    BY <1>t, <1>4 DEF WritesInv, WritesTypeOK, AppliedIsTrue, writeVars
  <1> QED
    BY <1>1, <1>2, <1>3, <1>4 DEF WritesNext

\* The records of a terminal and the operation at hand are of their types, and an
\* operation is at a call of its own chain (applyCardOperation and its kin).
THEOREM WritesInvariant == WritesSpec => []WritesInv
  <1> QED
    BY WritesStart, WritesStep, PTL DEF WritesSpec

\* Whatever an earlier try left behind and however the firmware answers, what is
\* reported as applied is so on the terminal (isapiRequest, writeTerminalPerson,
\* deleteTerminalPerson and the chains for cards and fingers).
THEOREM AppliedWritesAreTrue == WritesSpec => []AppliedIsTrue
  <1>1. WritesInv => AppliedIsTrue
    BY DEF WritesInv
  <1> QED
    BY <1>1, WritesInvariant, PTL

-----------------------------------------------------------------------------
(* The bridge's copy of the credentials *)

\* A set of numbers has a least one, and a bounded one a greatest.
LessThan == {p \in Nat \X Nat : p[1] < p[2]}

LEMMA NumbersAreWellOrdered == IsWellFoundedOn(LessThan, Nat)
  <1>1. LessThan = OpToRel(<, Nat)
    BY DEF OpToRel, LessThan
  <1> QED
    BY <1>1, NatLessThanWellFounded

LEMMA LeastOf ==
    ASSUME NEW S \in SUBSET Nat, S # {}
    PROVE  \E m \in S : \A x \in S : m <= x
  <1>1. \A R, A, T : IsWellFoundedOn(R, A) /\ T \subseteq A /\ T # {}
           => \E x \in T : \A y \in T : ~ (<<y, x>> \in R)
    BY WFMin
  <1>2. PICK m \in S : \A x \in S : ~ (<<x, m>> \in LessThan)
    BY <1>1, NumbersAreWellOrdered
  <1>3. ASSUME NEW x \in S, x < m PROVE FALSE
    <2>1. <<x, m>> \in Nat \X Nat /\ <<x, m>>[1] < <<x, m>>[2]
      BY <1>3
    <2>2. <<x, m>> \in LessThan
      BY <2>1 DEF LessThan
    <2> QED
      BY <1>2, <2>2
  <1> QED
    BY <1>3

LEMMA GreatestOf ==
    ASSUME NEW n \in Nat, NEW S \in SUBSET (1 .. n), S # {}
    PROVE  Max(S) \in S /\ \A x \in S : x <= Max(S)
  <1> DEFINE T == {n - x : x \in S}
  <1>1. T \in SUBSET Nat
    OBVIOUS
  <1>2. T # {}
    OBVIOUS
  <1> HIDE DEF T
  <1>3. PICK t \in T : \A u \in T : t <= u
    BY <1>1, <1>2, LeastOf
  <1>4. PICK m \in S : t = n - m
    BY DEF T
  <1>5. \A x \in S : m >= x
    <2> SUFFICES ASSUME NEW x \in S PROVE m >= x
      OBVIOUS
    <2>1. n - x \in T
      BY DEF T
    <2>2. t <= n - x
      BY <1>3, <2>1
    <2> QED
      BY <1>4, <2>2
  <1>6. \E m_1 \in S : \A x \in S : m_1 >= x
    BY <1>5
  <1> QED
    BY <1>6 DEF Max

\* The clock only advances, a row is never newer than it, and a refresh in progress is
\* at a page of the snapshot.
Refreshes == [step : {"ask", "apply"}, since : Int, cursor : {0} \cup Cards,
              page : SUBSET Cards, gone : SUBSET Cards, more : BOOLEAN]
CopyTypeOK ==
    /\ now \in Nat /\ lastSyncAt \in Int /\ NeverSynced <= lastSyncAt /\ lastSyncAt <= now
    /\ card \in [Cards -> [active : BOOLEAN, holder : BOOLEAN, at : Nat]]
    /\ \A k \in Cards : card[k].at <= now
    /\ sync \in [Refreshers -> {NoSync} \cup Refreshes]

\* A refresh that has not applied its first page, and asks for rows as old as k's.
WillRemove(s, k) == s.cursor = 0 /\ Since(k, s.since)
\* A usable card that is still to come with this page or a later one.
WillBring(s, k) ==
    /\ Since(k, s.since)
    /\ s.step = "ask" => k > s.cursor
    /\ s.step = "apply" => k \in s.page \/ (s.more /\ k > Max(s.page))

\* The page the Worker computed is still right about a card that has not changed.
PageIsRight(s, k) ==
    /\ k \in s.page => Usable(k)
    /\ k \in s.gone => ~card[k].active
    /\ Usable(k) /\ k > s.cursor /\ (IsDelta(s) => Since(k, s.since))
           => k \in s.page \/ (s.more /\ k > Max(s.page))
    /\ IsDelta(s) /\ ~card[k].active /\ Since(k, s.since) => k \in s.gone
PagesAreRight ==
    \A r \in Refreshers : sync[r].step = "apply" =>
        /\ sync[r].more => sync[r].page # {}
        /\ \A k \in Cards : k \in moved \/ PageIsRight(sync[r], k)

\* Whatever the copy holds wrongly, every refresh under way will remove.
SurplusLeaves ==
    \A k \in Cards \ unseen : k \in credentials /\ ~Usable(k) =>
        /\ ~card[k].active /\ card[k].at > lastSyncAt
        /\ \A r \in Refreshers : sync[r] # NoSync => WillRemove(sync[r], k)
\* Whatever a whole copy lacks, every refresh under way will bring.
MissingComes ==
    torn = Whole => \A k \in Cards \ unseen : Usable(k) /\ k \notin credentials =>
        /\ card[k].at > lastSyncAt
        /\ \A r \in Refreshers : sync[r] # NoSync => WillBring(sync[r], k)
\* The refresh that emptied the copy fills it with what is usable, and nothing else.
FilledBy(r) ==
    /\ sync[r] # NoSync /\ sync[r].since = NeverSynced /\ sync[r].cursor # 0
    /\ \A k \in Cards \ moved :
            /\ k \in credentials => Usable(k)
            /\ Usable(k) /\ k \notin credentials => WillBring(sync[r], k)
TornIsFilled == torn \in Refreshers => FilledBy(torn)
OwedIsAsked == torn = Owed => needsFullSync
MovedIsUnseen == Syncing => moved \subseteq unseen

VerifyInv ==
    /\ CopyTypeOK /\ PagesAreRight /\ SurplusLeaves /\ MissingComes
    /\ TornIsFilled /\ OwedIsAsked /\ MovedIsUnseen

LEMMA VerifyStarts == VerifyInit => VerifyInv
  <1> SUFFICES ASSUME VerifyInit PROVE VerifyInv
    OBVIOUS
  <1>1. /\ now = 0 /\ lastSyncAt = -1 /\ torn = Whole /\ sync = [r \in Refreshers |-> NoSync]
        /\ credentials = {} /\ Whole \notin Refreshers /\ Whole # Owed
    BY RefresherAssumption DEF VerifyInit, NeverSynced, Whole, Owed
  <1>2. card \in [Cards -> [active : BOOLEAN, holder : {TRUE}, at : {0}]]
    BY DEF VerifyInit
  <1>3. \A k \in Cards : card[k].at = 0 /\ card[k] \in [active : BOOLEAN, holder : BOOLEAN, at : Nat]
    <2> SUFFICES ASSUME NEW k \in Cards
                 PROVE  card[k].at = 0 /\ card[k] \in [active : BOOLEAN, holder : BOOLEAN, at : Nat]
      OBVIOUS
    <2>1. card[k] \in [active : BOOLEAN, holder : {TRUE}, at : {0}]
      BY <1>2
    <2>2. PICK a \in BOOLEAN : card[k] = [active |-> a, holder |-> TRUE, at |-> 0]
      BY <2>1
    <2> QED
      BY <2>2
  <1>4. card \in [Cards -> [active : BOOLEAN, holder : BOOLEAN, at : Nat]]
    BY <1>2, <1>3
  <1>5. \A r \in Refreshers : sync[r] = NoSync /\ sync[r].step = "idle"
    BY <1>1 DEF NoSync
  <1>6. CopyTypeOK
    <2>1. \A k \in Cards : card[k].at <= now
      BY <1>1, <1>3
    <2>2. lastSyncAt \in Int /\ NeverSynced <= lastSyncAt /\ lastSyncAt <= now
      BY <1>1 DEF NeverSynced
    <2> QED
      BY <1>1, <1>4, <2>1, <2>2 DEF CopyTypeOK
  <1>7. PagesAreRight /\ SurplusLeaves /\ TornIsFilled /\ OwedIsAsked /\ MovedIsUnseen
    BY <1>1, <1>5 DEF PagesAreRight, SurplusLeaves, TornIsFilled, OwedIsAsked, MovedIsUnseen, Syncing
  <1>8. MissingComes
    BY <1>1, <1>3, <1>5 DEF MissingComes
  <1> QED
    BY <1>6, <1>7, <1>8 DEF VerifyInv

\* The first `limit` of the rows found.
PageOf(found, limit) == {k \in found : Cardinality({j \in found : j <= k}) <= limit}

\* The page of a snapshot is a beginning of it, and not empty while rows are left.
LEMMA PagesAreBeginnings ==
    ASSUME NEW n \in Nat, NEW limit \in Nat \ {0}, NEW found \in SUBSET (1 .. n),
           NEW page, page = PageOf(found, limit)
    PROVE  /\ \A k \in page, j \in found : j <= k => j \in page
           /\ found # page => page # {}
  <1> USE DEF PageOf
  <1>0. IsFiniteSet(found) /\ found \in SUBSET Nat
    <2>1. 0 \in Int /\ n \in Int /\ 1 \in Int /\ 1 .. n \in SUBSET Nat
      OBVIOUS
    <2>2. IsFiniteSet(1 .. n)
      BY <2>1, FS_Interval
    <2> QED
      BY <2>1, <2>2, FS_Subset
  <1>1. /\ IsFiniteSet(found) /\ limit \in Nat /\ limit >= 1
        /\ \A S \in SUBSET found : IsFiniteSet(S) /\ Cardinality(S) \in Nat
    <2>1. \A S \in SUBSET found : IsFiniteSet(S)
      BY <1>0, FS_Subset
    <2>2. \A S \in SUBSET found : Cardinality(S) \in Nat
      BY <2>1, FS_CardinalityType
    <2>3. limit \in Nat /\ limit >= 1
      OBVIOUS
    <2> QED
      BY <1>0, <2>1, <2>2, <2>3
  <1>2. ASSUME NEW k \in page, NEW j \in found, j <= k PROVE j \in page
    <2> DEFINE A == {i \in found : i <= j}
               B == {i \in found : i <= k}
    <2>0. k \in Nat /\ j \in Nat /\ found \subseteq Nat
      BY <1>0, <1>2
    <2>1. A \in SUBSET B /\ A \in SUBSET found /\ B \in SUBSET found
      <3>1. \A i \in A : i \in found /\ i \in Nat /\ i <= k
        BY <2>0, <1>2
      <3> QED
        BY <3>1
    <2>2. Cardinality(A) <= Cardinality(B)
      BY <1>1, <2>1, FS_Subset
    <2>3. Cardinality(B) <= limit
      OBVIOUS
    <2>4. Cardinality(A) \in Nat /\ Cardinality(B) \in Nat
      BY <1>1, <2>1
    <2>5. Cardinality(A) <= limit
      BY <1>1, <2>2, <2>3, <2>4
    <2> QED
      BY <2>5
  <1>3. ASSUME found # page PROVE page # {}
    <2>1. found # {}
      BY <1>3
    <2>2. PICK m \in found : \A x \in found : m <= x
      BY <1>1, <2>1, LeastOf
    <2>0. m \in Nat /\ \A j \in found : j \in Nat /\ (j <= m => j = m)
      BY <1>1, <2>2
    <2>3. {j \in found : j <= m} = {m}
      <3>1. m \in {j \in found : j <= m}
        BY <2>0
      <3>2. \A j \in {i \in found : i <= m} : j = m
        BY <2>0
      <3> QED
        BY <3>1, <3>2
    <2>4. Cardinality({m}) = 1
      BY FS_Singleton
    <2> QED
      BY <1>1, <2>3, <2>4
  <1> QED
    BY <1>2, <1>3

\* Steps that touch neither the estate's cards nor the copy.
LEMMA CopyStays ==
    ASSUME VerifyInv, UNCHANGED <<card, copyVars, verifyHistory>>, now' \in Nat, now <= now'
    PROVE  VerifyInv'
  <1>1. UNCHANGED <<card, credentials, lastSyncAt, needsFullSync, pendingSince, sync, unseen, moved, torn>>
    BY DEF copyVars, verifyHistory
  <1>2. CopyTypeOK'
    BY <1>1 DEF VerifyInv, CopyTypeOK
  <1>3. PagesAreRight'
    BY <1>1 DEF VerifyInv, PagesAreRight, PageIsRight, Usable, Since, IsDelta
  <1>4. SurplusLeaves' /\ MissingComes'
    BY <1>1 DEF VerifyInv, SurplusLeaves, MissingComes, WillRemove, WillBring, Usable, Since
  <1>5. TornIsFilled' /\ OwedIsAsked' /\ MovedIsUnseen'
    BY <1>1 DEF VerifyInv, TornIsFilled, FilledBy, OwedIsAsked, MovedIsUnseen, WillBring, Usable, Since, Syncing
  <1> QED
    BY <1>2, <1>3, <1>4, <1>5 DEF VerifyInv

\* A card or its holder changes: it is newer than the last sync, or a delta may pass over it.
LEMMA ChangedCards ==
    ASSUME VerifyInv, NEW k \in Cards, CardChange(k),
           card' \in [Cards -> [active : BOOLEAN, holder : BOOLEAN, at : Nat]],
           \A j \in Cards \ {k} : card'[j] = card[j],
           card'[k].at <= now,
           unseen' \in {unseen, unseen \cup {k}, unseen \ {k}},
           \/ k \in unseen'
           \/ ~Syncing /\ card'[k].at > lastSyncAt /\ (Usable(k)' \/ ~card'[k].active)
    PROVE  VerifyInv'
  <1>1. /\ UNCHANGED <<now, credentials, lastSyncAt, needsFullSync, pendingSince, sync, torn>>
        /\ moved' = moved \cup {k}
    BY DEF CardChange, copyVars
  <1>2. CopyTypeOK'
    BY <1>1 DEF VerifyInv, CopyTypeOK
  <1>3. PagesAreRight'
    BY <1>1 DEF VerifyInv, PagesAreRight, PageIsRight, Usable, Since, IsDelta
  <1>4. TornIsFilled' /\ OwedIsAsked'
    BY <1>1 DEF VerifyInv, TornIsFilled, FilledBy, OwedIsAsked, WillBring, Usable, Since
  <1>5. MovedIsUnseen'
    BY <1>1 DEF VerifyInv, MovedIsUnseen, Syncing
  <1>6. ASSUME NEW j \in Cards \ unseen', j # k PROVE j \in Cards \ unseen /\ card'[j] = card[j]
    BY <1>6
  <1>7. SurplusLeaves'
    <2> SUFFICES ASSUME NEW j \in Cards \ unseen', j \in credentials, ~Usable(j)'
                 PROVE  /\ ~card'[j].active /\ card'[j].at > lastSyncAt
                        /\ \A r \in Refreshers : sync[r] # NoSync => WillRemove(sync[r], j)'
      BY <1>1 DEF SurplusLeaves, WillRemove, Since
    <2>1. CASE j = k
      BY <2>1 DEF Syncing
    <2>2. CASE j # k
      BY <1>1, <1>6, <2>2 DEF VerifyInv, SurplusLeaves, WillRemove, Usable, Since
    <2> QED
      BY <2>1, <2>2
  <1>8. MissingComes'
    <2> SUFFICES ASSUME torn = Whole, NEW j \in Cards \ unseen', Usable(j)', j \notin credentials
                 PROVE  /\ card'[j].at > lastSyncAt
                        /\ \A r \in Refreshers : sync[r] # NoSync => WillBring(sync[r], j)'
      BY <1>1 DEF MissingComes, WillBring, Since
    <2>1. CASE j = k
      BY <2>1 DEF Syncing, Usable
    <2>2. CASE j # k
      BY <1>1, <1>6, <2>2 DEF VerifyInv, MissingComes, WillBring, Usable, Since
    <2> QED
      BY <2>1, <2>2
  <1> QED
    BY <1>2, <1>3, <1>4, <1>5, <1>7, <1>8 DEF VerifyInv

\* A refresh that starts asks for rows since the last one ended, or for all.
LEMMA RefreshKeepsCourse ==
    ASSUME VerifyInv, NEW r \in Refreshers, RefreshStarts(r) PROVE VerifyInv'
  <1> DEFINE since == IF AsksForAll THEN NeverSynced ELSE lastSyncAt
             begun == AskFrom(since, 0)
  <1>1. /\ sync[r] = NoSync /\ sync' = [sync EXCEPT ![r] = begun]
        /\ UNCHANGED <<now, card, credentials, lastSyncAt, needsFullSync, unseen, torn>>
        /\ moved' = IF Syncing THEN moved ELSE {}
    BY DEF RefreshStarts
  <1>2. /\ since \in Int /\ since <= lastSyncAt /\ lastSyncAt \in Int
        /\ \A k \in Cards : card[k].at \in Nat
    BY DEF VerifyInv, CopyTypeOK, NeverSynced
  <1>3. begun \in Refreshes /\ begun # NoSync
    BY <1>2 DEF Refreshes, NoSync, AskFrom
  <1> HIDE DEF since
  <1>4. sync \in [Refreshers -> {NoSync} \cup Refreshes] /\ sync' \in [Refreshers -> {NoSync} \cup Refreshes]
    BY <1>1, <1>3 DEF VerifyInv, CopyTypeOK
  <1>5. sync'[r] = begun /\ \A q \in Refreshers : q # r => sync'[q] = sync[q]
    BY <1>1, <1>4
  <1>6. begun.step = "ask" /\ begun.cursor = 0 /\ begun.since = since
    BY DEF AskFrom
  <1> HIDE DEF begun
  <1>7. ASSUME NEW k \in Cards, card[k].at > lastSyncAt PROVE WillRemove(begun, k) /\ WillBring(begun, k)
    <2>1. Since(k, since)
      BY <1>2, <1>7 DEF Since
    <2>2. k \in Nat /\ k > 0
      BY VerifyAssumption, FS_CardinalityType
    <2> QED
      BY <1>6, <2>1, <2>2 DEF WillRemove, WillBring
  <1>8. CopyTypeOK'
    BY <1>1, <1>4 DEF VerifyInv, CopyTypeOK
  <1>9. PagesAreRight'
    <2> SUFFICES ASSUME NEW q \in Refreshers, sync'[q].step = "apply"
                 PROVE  /\ sync'[q].more => sync'[q].page # {}
                        /\ \A k \in Cards : k \in moved' \/ PageIsRight(sync[q], k)'
      BY DEF PagesAreRight
    <2>1. q # r /\ sync'[q] = sync[q]
      BY <1>5, <1>6
    <2>2. sync[q] # NoSync
      BY <2>1 DEF NoSync
    <2>3. moved' = moved
      BY <1>1, <2>2 DEF Syncing
    <2> QED
      BY <1>1, <2>1, <2>3 DEF VerifyInv, PagesAreRight, PageIsRight, Usable, Since, IsDelta
  <1>10. SurplusLeaves'
    <2> SUFFICES ASSUME NEW k \in Cards \ unseen, k \in credentials, ~Usable(k)
                 PROVE  /\ ~card[k].active /\ card[k].at > lastSyncAt
                        /\ \A q \in Refreshers : sync'[q] # NoSync => WillRemove(sync'[q], k)
      BY <1>1 DEF SurplusLeaves, WillRemove, Usable, Since
    <2>1. /\ ~card[k].active /\ card[k].at > lastSyncAt
          /\ \A q \in Refreshers : sync[q] # NoSync => WillRemove(sync[q], k)
      BY DEF VerifyInv, SurplusLeaves
    <2> QED
      BY <1>5, <1>7, <2>1
  <1>11. MissingComes'
    <2> SUFFICES ASSUME torn = Whole, NEW k \in Cards \ unseen, Usable(k), k \notin credentials
                 PROVE  /\ card[k].at > lastSyncAt
                        /\ \A q \in Refreshers : sync'[q] # NoSync => WillBring(sync'[q], k)
      BY <1>1 DEF MissingComes, WillBring, Usable, Since
    <2>1. /\ card[k].at > lastSyncAt
          /\ \A q \in Refreshers : sync[q] # NoSync => WillBring(sync[q], k)
      BY DEF VerifyInv, MissingComes
    <2> QED
      BY <1>5, <1>7, <2>1
  <1>12. TornIsFilled'
    <2> SUFFICES ASSUME torn \in Refreshers PROVE FilledBy(torn)'
      BY <1>1 DEF TornIsFilled, FilledBy
    <2>1. FilledBy(torn)
      BY DEF VerifyInv, TornIsFilled
    <2>2. torn # r /\ sync'[torn] = sync[torn]
      BY <1>1, <1>5, <2>1 DEF FilledBy
    <2>3. moved' = moved
      BY <1>1, <2>1 DEF FilledBy, Syncing
    <2> QED
      BY <1>1, <2>1, <2>2, <2>3 DEF FilledBy, WillBring, Usable, Since
  <1>13. OwedIsAsked' /\ MovedIsUnseen'
    BY <1>1 DEF VerifyInv, OwedIsAsked, MovedIsUnseen
  <1> QED
    BY <1>8, <1>9, <1>10, <1>11, <1>12, <1>13 DEF VerifyInv

\* What the Worker sends next is right about every card that does not change meanwhile.
LEMMA SnapshotKeepsCourse ==
    ASSUME VerifyInv, NEW r \in Refreshers, handleCredentialSnapshot(r) PROVE VerifyInv'
  <1> DEFINE s == sync[r]
             found == SnapshotRows(s)
             page == {k \in found : Cardinality({j \in found : j <= k}) <= SnapshotPage}
             next == [step |-> "apply", since |-> s.since, cursor |-> s.cursor, page |-> page,
                      gone |-> Removed(s), more |-> (found # page)]
  <1>1. /\ s.step = "ask"
        /\ sync' = [sync EXCEPT ![r] = next]
        /\ UNCHANGED <<now, card, credentials, lastSyncAt, needsFullSync, unseen, moved, torn>>
    BY DEF handleCredentialSnapshot, verifyHistory
  <1>3. page \subseteq found /\ found \subseteq Cards /\ Removed(s) \subseteq Cards
    BY DEF Removed, SnapshotRows
  <1>6. (\A k \in page, j \in found : j <= k => j \in page) /\ (found # page => page # {})
    <2>1. PICK n \in Nat : found \in SUBSET (1 .. n)
      BY <1>3, VerifyAssumption, FS_CardinalityType
    <2>2. SnapshotPage \in Nat \ {0}
      BY VerifyAssumption
    <2>3. page = PageOf(found, SnapshotPage)
      BY DEF PageOf
    <2> HIDE DEF found, page
    <2> QED
      BY <2>1, <2>2, <2>3, PagesAreBeginnings
  <1>7. Cards \subseteq Nat /\ Cardinality(Cards) \in Nat /\ Cards = 1 .. Cardinality(Cards)
    BY VerifyAssumption, FS_CardinalityType
  <1>8. page # {} => Max(page) \in page
    BY <1>3, <1>7, GreatestOf
  <1>9. \A k \in Cards : k \in found <=> Usable(k) /\ (IsDelta(s) => Since(k, s.since)) /\ k > s.cursor
    BY DEF SnapshotRows
  <1>10. \A k \in Cards : k \in Removed(s) <=> IsDelta(s) /\ ~card[k].active /\ Since(k, s.since)
    BY DEF Removed
  <1> HIDE DEF page, found
  <1>2. s \in Refreshes /\ sync \in [Refreshers -> {NoSync} \cup Refreshes]
    <2>1. sync \in [Refreshers -> {NoSync} \cup Refreshes]
      BY DEF VerifyInv, CopyTypeOK
    <2> QED
      BY <1>1, <2>1 DEF NoSync
  <1>11. /\ next \in Refreshes /\ next # NoSync /\ next.step = "apply" /\ next.since = s.since
         /\ next.cursor = s.cursor /\ next.page = page /\ next.gone = Removed(s) /\ next.more = (found # page)
    BY <1>2, <1>3 DEF Refreshes, NoSync
  <1>12. IsDelta(next) = IsDelta(s)
    BY <1>11 DEF IsDelta
  <1> HIDE DEF next
  <1>13. sync'[r] = next /\ \A q \in Refreshers : q # r => sync'[q] = sync[q]
    BY <1>1, <1>2
  <1>14. s # NoSync
    BY <1>1 DEF NoSync
  \* A card of the rows found is on the page, or past its last one.
  <1>15. ASSUME NEW k \in found PROVE k \in page \/ (found # page /\ k > Max(page))
    <2> SUFFICES ASSUME k \notin page PROVE k > Max(page)
      BY <1>15
    <2>1. Max(page) \in page /\ Max(page) \in Nat /\ k \in Nat
      BY <1>3, <1>6, <1>7, <1>8, <1>15
    <2>2. ~(k <= Max(page))
      BY <1>6, <1>15, <2>1
    <2> QED
      BY <2>1, <2>2
  <1>16. ASSUME NEW k \in Cards PROVE PageIsRight(next, k)
    <2>1. k \in page => Usable(k)
      BY <1>3, <1>9
    <2>2. Usable(k) /\ k > s.cursor /\ (IsDelta(s) => Since(k, s.since))
              => k \in page \/ (found # page /\ k > Max(page))
      BY <1>9, <1>15
    <2> QED
      BY <1>10, <1>11, <1>12, <2>1, <2>2 DEF PageIsRight
  <1>17. ASSUME NEW k \in Cards, Usable(k), WillBring(s, k) PROVE WillBring(next, k)
    <2>1. Since(k, s.since) /\ k > s.cursor
      BY <1>1, <1>17 DEF WillBring
    <2>2. k \in page \/ (found # page /\ k > Max(page))
      BY <1>9, <1>15, <1>17, <2>1
    <2> QED
      BY <1>11, <2>1, <2>2 DEF WillBring
  <1>18. \A k \in Cards : WillRemove(next, k) = WillRemove(s, k)
    BY <1>11 DEF WillRemove
  <1>19. CopyTypeOK'
    <2>1. sync' \in [Refreshers -> {NoSync} \cup Refreshes]
      BY <1>1, <1>2, <1>11
    <2> QED
      BY <1>1, <2>1 DEF VerifyInv, CopyTypeOK
  <1>20. PagesAreRight'
    <2> SUFFICES ASSUME NEW q \in Refreshers, sync'[q].step = "apply"
                 PROVE  /\ sync'[q].more => sync'[q].page # {}
                        /\ \A k \in Cards : k \in moved \/ PageIsRight(sync'[q], k)
      BY <1>1 DEF PagesAreRight, PageIsRight, Usable, Since, IsDelta
    <2>1. CASE q = r
      BY <1>6, <1>11, <1>13, <1>16, <2>1
    <2>2. CASE q # r
      BY <1>13, <2>2 DEF VerifyInv, PagesAreRight
    <2> QED
      BY <2>1, <2>2
  <1>21. SurplusLeaves'
    <2> SUFFICES ASSUME NEW k \in Cards \ unseen, k \in credentials, ~Usable(k)
                 PROVE  /\ ~card[k].active /\ card[k].at > lastSyncAt
                        /\ \A q \in Refreshers : sync'[q] # NoSync => WillRemove(sync'[q], k)
      BY <1>1 DEF SurplusLeaves, WillRemove, Usable, Since
    <2>1. /\ ~card[k].active /\ card[k].at > lastSyncAt
          /\ \A q \in Refreshers : sync[q] # NoSync => WillRemove(sync[q], k)
      BY DEF VerifyInv, SurplusLeaves
    <2> QED
      BY <1>13, <1>14, <1>18, <2>1
  <1>22. MissingComes'
    <2> SUFFICES ASSUME torn = Whole, NEW k \in Cards \ unseen, Usable(k), k \notin credentials
                 PROVE  /\ card[k].at > lastSyncAt
                        /\ \A q \in Refreshers : sync'[q] # NoSync => WillBring(sync'[q], k)
      BY <1>1 DEF MissingComes, WillBring, Usable, Since
    <2>1. /\ card[k].at > lastSyncAt
          /\ \A q \in Refreshers : sync[q] # NoSync => WillBring(sync[q], k)
      BY DEF VerifyInv, MissingComes
    <2> QED
      BY <1>13, <1>14, <1>17, <2>1
  <1>23. TornIsFilled'
    <2> SUFFICES ASSUME torn \in Refreshers PROVE FilledBy(torn)'
      BY <1>1 DEF TornIsFilled, FilledBy
    <2>1. FilledBy(torn)
      BY DEF VerifyInv, TornIsFilled
    <2>2. sync'[torn] # NoSync /\ sync'[torn].since = NeverSynced /\ sync'[torn].cursor # 0
      BY <1>11, <1>13, <2>1 DEF FilledBy
    <2>3. \A k \in Cards \ moved :
              /\ k \in credentials => Usable(k)
              /\ Usable(k) /\ k \notin credentials => WillBring(sync'[torn], k)
      BY <1>13, <1>17, <2>1 DEF FilledBy
    <2> QED
      BY <1>1, <2>2, <2>3 DEF FilledBy, WillBring, Usable, Since
  <1>24. OwedIsAsked' /\ MovedIsUnseen'
    BY <1>1, <1>14 DEF VerifyInv, OwedIsAsked, MovedIsUnseen, Syncing
  <1> QED
    BY <1>19, <1>20, <1>21, <1>22, <1>23, <1>24 DEF VerifyInv

\* What applying a page can leave wrong about a card that has not changed.
LEMMA PageApplied ==
    ASSUME VerifyInv, NEW r \in Refreshers, sync[r].step = "apply", NEW k \in Cards, k \notin moved
    PROVE  /\ k \in applyPage(sync[r]) /\ ~Usable(k)
                 => k \in credentials /\ ~Empties(sync[r]) /\ k \notin sync[r].gone
           /\ Usable(k) /\ k \notin applyPage(sync[r])
                 => (Empties(sync[r]) \/ k \notin credentials) /\ k \notin sync[r].page
  <1>1. (k \in sync[r].page => Usable(k)) /\ (k \in sync[r].gone => ~card[k].active)
    BY DEF VerifyInv, PagesAreRight, PageIsRight
  <1> QED
    BY <1>1 DEF applyPage, Usable

\* A card that the copy holds wrongly does not outlive a page of any refresh.
LEMMA SurplusGoes ==
    ASSUME VerifyInv, NEW r \in Refreshers, sync[r].step = "apply", NEW k \in Cards \ unseen
    PROVE  k \in applyPage(sync[r]) => Usable(k)
  <1> SUFFICES ASSUME k \in applyPage(sync[r]), ~Usable(k) PROVE FALSE
    OBVIOUS
  <1>1. sync[r] # NoSync
    BY DEF NoSync
  <1>2. k \notin moved
    BY <1>1 DEF VerifyInv, MovedIsUnseen, Syncing
  <1>3. k \in credentials /\ ~Empties(sync[r]) /\ k \notin sync[r].gone
    BY <1>2, PageApplied
  <1>4. ~card[k].active /\ WillRemove(sync[r], k)
    BY <1>1, <1>3 DEF VerifyInv, SurplusLeaves
  <1>5. IsDelta(sync[r])
    BY <1>3, <1>4 DEF Empties, WillRemove, IsDelta
  <1>6. PageIsRight(sync[r], k)
    BY <1>2 DEF VerifyInv, PagesAreRight
  <1> QED
    BY <1>3, <1>4, <1>5, <1>6 DEF PageIsRight, WillRemove

\* What a page does not bring, a later one does.
LEMMA MissingIsLater ==
    ASSUME VerifyInv, NEW r \in Refreshers, sync[r].step = "apply", NEW k \in Cards, k \notin moved,
           Usable(k), k \notin applyPage(sync[r]),
           WillBring(sync[r], k) \/ (Empties(sync[r]) /\ sync[r].since = NeverSynced)
    PROVE  sync[r].more /\ k > Max(sync[r].page) /\ Since(k, sync[r].since)
  <1>1. k \notin sync[r].page
    BY PageApplied
  <1>2. CASE WillBring(sync[r], k)
    BY <1>1, <1>2 DEF WillBring
  <1>3. CASE Empties(sync[r]) /\ sync[r].since = NeverSynced
    <2>1. k > 0 /\ card[k].at \in Nat
      BY VerifyAssumption, FS_CardinalityType DEF VerifyInv, CopyTypeOK
    <2>2. Since(k, sync[r].since)
      BY <1>3, <2>1 DEF Since, NeverSynced
    <2>3. k > sync[r].cursor
      BY <1>3, <2>1 DEF Empties
    <2>4. PageIsRight(sync[r], k)
      BY DEF VerifyInv, PagesAreRight
    <2> QED
      BY <1>1, <2>2, <2>3, <2>4 DEF PageIsRight
  <1> QED
    BY <1>2, <1>3

\* A page is applied, and its refresh goes on after its last row.
LEMMA PagesApply == ASSUME VerifyInv, NEW r \in Refreshers, SyncApplies(r) PROVE VerifyInv'
  <1> DEFINE s == sync[r]
             next == AskFrom(s.since, Max(s.page))
  <1>1. /\ s.step = "apply" /\ s.more /\ credentials' = applyPage(s) /\ torn' = TornBy(r)
        /\ sync' = [sync EXCEPT ![r] = next]
        /\ UNCHANGED <<now, card, lastSyncAt, needsFullSync, pendingSince, unseen, moved>>
    BY DEF SyncApplies
  <1>2. /\ s \in Refreshes /\ s # NoSync /\ sync \in [Refreshers -> {NoSync} \cup Refreshes]
    BY <1>1 DEF VerifyInv, CopyTypeOK, NoSync
  <1>4. Max(s.page) \in Cards /\ Max(s.page) # 0
    <2>1. s.page # {}
      BY <1>1 DEF VerifyInv, PagesAreRight
    <2>2. PICK n \in Nat : Cards = 1 .. n
      BY VerifyAssumption, FS_CardinalityType
    <2>3. s.page \in SUBSET (1 .. n)
      BY <1>2, <2>2 DEF Refreshes
    <2> HIDE DEF s
    <2>4. Max(s.page) \in s.page
      BY <2>1, <2>3, GreatestOf
    <2> QED
      BY <2>2, <2>3, <2>4
  <1>6. /\ next \in Refreshes /\ next # NoSync /\ next.step = "ask" /\ next.cursor = Max(s.page)
        /\ next.since = s.since
    BY <1>2, <1>4 DEF Refreshes, NoSync, AskFrom
  <1> HIDE DEF next
  <1>7. sync'[r] = next /\ \A q \in Refreshers : q # r => sync'[q] = sync[q]
    BY <1>1, <1>2
  <1>8. moved \subseteq unseen
    BY <1>2 DEF VerifyInv, MovedIsUnseen, Syncing
  <1>9. ASSUME NEW k \in Cards \ moved, Usable(k), k \notin applyPage(s),
               WillBring(s, k) \/ (Empties(s) /\ s.since = NeverSynced)
        PROVE  WillBring(next, k)
    BY <1>1, <1>6, <1>9, MissingIsLater DEF WillBring
  <1>10. CopyTypeOK'
    BY <1>1, <1>2, <1>6 DEF VerifyInv, CopyTypeOK
  <1>11. PagesAreRight'
    <2> SUFFICES ASSUME NEW q \in Refreshers, sync'[q].step = "apply"
                 PROVE  /\ sync'[q].more => sync'[q].page # {}
                        /\ \A k \in Cards : k \in moved \/ PageIsRight(sync'[q], k)
      BY <1>1 DEF PagesAreRight, PageIsRight, Usable, Since, IsDelta
    <2> QED
      BY <1>6, <1>7 DEF VerifyInv, PagesAreRight
  <1>12. SurplusLeaves'
    BY <1>1, SurplusGoes DEF SurplusLeaves, Usable
  <1>13. MissingComes'
    <2> SUFFICES ASSUME TornBy(r) = Whole, NEW k \in Cards \ unseen, Usable(k), k \notin applyPage(s)
                 PROVE  /\ card[k].at > lastSyncAt
                        /\ \A q \in Refreshers : sync'[q] # NoSync => WillBring(sync'[q], k)
      BY <1>1 DEF MissingComes, WillBring, Usable, Since
    <2>1. torn = Whole /\ ~Empties(s)
      BY RefresherAssumption DEF TornBy, Whole, Unnoticed
    <2>2. k \notin credentials /\ k \notin moved
      BY <1>1, <1>8, <2>1, PageApplied
    <2>3. /\ card[k].at > lastSyncAt
          /\ \A q \in Refreshers : sync[q] # NoSync => WillBring(sync[q], k)
      BY <2>1, <2>2 DEF VerifyInv, MissingComes
    <2> QED
      BY <1>2, <1>7, <1>9, <2>2, <2>3
  <1>14. TornIsFilled'
    <2> SUFFICES ASSUME torn' \in Refreshers PROVE FilledBy(torn)'
      BY DEF TornIsFilled
    <2>1. \/ Empties(s) /\ s.since = NeverSynced /\ torn' = r
          \/ ~Empties(s) /\ torn' = torn /\ torn \in Refreshers /\ FilledBy(torn)
      BY <1>1, RefresherAssumption DEF TornBy, Unnoticed, VerifyInv, TornIsFilled
    <2>2. sync'[torn'] # NoSync /\ sync'[torn'].since = NeverSynced /\ sync'[torn'].cursor # 0
      BY <1>4, <1>6, <1>7, <2>1 DEF FilledBy
    <2>3. ASSUME NEW k \in Cards \ moved
          PROVE  /\ k \in applyPage(s) => Usable(k)
                 /\ Usable(k) /\ k \notin applyPage(s) => WillBring(sync'[torn'], k)
      <3>1. CASE Empties(s) /\ s.since = NeverSynced /\ torn' = r
        BY <1>1, <1>7, <1>9, <3>1, PageApplied
      <3>2. CASE ~Empties(s) /\ torn' = torn /\ torn \in Refreshers /\ FilledBy(torn)
        <4>1. (k \in credentials => Usable(k)) /\ (Usable(k) /\ k \notin credentials => WillBring(sync[torn], k))
          BY <3>2 DEF FilledBy
        <4> QED
          BY <1>1, <1>7, <1>9, <3>2, <4>1, PageApplied
      <3> QED
        BY <2>1, <3>1, <3>2
    <2> QED
      BY <1>1, <2>2, <2>3 DEF FilledBy, WillBring, Usable, Since
  <1>15. OwedIsAsked'
    <2>1. TornBy(r) = Owed => torn = Owed
      BY RefresherAssumption DEF TornBy, Owed, Unnoticed
    <2> QED
      BY <1>1, <2>1 DEF VerifyInv, OwedIsAsked
  <1>16. MovedIsUnseen'
    BY <1>1, <1>8 DEF MovedIsUnseen
  <1> QED
    BY <1>10, <1>11, <1>12, <1>13, <1>14, <1>15, <1>16 DEF VerifyInv

\* The last page of a refresh is applied; a refresh of everything leaves no card unseen
\* but those that changed meanwhile.
LEMMA RefreshesEnd == ASSUME VerifyInv, NEW r \in Refreshers, SyncEnds(r) PROVE VerifyInv'
  <1> DEFINE s == sync[r]
  <1>1. /\ s.step = "apply" /\ ~s.more /\ credentials' = applyPage(s)
        /\ sync' = [sync EXCEPT ![r] = NoSync] /\ lastSyncAt' = now /\ needsFullSync' = FALSE
        /\ torn' = IF TornBy(r) = r THEN Whole ELSE IF TornBy(r) = Owed THEN Unnoticed ELSE TornBy(r)
        /\ unseen' = IF TornBy(r) = r THEN moved ELSE unseen
        /\ UNCHANGED <<now, card, pendingSince, moved>>
    BY DEF SyncEnds
  <1>2. s \in Refreshes /\ s # NoSync /\ sync \in [Refreshers -> {NoSync} \cup Refreshes]
    BY <1>1 DEF VerifyInv, CopyTypeOK, NoSync
  <1>3. sync'[r] = NoSync /\ \A q \in Refreshers : q # r => sync'[q] = sync[q]
    BY <1>1, <1>2
  <1>4. moved \subseteq unseen
    BY <1>2 DEF VerifyInv, MovedIsUnseen, Syncing
  <1>5. Whole \notin Refreshers /\ Owed \notin Refreshers /\ Unnoticed \notin Refreshers
        /\ Whole # Owed /\ Whole # Unnoticed /\ Owed # Unnoticed
    BY RefresherAssumption DEF Whole, Owed, Unnoticed
  <1>6. CopyTypeOK'
    <2>1. sync' \in [Refreshers -> {NoSync} \cup Refreshes]
      BY <1>1, <1>2
    <2>2. now \in Nat /\ NeverSynced <= now /\ now <= now
      BY DEF VerifyInv, CopyTypeOK, NeverSynced
    <2> QED
      BY <1>1, <2>1, <2>2 DEF VerifyInv, CopyTypeOK
  <1>7. PagesAreRight'
    <2> SUFFICES ASSUME NEW q \in Refreshers, sync'[q].step = "apply"
                 PROVE  /\ sync'[q].more => sync'[q].page # {}
                        /\ \A k \in Cards : k \in moved \/ PageIsRight(sync'[q], k)
      BY <1>1 DEF PagesAreRight, PageIsRight, Usable, Since, IsDelta
    <2>1. q # r
      BY <1>3 DEF NoSync
    <2> QED
      BY <1>3, <2>1 DEF VerifyInv, PagesAreRight
  \* What a refresh of everything ends with is exactly what is usable.
  <1>8. ASSUME TornBy(r) = r, NEW k \in Cards \ moved PROVE k \in applyPage(s) <=> Usable(k)
    <2>1. \/ Empties(s) /\ s.since = NeverSynced
          \/ ~Empties(s) /\ FilledBy(r)
      BY <1>5, <1>8 DEF TornBy, VerifyInv, TornIsFilled
    <2>2. k \in applyPage(s) => Usable(k)
      BY <1>1, <2>1, PageApplied DEF FilledBy
    <2>3. Usable(k) /\ k \notin applyPage(s) => WillBring(s, k) \/ (Empties(s) /\ s.since = NeverSynced)
      BY <1>1, <2>1, PageApplied DEF FilledBy
    <2>4. ~(Usable(k) /\ k \notin applyPage(s))
      BY <1>1, <2>3, MissingIsLater
    <2> QED
      BY <2>2, <2>4
  <1>9. SurplusLeaves'
    <2>1. CASE TornBy(r) = r
      BY <1>1, <1>8, <2>1 DEF SurplusLeaves, Usable
    <2>2. CASE TornBy(r) # r
      BY <1>1, <2>2, SurplusGoes DEF SurplusLeaves, Usable
    <2> QED
      BY <2>1, <2>2
  <1>10. MissingComes'
    <2>1. CASE TornBy(r) = r
      BY <1>1, <1>8, <2>1 DEF MissingComes, Usable
    <2>2. CASE TornBy(r) # r
      <3> SUFFICES ASSUME TornBy(r) = Whole, NEW k \in Cards \ unseen, Usable(k)
                   PROVE  k \in applyPage(s)
        BY <1>1, <1>5, <2>2 DEF MissingComes, Usable
      <3>1. torn = Whole /\ ~Empties(s) /\ k \notin moved
        BY <1>4, <1>5 DEF TornBy
      <3>2. k \notin credentials => WillBring(s, k)
        BY <1>2, <3>1 DEF VerifyInv, MissingComes
      <3> QED
        BY <1>1, <3>1, <3>2, PageApplied, MissingIsLater
    <2> QED
      BY <2>1, <2>2
  <1>11. TornIsFilled'
    <2> SUFFICES ASSUME torn' \in Refreshers PROVE FilledBy(torn)'
      BY DEF TornIsFilled
    <2>1. torn' = TornBy(r) /\ TornBy(r) # r
      BY <1>1, <1>5
    <2>2. torn' = torn /\ torn # r /\ ~Empties(s) /\ FilledBy(torn) /\ sync'[torn] = sync[torn]
      BY <1>3, <1>5, <2>1 DEF TornBy, VerifyInv, TornIsFilled
    <2>3. ASSUME NEW k \in Cards \ moved
          PROVE  /\ k \in applyPage(s) => Usable(k)
                 /\ Usable(k) /\ k \notin applyPage(s) => WillBring(sync[torn], k)
      BY <1>1, <2>2, PageApplied DEF FilledBy
    <2> QED
      BY <1>1, <2>2, <2>3 DEF FilledBy, WillBring, Usable, Since
  <1>12. OwedIsAsked'
    BY <1>1, <1>5 DEF OwedIsAsked
  <1>13. MovedIsUnseen'
    BY <1>1, <1>4 DEF MovedIsUnseen
  <1> QED
    BY <1>6, <1>7, <1>9, <1>10, <1>11, <1>12, <1>13 DEF VerifyInv

\* A refresh fails, and the copy keeps what it had applied.
LEMMA RefreshesFail == ASSUME VerifyInv, NEW r \in Refreshers, SyncFails(r) PROVE VerifyInv'
  <1>1. /\ sync[r] # NoSync /\ sync' = [sync EXCEPT ![r] = NoSync] /\ needsFullSync' = TRUE
        /\ torn' = IF torn = r THEN Owed ELSE torn
        /\ UNCHANGED <<now, card, credentials, lastSyncAt, unseen, moved>>
    BY DEF SyncFails
  <1>2. sync'[r] = NoSync /\ \A q \in Refreshers : q # r => sync'[q] = sync[q]
    BY <1>1 DEF VerifyInv, CopyTypeOK
  <1>3. CopyTypeOK'
    BY <1>1 DEF VerifyInv, CopyTypeOK
  <1>4. PagesAreRight'
    <2> SUFFICES ASSUME NEW q \in Refreshers, sync'[q].step = "apply"
                 PROVE  /\ sync'[q].more => sync'[q].page # {}
                        /\ \A k \in Cards : k \in moved \/ PageIsRight(sync'[q], k)
      BY <1>1 DEF PagesAreRight, PageIsRight, Usable, Since, IsDelta
    <2>1. q # r
      BY <1>2 DEF NoSync
    <2> QED
      BY <1>2, <2>1 DEF VerifyInv, PagesAreRight
  <1>5. SurplusLeaves'
    BY <1>1, <1>2 DEF VerifyInv, SurplusLeaves, WillRemove, Usable, Since
  <1>6. torn' = Whole => torn = Whole
    BY <1>1 DEF Whole, Owed
  <1>7. MissingComes'
    BY <1>1, <1>2, <1>6 DEF VerifyInv, MissingComes, WillBring, Usable, Since
  <1>8. TornIsFilled'
    <2> SUFFICES ASSUME torn' \in Refreshers PROVE FilledBy(torn)'
      BY DEF TornIsFilled
    <2>1. torn' = torn /\ torn # r
      BY <1>1, RefresherAssumption
    <2>2. FilledBy(torn) /\ sync'[torn] = sync[torn]
      BY <1>2, <2>1 DEF VerifyInv, TornIsFilled
    <2> QED
      BY <1>1, <2>1, <2>2 DEF FilledBy, WillBring, Usable, Since
  <1>9. OwedIsAsked'
    BY <1>1 DEF OwedIsAsked
  <1>10. MovedIsUnseen'
    BY <1>1 DEF VerifyInv, MovedIsUnseen, Syncing
  <1> QED
    BY <1>3, <1>4, <1>5, <1>7, <1>8, <1>9, <1>10 DEF VerifyInv

\* A restart forgets the copy; the first refresh asks for all.
LEMMA RestartsForget == ASSUME VerifyInv, BridgeRestart PROVE VerifyInv'
  <1>1. /\ credentials' = {} /\ lastSyncAt' = NeverSynced /\ torn' = Whole
        /\ sync' = [r \in Refreshers |-> NoSync] /\ UNCHANGED <<now, card, unseen, moved>>
    BY DEF BridgeRestart
  <1>2. \A r \in Refreshers : sync'[r] = NoSync /\ sync'[r].step = "idle"
    BY <1>1 DEF NoSync
  <1>3. CopyTypeOK'
    BY <1>1 DEF VerifyInv, CopyTypeOK, NeverSynced
  <1>4. PagesAreRight' /\ SurplusLeaves' /\ MovedIsUnseen'
    BY <1>1, <1>2 DEF PagesAreRight, SurplusLeaves, MovedIsUnseen, Syncing
  <1>5. MissingComes'
    <2>1. \A k \in Cards : card'[k].at > lastSyncAt'
      BY <1>1 DEF VerifyInv, CopyTypeOK, NeverSynced
    <2> QED
      BY <1>2, <2>1 DEF MissingComes
  <1>6. TornIsFilled' /\ OwedIsAsked'
    BY <1>1, RefresherAssumption DEF TornIsFilled, OwedIsAsked, Whole, Owed
  <1> QED
    BY <1>3, <1>4, <1>5, <1>6 DEF VerifyInv

LEMMA VerifyStep == ASSUME VerifyInv, [VerifyNext]_verifyVars PROVE VerifyInv'
  <1>1. ASSUME NEW r \in Refreshers, SyncStep(r) \/ SyncFails(r) PROVE VerifyInv'
    BY <1>1, RefreshKeepsCourse, SnapshotKeepsCourse, PagesApply, RefreshesEnd, RefreshesFail DEF SyncStep
  <1>2. CASE BridgeRestart
    BY <1>2, RestartsForget
  <1>3. CASE Tick \/ SetRemoteVerify
    <2>1. UNCHANGED <<card, copyVars, verifyHistory>> /\ now' \in {now, now + 1}
      BY <1>3 DEF Tick, SetRemoteVerify
    <2>2. now' \in Nat /\ now <= now'
      BY <2>1 DEF VerifyInv, CopyTypeOK
    <2> QED
      BY <2>1, <2>2, CopyStays
  <1>4. ASSUME NEW k \in Cards, CardChanges(k) PROVE VerifyInv'
    <2>1. /\ card' = [card EXCEPT ![k].active = ~@, ![k].at = now] /\ CardChange(k)
          /\ unseen' = IF Syncing \/ now = lastSyncAt \/ ~(card[k].active \/ card[k].holder)
                       THEN unseen \cup {k} ELSE unseen \ {k}
      BY <1>4 DEF CardChanges
    <2>2. /\ card[k] \in [active : BOOLEAN, holder : BOOLEAN, at : Nat] /\ now \in Nat
          /\ lastSyncAt \in Int /\ lastSyncAt <= now
      BY DEF VerifyInv, CopyTypeOK
    <2>3. card'[k] = [active |-> ~card[k].active, holder |-> card[k].holder, at |-> now]
      BY <2>1, <2>2 DEF VerifyInv, CopyTypeOK
    <2>4. card' \in [Cards -> [active : BOOLEAN, holder : BOOLEAN, at : Nat]]
      BY <2>1, <2>2 DEF VerifyInv, CopyTypeOK
    <2>5. \A j \in Cards \ {k} : card'[j] = card[j]
      BY <2>1 DEF VerifyInv, CopyTypeOK
    <2>6. card'[k].at = now /\ card'[k].holder = card[k].holder /\ card'[k].active = ~card[k].active
      BY <2>3
    <2>7. \/ k \in unseen'
          \/ ~Syncing /\ card'[k].at > lastSyncAt /\ (Usable(k)' \/ ~card'[k].active)
      <3>1. CASE Syncing \/ now = lastSyncAt \/ ~(card[k].active \/ card[k].holder)
        BY <2>1, <3>1
      <3>2. CASE ~Syncing /\ now # lastSyncAt /\ (card[k].active \/ card[k].holder)
        <4>1. card'[k].at > lastSyncAt
          BY <2>2, <2>6, <3>2
        <4>2. Usable(k)' \/ ~card'[k].active
          BY <2>6, <3>2 DEF Usable
        <4> QED
          BY <3>2, <4>1, <4>2
      <3> QED
        BY <3>1, <3>2
    <2>8. unseen' \in {unseen, unseen \cup {k}, unseen \ {k}}
      BY <2>1
    <2>9. card'[k].at <= now
      BY <2>2, <2>6
    <2> QED
      BY <2>1, <2>4, <2>5, <2>7, <2>8, <2>9, ChangedCards
  <1>5. ASSUME NEW k \in Cards, AccountChanges(k) PROVE VerifyInv'
    <2>1. card' = [card EXCEPT ![k].holder = ~@] /\ CardChange(k) /\ unseen' = unseen \cup {k}
      BY <1>5 DEF AccountChanges
    <2>2. card[k] \in [active : BOOLEAN, holder : BOOLEAN, at : Nat] /\ card[k].at <= now
      BY DEF VerifyInv, CopyTypeOK
    <2>3. card'[k] = [active |-> card[k].active, holder |-> ~card[k].holder, at |-> card[k].at]
      BY <2>1, <2>2 DEF VerifyInv, CopyTypeOK
    <2>4. card' \in [Cards -> [active : BOOLEAN, holder : BOOLEAN, at : Nat]]
      BY <2>1, <2>2 DEF VerifyInv, CopyTypeOK
    <2>5. \A j \in Cards \ {k} : card'[j] = card[j]
      BY <2>1 DEF VerifyInv, CopyTypeOK
    <2>6. card'[k].at <= now /\ k \in unseen'
      BY <2>1, <2>2, <2>3
    <2> QED
      BY <2>1, <2>4, <2>5, <2>6, ChangedCards
  <1>6. ASSUME NEW k \in Cards, beginRemoteVerification(k) PROVE VerifyInv'
    <2>1. UNCHANGED <<now, card, copyVars, verifyHistory>>
      BY <1>6 DEF beginRemoteVerification
    <2>2. now' \in Nat /\ now <= now'
      BY <2>1 DEF VerifyInv, CopyTypeOK
    <2> QED
      BY <2>1, <2>2, CopyStays
  <1>7. CASE UNCHANGED verifyVars
    <2>1. UNCHANGED <<now, card, copyVars, verifyHistory>>
      BY <1>7 DEF verifyVars, copyVars, verifyHistory
    <2>2. now' \in Nat /\ now <= now'
      BY <2>1 DEF VerifyInv, CopyTypeOK
    <2> QED
      BY <2>1, <2>2, CopyStays
  <1> QED
    BY <1>1, <1>2, <1>3, <1>4, <1>5, <1>6, <1>7 DEF VerifyNext

\* Whatever order the pages of overlapping refreshes come in: the copy holds nothing
\* wrongly that a refresh under way does not remove, a whole copy lacks nothing that it
\* does not bring, and the refresh that emptied it fills it, about every card that a
\* delta cannot have passed over (refreshRemoteVerify, handleCredentialSnapshot).
THEOREM VerifyInvariant == VerifySpec => []VerifyInv
  <1> QED
    BY VerifyStarts, VerifyStep, PTL DEF VerifySpec

\* What the bridge's copy can miss is exactly what changed since the last refresh or
\* around one, and the cards of accounts that changed, until a refresh of everything;
\* for any number of cards, pages and overlapping refreshes.
THEOREM CopyMissesOnlyTheWindow == VerifySpec => []OnlyTheWindowIsMissed
  <1>1. VerifyInv => OnlyTheWindowIsMissed
    <2> SUFFICES ASSUME VerifyInv
                 PROVE  /\ torn = Whole => \A k \in Cards :
                               (k \in credentials) = Usable(k) \/ card[k].at > lastSyncAt \/ k \in unseen
                        /\ torn = Owed => AsksForAll
      BY DEF OnlyTheWindowIsMissed
    <2>1. \A k \in Cards : Usable(k) \in BOOLEAN
      BY DEF VerifyInv, CopyTypeOK, Usable
    <2> QED
      BY <2>1 DEF VerifyInv, SurplusLeaves, MissingComes, OwedIsAsked, AsksForAll
  <1> QED
    BY <1>1, VerifyInvariant, PTL

-----------------------------------------------------------------------------
(* Cards and doors *)

CommandStates == {"pending", "sent", "applied", "failed", "manual_action_required"}
Command == [of : Kinds \cup DoorCommands, on : BOOLEAN, status : CommandStates, stale : BOOLEAN,
            runs : Nat, again : BOOLEAN]
Requests == {NoDesk}
    \cup [step : {"write", "queue"}, restore : BOOLEAN, chosen : (SUBSET Kinds) \ {{}}]
    \cup [step : {"door"}, command : DoorCommands]
Batches == {NoPolling} \cup [step : {"claim", "apply", "report"}, rows : (SUBSET Nat) \ {{}}, ok : BOOLEAN]

CardTypeOK ==
    /\ linked \in BOOLEAN
    /\ credential \in [Kinds -> {"none", "active", "suspended"}]
    /\ holds \in [Kinds -> BOOLEAN]
    /\ commands \in Seq(Command)
    /\ access \in [AccessDesks -> Requests]
    /\ polling \in [CardPolls -> Batches]
    /\ \A p \in CardPolls : polling[p].rows \subseteq DOMAIN commands
    /\ retrying \in {0} \cup DOMAIN commands

\* Poll p was handed command i, and has it still before it, or has just run it.
Holds(p, i) == polling[p].step \in {"apply", "report"} /\ i \in polling[p].rows
Before(p, i) == Holds(p, i) /\ (polling[p].step = "report" => i # AtHand(p))

\* A command that was handed out once has one holder, which has not run it yet.
FirstDelivery(i) ==
    /\ commands[i].status = "pending" =>
          commands[i].runs = 0 /\ ~commands[i].stale /\ \A p \in CardPolls : ~Holds(p, i)
    /\ commands[i].status = "sent" => ~commands[i].stale
    /\ \A p, q \in CardPolls : Holds(p, i) /\ Holds(q, i) => p = q
    /\ \A p \in CardPolls : Before(p, i) => commands[i].runs = 0
    /\ commands[i].runs <= 1
DeliveredOnce == \A i \in DOMAIN commands : ~commands[i].again => FirstDelivery(i)

\* The reasons that excuse a credential.
Pardoned(k) == \E why \in {"crossed", "unqueued", "overtaken"} : <<why, k>> \in excused
\* A request has changed the credential and not queued its command yet.
Unqueued(k) == \E d \in AccessDesks : access[d].step = "queue" /\ k \in access[d].chosen
Of(i, k) == i \in DOMAIN commands /\ commands[i].of = k
LastOf(i, k) == Of(i, k) /\ \A j \in DOMAIN commands : commands[j].of = k => j <= i

\* The last command for a credential says what the portal says.
QueueFollowsPortal == \A k \in Kinds : Pardoned(k) \/ Unqueued(k) \/
    /\ (\A i \in DOMAIN commands : commands[i].of # k) => holds[k] = (credential[k] = "active")
    /\ \A i \in DOMAIN commands : LastOf(i, k) => commands[i].on = (credential[k] = "active")

\* Command i took effect: it is answered so, or its poll is about to answer so.
TookEffect(i) ==
    \/ commands[i].status = "applied"
    \/ \E p \in CardPolls : polling[p].step = "report" /\ AtHand(p) = i /\ polling[p].ok

\* The terminal is as the last command that ran left it, if that one took effect.
TerminalFollowsQueue == \A k \in Kinds : Pardoned(k) \/
    \A i \in DOMAIN commands : Of(i, k) /\ TookEffect(i) =>
        /\ commands[i].runs > 0
        /\ (\A j \in DOMAIN commands : j > i /\ commands[j].of = k => commands[j].runs = 0)
              => holds[k] = commands[i].on

CardInv == CardTypeOK /\ DeliveredOnce /\ QueueFollowsPortal /\ TerminalFollowsQueue

LEMMA CardStarts == CardInit => CardInv
  <1> SUFFICES ASSUME CardInit PROVE CardInv
    OBVIOUS
  <1>1. /\ commands = <<>> /\ commands \in Seq(Command) /\ DOMAIN commands = {}
    BY DEF CardInit
  <1>2. polling = [p \in CardPolls |-> NoPolling] /\ NoPolling.rows = {}
    BY DEF CardInit, NoPolling
  <1>3. credential \in [Kinds -> {"none", "active", "suspended"}] /\ holds = [k \in Kinds |-> credential[k] = "active"]
    BY DEF CardInit, Kinds
  <1>4. CardTypeOK
    BY <1>1, <1>2, <1>3 DEF CardInit, CardTypeOK, Requests, Batches
  <1>5. DeliveredOnce /\ QueueFollowsPortal /\ TerminalFollowsQueue
    BY <1>1, <1>3 DEF DeliveredOnce, QueueFollowsPortal, TerminalFollowsQueue, LastOf, Of
  <1> QED
    BY <1>4, <1>5 DEF CardInv

\* The command at hand is one of the batch.
LEMMA AtHandIsHeld ==
    ASSUME CardTypeOK, NEW p \in CardPolls, polling[p].step \in {"claim", "apply", "report"}
    PROVE  /\ AtHand(p) \in polling[p].rows /\ polling[p].rows \subseteq DOMAIN commands
           /\ polling[p] \in [step : {"claim", "apply", "report"}, rows : (SUBSET Nat) \ {{}}, ok : BOOLEAN]
  <1>1. polling[p] \in [step : {"claim", "apply", "report"}, rows : (SUBSET Nat) \ {{}}, ok : BOOLEAN]
    <2>1. polling[p] \in Batches
      BY DEF CardTypeOK
    <2>2. polling[p] # NoPolling
      BY DEF NoPolling
    <2> QED
      BY <2>1, <2>2 DEF Batches
  <1>2. polling[p].rows \in SUBSET Nat /\ polling[p].rows # {}
    BY <1>1
  <1>3. \E m \in polling[p].rows : \A x \in polling[p].rows : m <= x
    BY <1>2, LeastOf
  <1>4. AtHand(p) \in polling[p].rows
    BY <1>3 DEF AtHand, Min
  <1> QED
    BY <1>1, <1>4 DEF CardTypeOK

\* One command changes.
LEMMA ChangesOne ==
    ASSUME CardTypeOK, NEW i \in DOMAIN commands, NEW c \in Command, commands' = [commands EXCEPT ![i] = c]
    PROVE  /\ commands' \in Seq(Command) /\ DOMAIN commands' = DOMAIN commands
           /\ commands'[i] = c /\ \A j \in DOMAIN commands : j # i => commands'[j] = commands[j]
  BY DEF CardTypeOK

\* One command joins the queue, behind the others.
LEMMA QueuesOne ==
    ASSUME CardTypeOK, NEW c \in Command, commands' = Append(commands, c)
    PROVE  LET n == Len(commands) + 1 IN
           /\ commands' \in Seq(Command) /\ DOMAIN commands' = DOMAIN commands \cup {n}
           /\ n \notin DOMAIN commands /\ \A j \in DOMAIN commands : j < n
           /\ commands'[n] = c /\ \A j \in DOMAIN commands : commands'[j] = commands[j]
  BY DEF CardTypeOK

\* The queue and the portal, where no command joins the queue.
LEMMA QueueStays ==
    ASSUME CardTypeOK, QueueFollowsPortal, DOMAIN commands' = DOMAIN commands,
           \A i \in DOMAIN commands : commands'[i].of = commands[i].of /\ commands'[i].on = commands[i].on,
           excused \subseteq excused',
           \A k \in Kinds : /\ credential'[k] = credential[k] \/ Unqueued(k)'
                            /\ Unqueued(k) => Unqueued(k)' \/ Pardoned(k)'
                            /\ holds'[k] = holds[k] \/ \E i \in DOMAIN commands : commands[i].of = k
    PROVE  QueueFollowsPortal'
  <1> SUFFICES ASSUME NEW k \in Kinds, ~Pardoned(k)', ~Unqueued(k)'
               PROVE  /\ (\A i \in DOMAIN commands' : commands'[i].of # k)
                             => holds'[k] = (credential'[k] = "active")
                      /\ \A i \in DOMAIN commands' : LastOf(i, k)' => commands'[i].on = (credential'[k] = "active")
    BY DEF QueueFollowsPortal
  <1>1. ~Pardoned(k) /\ ~Unqueued(k) /\ credential'[k] = credential[k]
    BY DEF Pardoned
  <1>2. \A i \in DOMAIN commands : LastOf(i, k)' = LastOf(i, k)
    BY DEF LastOf, Of
  <1> QED
    BY <1>1, <1>2 DEF QueueFollowsPortal

\* The terminal, where nothing takes effect on it.
LEMMA TerminalStays ==
    ASSUME CardTypeOK, TerminalFollowsQueue, UNCHANGED holds, excused \subseteq excused',
           \A i \in DOMAIN commands : /\ i \in DOMAIN commands' /\ commands'[i].of = commands[i].of
                                      /\ commands'[i].on = commands[i].on
                                      /\ commands'[i].runs \in Nat /\ commands[i].runs <= commands'[i].runs,
           \A i \in DOMAIN commands' : TookEffect(i)' => i \in DOMAIN commands /\ TookEffect(i)
    PROVE  TerminalFollowsQueue'
  <1> SUFFICES ASSUME NEW k \in Kinds, ~Pardoned(k)', NEW i \in DOMAIN commands', Of(i, k)', TookEffect(i)'
               PROVE  /\ commands'[i].runs > 0
                      /\ (\A j \in DOMAIN commands' : j > i /\ commands'[j].of = k => commands'[j].runs = 0)
                            => holds'[k] = commands'[i].on
    BY DEF TerminalFollowsQueue
  <1>0. i \in DOMAIN commands /\ TookEffect(i)
    OBVIOUS
  <1>1. ~Pardoned(k) /\ i \in DOMAIN commands /\ Of(i, k) /\ TookEffect(i)
    BY <1>0 DEF Pardoned, Of
  <1>2. \A j \in DOMAIN commands : commands[j].runs \in Nat
    <2>1. \A j \in DOMAIN commands : commands[j] \in Command
      BY DEF CardTypeOK
    <2> QED
      BY <2>1 DEF Command
  <1>3. commands[i].runs > 0 /\ ((\A j \in DOMAIN commands : j > i /\ commands[j].of = k => commands[j].runs = 0)
                                    => holds[k] = commands[i].on)
    BY <1>1 DEF TerminalFollowsQueue
  <1>4. commands'[i].runs > 0
    BY <1>1, <1>2, <1>3
  <1>5. ASSUME \A j \in DOMAIN commands' : j > i /\ commands'[j].of = k => commands'[j].runs = 0
        PROVE  \A j \in DOMAIN commands : j > i /\ commands[j].of = k => commands[j].runs = 0
    BY <1>2, <1>5
  <1> QED
    BY <1>1, <1>3, <1>4, <1>5

\* The terminal, when command i is carried out on it: no later command has run, or it is noted.
LEMMA TerminalCarriesOut ==
    ASSUME CardTypeOK, TerminalFollowsQueue, NEW i \in DOMAIN commands, CarriedOut(i),
           DOMAIN commands' = DOMAIN commands,
           commands'[i].runs = commands[i].runs + 1,
           commands'[i].of = commands[i].of, commands'[i].on = commands[i].on,
           \A j \in DOMAIN commands : j # i => commands'[j] = commands[j],
           \A j \in DOMAIN commands : j # i => (TookEffect(j)' => TookEffect(j))
    PROVE  /\ TerminalFollowsQueue' /\ excused \subseteq excused' /\ holds' \in [Kinds -> BOOLEAN]
           /\ \A k \in Kinds : holds'[k] = holds[k] \/ commands[i].of = k
  <1>1. /\ holds \in [Kinds -> BOOLEAN]
        /\ \A j \in DOMAIN commands : commands[j].runs \in Nat /\ commands[j].on \in BOOLEAN /\ j \in Nat
    <2>1. \A j \in DOMAIN commands : commands[j] \in Command /\ j \in Nat
      BY DEF CardTypeOK
    <2> QED
      BY <2>1 DEF CardTypeOK, Command
  <1>2. /\ \A k \in Kinds : holds'[k] = IF commands[i].of = k THEN commands[i].on ELSE holds[k]
        /\ holds' \in [Kinds -> BOOLEAN] /\ excused \subseteq excused'
    BY <1>1 DEF CarriedOut, CardEffect
  <1>3. TerminalFollowsQueue'
    <2> SUFFICES ASSUME NEW k \in Kinds, ~Pardoned(k)', NEW j \in DOMAIN commands, Of(j, k)', TookEffect(j)'
                 PROVE  /\ commands'[j].runs > 0
                        /\ (\A l \in DOMAIN commands' : l > j /\ commands'[l].of = k => commands'[l].runs = 0)
                              => holds'[k] = commands'[j].on
      BY DEF TerminalFollowsQueue
    <2>1. CASE j = i
      BY <1>1, <1>2, <2>1 DEF Of
    <2>2. CASE j # i
      <3>1. ~Pardoned(k) /\ Of(j, k) /\ TookEffect(j) /\ commands'[j] = commands[j]
        BY <1>2, <2>2 DEF Pardoned, Of
      <3>2. commands[j].runs > 0 /\ ((\A l \in DOMAIN commands : l > j /\ commands[l].of = k => commands[l].runs = 0)
                                        => holds[k] = commands[j].on)
        BY <3>1 DEF TerminalFollowsQueue
      <3>3. CASE commands[i].of # k
        BY <1>2, <2>2, <3>1, <3>2, <3>3
      <3>4. CASE commands[i].of = k /\ j < i
        <4>1. i > j /\ commands'[i].of = k /\ commands'[i].runs # 0
          BY <1>1, <3>4
        <4> QED
          BY <3>1, <3>2, <4>1
      <3>5. CASE commands[i].of = k /\ j > i
        <4>1. Overtaken(i)
          BY <3>1, <3>2, <3>5 DEF Overtaken, Of
        <4>2. <<"overtaken", k>> \in excused'
          BY <3>5, <4>1 DEF CarriedOut
        <4> QED
          BY <4>2 DEF Pardoned
      <3> QED
        BY <1>1, <2>2, <3>3, <3>4, <3>5
    <2> QED
      BY <2>1, <2>2
  <1> QED
    BY <1>2, <1>3

\* Deliveries, where no poll moves: a command is as it was, is handed out again, or is new.
LEMMA DeliveriesStay ==
    ASSUME DeliveredOnce, UNCHANGED polling,
           \A i \in DOMAIN commands' : \/ i \in DOMAIN commands /\ commands'[i] = commands[i]
                                       \/ commands'[i].again
                                       \/ FirstDelivery(i)'
    PROVE  DeliveredOnce'
  <1> SUFFICES ASSUME NEW i \in DOMAIN commands', ~commands'[i].again PROVE FirstDelivery(i)'
    BY DEF DeliveredOnce
  <1>1. CASE i \in DOMAIN commands /\ commands'[i] = commands[i]
    <2>1. FirstDelivery(i)
      BY <1>1 DEF DeliveredOnce
    <2> QED
      BY <1>1, <2>1 DEF FirstDelivery, Holds, Before, AtHand
  <1> QED
    BY <1>1

\* Effects, where no poll moves: only a command that is answered so now has one more.
LEMMA EffectsStay ==
    ASSUME UNCHANGED polling,
           \A i \in DOMAIN commands' : commands'[i].status = "applied" => TookEffect(i)
    PROVE  \A i \in DOMAIN commands' : TookEffect(i)' => TookEffect(i)
  BY DEF TookEffect, AtHand

\* A request moves and no command joins the queue.
LEMMA DesksMove ==
    ASSUME CardInv, UNCHANGED <<linked, holds, commands, polling, retrying>>, excused \subseteq excused',
           access' \in [AccessDesks -> Requests],
           credential' \in [Kinds -> {"none", "active", "suspended"}],
           \A k \in Kinds : /\ credential'[k] = credential[k] \/ Unqueued(k)'
                            /\ Unqueued(k) => Unqueued(k)' \/ Pardoned(k)'
    PROVE  CardInv'
  <1>1. CardTypeOK'
    BY DEF CardInv, CardTypeOK
  <1>2. DeliveredOnce'
    BY DeliveriesStay DEF CardInv
  <1>3. QueueFollowsPortal'
    BY QueueStays DEF CardInv
  <1>4. \A i \in DOMAIN commands : TookEffect(i)' => TookEffect(i)
    BY DEF TookEffect, AtHand
  <1>5. \A i \in DOMAIN commands : commands[i].runs \in Nat
    <2>1. \A j \in DOMAIN commands : commands[j] \in Command
      BY DEF CardInv, CardTypeOK
    <2> QED
      BY <2>1 DEF Command
  <1>6. TerminalFollowsQueue'
    BY <1>4, <1>5, TerminalStays DEF CardInv
  <1> QED
    BY <1>1, <1>2, <1>3, <1>6 DEF CardInv

LEMMA RemoteAccessKeeps == ASSUME CardInv, NEW d \in AccessDesks, NEW restore \in BOOLEAN, RemoteAccess(d, restore)
                           PROVE  CardInv'
  <1>t. access \in [AccessDesks -> Requests] /\ credential \in [Kinds -> {"none", "active", "suspended"}]
    BY DEF CardInv, CardTypeOK
  <1> DEFINE chosen == {k \in Kinds : credential[k] = IF restore THEN "suspended" ELSE "active"}
  <1>a. chosen \in (SUBSET Kinds) \ {{}}
    BY DEF RemoteAccess
  <1>b. access' = [access EXCEPT ![d] = [step |-> "write", restore |-> restore, chosen |-> chosen]]
    BY DEF RemoteAccess, Desk
  <1> HIDE DEF chosen
  <1>1. /\ UNCHANGED <<linked, credential, holds, commands, polling, retrying, excused>>
        /\ access[d] = NoDesk /\ access[d].step # "queue"
    BY DEF RemoteAccess, NoDesk
  <1>2. access' \in [AccessDesks -> Requests] /\ access'[d].step # "queue" /\ \A e \in AccessDesks \ {d} : access'[e] = access[e]
    BY <1>t, <1>a, <1>b DEF Requests
  <1>3. \A k \in Kinds : Unqueued(k) => Unqueued(k)'
    BY <1>1, <1>2 DEF Unqueued
  <1> QED
    BY <1>t, <1>1, <1>2, <1>3, DesksMove

LEMMA RemoteDoorKeeps == ASSUME CardInv, NEW d \in AccessDesks, NEW c \in DoorCommands, RemoteDoor(d, c)
                         PROVE  CardInv'
  <1>t. access \in [AccessDesks -> Requests] /\ credential \in [Kinds -> {"none", "active", "suspended"}]
    BY DEF CardInv, CardTypeOK
  <1>1. /\ UNCHANGED <<linked, credential, holds, commands, polling, retrying, excused>>
        /\ access[d] = NoDesk /\ access[d].step # "queue"
        /\ access' = [access EXCEPT ![d] = [step |-> "door", command |-> c]]
    BY DEF RemoteDoor, Desk, NoDesk
  <1>2. access' \in [AccessDesks -> Requests] /\ access'[d].step # "queue" /\ \A e \in AccessDesks \ {d} : access'[e] = access[e]
    BY <1>t, <1>1 DEF Requests
  <1>3. \A k \in Kinds : Unqueued(k) => Unqueued(k)'
    BY <1>1, <1>2 DEF Unqueued
  <1> QED
    BY <1>t, <1>1, <1>2, <1>3, DesksMove

LEMMA AccessWritesKeeps == ASSUME CardInv, NEW d \in AccessDesks, AccessWrites(d) PROVE CardInv'
  <1>t. /\ access \in [AccessDesks -> Requests] /\ access[d] \in Requests
        /\ credential \in [Kinds -> {"none", "active", "suspended"}]
    BY DEF CardInv, CardTypeOK
  <1>1. /\ UNCHANGED <<linked, holds, commands, polling, retrying, excused>>
        /\ access[d].step = "write"
        /\ credential' = [k \in Kinds |-> IF k \in access[d].chosen THEN To(d) ELSE credential[k]]
        /\ access' = [access EXCEPT ![d] = [access[d] EXCEPT !.step = "queue"]]
    BY DEF AccessWrites, Desk
  <1>2. /\ access[d] = [step |-> "write", restore |-> access[d].restore, chosen |-> access[d].chosen]
        /\ access[d].restore \in BOOLEAN /\ access[d].chosen \in (SUBSET Kinds) \ {{}}
    BY <1>t, <1>1 DEF Requests, NoDesk
  <1>3. access'[d] = [step |-> "queue", restore |-> access[d].restore, chosen |-> access[d].chosen]
    BY <1>t, <1>1, <1>2
  <1>4. access' \in [AccessDesks -> Requests] /\ \A e \in AccessDesks \ {d} : access'[e] = access[e]
    BY <1>t, <1>1, <1>2, <1>3 DEF Requests
  <1>5. credential' \in [Kinds -> {"none", "active", "suspended"}]
    BY <1>t, <1>1 DEF To
  <1>6. \A k \in Kinds : Unqueued(k) => Unqueued(k)'
    BY <1>1, <1>4 DEF Unqueued
  <1>7. \A k \in Kinds : credential'[k] = credential[k] \/ Unqueued(k)'
    BY <1>t, <1>1, <1>3 DEF Unqueued
  <1> QED
    BY <1>1, <1>4, <1>5, <1>6, <1>7, DesksMove

LEMMA AccessDiesKeeps == ASSUME CardInv, NEW d \in AccessDesks, AccessDies(d) PROVE CardInv'
  <1>t. access \in [AccessDesks -> Requests] /\ credential \in [Kinds -> {"none", "active", "suspended"}]
    BY DEF CardInv, CardTypeOK
  <1>1. /\ UNCHANGED <<linked, credential, holds, commands, polling, retrying>>
        /\ excused' = excused \cup {<<"unqueued", k>> : k \in access[d].chosen}
        /\ access' = [access EXCEPT ![d] = NoDesk]
    BY DEF AccessDies, Desk
  <1>2. access' \in [AccessDesks -> Requests] /\ \A e \in AccessDesks \ {d} : access'[e] = access[e]
    BY <1>t, <1>1 DEF Requests
  <1>3. \A k \in Kinds : Unqueued(k) => Unqueued(k)' \/ Pardoned(k)'
    BY <1>1, <1>2 DEF Unqueued, Pardoned
  <1> QED
    BY <1>t, <1>1, <1>2, <1>3, DesksMove
LEMMA AccessQueuesKeeps == ASSUME CardInv, NEW d \in AccessDesks, AccessQueues(d) PROVE CardInv'
  <1>t. /\ access \in [AccessDesks -> Requests] /\ access[d] \in Requests /\ access[d].step = "queue"
        /\ UNCHANGED <<linked, credential, holds, polling, retrying>> /\ excused \subseteq excused'
    BY DEF CardInv, CardTypeOK, AccessQueues
  <1>r. /\ access[d].restore \in BOOLEAN /\ access[d].chosen \in (SUBSET Kinds) \ {{}}
        /\ access[d] = [step |-> "queue", restore |-> access[d].restore, chosen |-> access[d].chosen]
    BY <1>t DEF Requests, NoDesk
  <1> DEFINE k == IF "card" \in access[d].chosen THEN "card" ELSE "finger"
             rest == access[d].chosen \ {k}
             c == NewCommand(k, access[d].restore,
                             IF k = "card" THEN "pending" ELSE "manual_action_required")
             n == Len(commands) + 1
  <1>1. k \in Kinds /\ k \in access[d].chosen /\ rest \in SUBSET Kinds
    BY <1>r DEF Kinds
  <1>2. /\ commands' = Append(commands, c)
        /\ excused' = IF credential[k] # To(d) THEN excused \cup {<<"crossed", k>>} ELSE excused
        /\ access' = [access EXCEPT ![d] = IF rest = {} THEN NoDesk ELSE [access[d] EXCEPT !.chosen = rest]]
    BY DEF AccessQueues, Desk, createDeviceOperations, createFingerprintOperations
  <1>3. /\ c \in Command /\ c.of = k /\ c.on = access[d].restore /\ c.runs = 0 /\ ~c.stale /\ ~c.again
        /\ c.status \in {"pending", "manual_action_required"}
    BY <1>r, <1>1 DEF NewCommand, Command, CommandStates
  <1> HIDE DEF k, rest, c
  <1>4. /\ commands' \in Seq(Command) /\ DOMAIN commands' = DOMAIN commands \cup {n}
        /\ n \notin DOMAIN commands /\ \A j \in DOMAIN commands : j < n
        /\ commands'[n] = c /\ \A j \in DOMAIN commands : commands'[j] = commands[j]
    BY <1>2, <1>3, QueuesOne DEF CardInv
  <1>5. access' \in [AccessDesks -> Requests]
    <2>1. CASE rest = {}
      BY <1>t, <1>2, <2>1 DEF Requests
    <2>2. CASE rest # {}
      <3>1. [access[d] EXCEPT !.chosen = rest] = [step |-> "queue", restore |-> access[d].restore, chosen |-> rest]
        BY <1>r
      <3> QED
        BY <1>t, <1>r, <1>1, <1>2, <2>2, <3>1 DEF Requests
    <2> QED
      BY <2>1, <2>2
  <1>6. \A l \in Kinds : l # k /\ Unqueued(l) => Unqueued(l)'
    <2> SUFFICES ASSUME NEW l \in Kinds, l # k, NEW e \in AccessDesks, access[e].step = "queue", l \in access[e].chosen
                 PROVE  access'[e].step = "queue" /\ l \in access'[e].chosen
      BY DEF Unqueued
    <2>1. CASE e # d
      BY <1>t, <1>2, <2>1
    <2>2. CASE e = d
      <3>1. rest # {} /\ l \in rest
        BY <2>2 DEF rest
      <3> QED
        BY <1>t, <1>r, <1>2, <2>2, <3>1
    <2> QED
      BY <2>1, <2>2
  <1>7. CardTypeOK'
    BY <1>t, <1>4, <1>5 DEF CardInv, CardTypeOK
  <1>8. \A p \in CardPolls : n \notin polling[p].rows
    BY <1>4 DEF CardInv, CardTypeOK
  <1>9. DeliveredOnce'
    <2>1. ASSUME NEW i \in DOMAIN commands', i = n PROVE FirstDelivery(i)'
      BY <1>t, <1>3, <1>4, <1>8, <2>1 DEF FirstDelivery, Holds, Before
    <2> QED
      BY <1>t, <1>4, <2>1, DeliveriesStay DEF CardInv
  <1>10. QueueFollowsPortal'
    <2> SUFFICES ASSUME NEW l \in Kinds, ~Pardoned(l)', ~Unqueued(l)'
                 PROVE  /\ (\A i \in DOMAIN commands' : commands'[i].of # l)
                               => holds[l] = (credential[l] = "active")
                        /\ \A i \in DOMAIN commands' : LastOf(i, l)' => commands'[i].on = (credential[l] = "active")
      BY <1>t DEF QueueFollowsPortal
    <2>1. CASE l = k
      <3>1. credential[k] = To(d)
        BY <1>2, <2>1 DEF Pardoned
      <3>2. \A i \in DOMAIN commands' : LastOf(i, l)' => i = n
        <4>1. commands'[n].of = l /\ n \in Nat /\ \A i \in DOMAIN commands' : i \in Nat
          BY <1>3, <1>4, <2>1 DEF CardInv, CardTypeOK
        <4> QED
          BY <1>4, <4>1 DEF LastOf
      <3> QED
        BY <1>r, <1>3, <1>4, <2>1, <3>1, <3>2 DEF To
    <2>2. CASE l # k
      <3>1. ~Pardoned(l) /\ ~Unqueued(l)
        BY <1>t, <1>6, <2>2 DEF Pardoned
      <3>2. commands'[n].of # l
        BY <1>3, <1>4, <2>2
      <3>3. \A i \in DOMAIN commands' : LastOf(i, l)' => LastOf(i, l)
        BY <1>4, <3>2 DEF LastOf, Of
      <3>4. /\ (\A i \in DOMAIN commands : commands[i].of # l) => holds[l] = (credential[l] = "active")
            /\ \A i \in DOMAIN commands : LastOf(i, l) => commands[i].on = (credential[l] = "active")
        BY <3>1 DEF QueueFollowsPortal, CardInv
      <3>5. \A i \in DOMAIN commands' : LastOf(i, l)' => i \in DOMAIN commands /\ commands'[i] = commands[i]
        BY <1>4, <3>2 DEF LastOf, Of
      <3> QED
        BY <1>4, <3>3, <3>4, <3>5
    <2> QED
      BY <2>1, <2>2
  <1>11. \A i \in DOMAIN commands' : TookEffect(i)' => i \in DOMAIN commands /\ TookEffect(i)
    <2> SUFFICES ASSUME NEW i \in DOMAIN commands', TookEffect(i)' PROVE i \in DOMAIN commands /\ TookEffect(i)
      OBVIOUS
    <2>1. i \in DOMAIN commands
      <3>1. ASSUME i = n PROVE FALSE
        <4>1. \A p \in CardPolls : polling[p].step = "report" => AtHand(p) # n
          BY <1>8, AtHandIsHeld DEF CardInv
        <4> QED
          BY <1>t, <1>3, <1>4, <3>1, <4>1 DEF TookEffect, AtHand
      <3> QED
        BY <1>4, <3>1
    <2> QED
      BY <1>t, <1>4, <2>1 DEF TookEffect, AtHand
  <1>12. \A j \in DOMAIN commands : commands[j].runs \in Nat
    <2>1. \A j \in DOMAIN commands : commands[j] \in Command
      BY DEF CardInv, CardTypeOK
    <2> QED
      BY <2>1 DEF Command
  <1>13. TerminalFollowsQueue'
    BY <1>t, <1>4, <1>11, <1>12, TerminalStays DEF CardInv
  <1> QED
    BY <1>7, <1>9, <1>10, <1>13 DEF CardInv

LEMMA DoorQueuesKeeps == ASSUME CardInv, NEW d \in AccessDesks, DoorQueues(d) PROVE CardInv'
  <1>t. /\ access \in [AccessDesks -> Requests] /\ access[d] \in Requests /\ access[d].step = "door"
        /\ UNCHANGED <<linked, credential, holds, polling, retrying, excused>>
    BY DEF CardInv, CardTypeOK, DoorQueues
  <1>r. access[d].command \in DoorCommands
    BY <1>t DEF Requests, NoDesk
  <1> DEFINE c == NewCommand(access[d].command, TRUE, IF linked THEN "pending" ELSE "manual_action_required")
             n == Len(commands) + 1
  <1>2. commands' = Append(commands, c) /\ access' = [access EXCEPT ![d] = NoDesk]
    BY DEF DoorQueues, Desk
  <1>3. /\ c \in Command /\ c.of \notin Kinds /\ c.runs = 0 /\ ~c.stale /\ ~c.again
        /\ c.status \in {"pending", "manual_action_required"}
    BY <1>r DEF NewCommand, Command, CommandStates, DoorCommands, Kinds
  <1> HIDE DEF c
  <1>4. /\ commands' \in Seq(Command) /\ DOMAIN commands' = DOMAIN commands \cup {n}
        /\ n \notin DOMAIN commands /\ \A j \in DOMAIN commands : j < n
        /\ commands'[n] = c /\ \A j \in DOMAIN commands : commands'[j] = commands[j]
    BY <1>2, <1>3, QueuesOne DEF CardInv
  <1>5. access' \in [AccessDesks -> Requests]
    BY <1>t, <1>2 DEF Requests
  <1>6. \A l \in Kinds : Unqueued(l) => Unqueued(l)'
    BY <1>t, <1>2 DEF Unqueued
  <1>7. CardTypeOK'
    BY <1>t, <1>4, <1>5 DEF CardInv, CardTypeOK
  <1>8. \A p \in CardPolls : n \notin polling[p].rows
    BY <1>4 DEF CardInv, CardTypeOK
  <1>9. DeliveredOnce'
    <2>1. ASSUME NEW i \in DOMAIN commands', i = n PROVE FirstDelivery(i)'
      BY <1>t, <1>3, <1>4, <1>8, <2>1 DEF FirstDelivery, Holds, Before
    <2> QED
      BY <1>t, <1>4, <2>1, DeliveriesStay DEF CardInv
  <1>10. QueueFollowsPortal'
    <2> SUFFICES ASSUME NEW l \in Kinds, ~Pardoned(l)', ~Unqueued(l)'
                 PROVE  /\ (\A i \in DOMAIN commands' : commands'[i].of # l)
                               => holds[l] = (credential[l] = "active")
                        /\ \A i \in DOMAIN commands' : LastOf(i, l)' => commands'[i].on = (credential[l] = "active")
      BY <1>t DEF QueueFollowsPortal
    <2>1. ~Pardoned(l) /\ ~Unqueued(l)
      BY <1>t, <1>6 DEF Pardoned
    <2>2. commands'[n].of # l
      BY <1>3, <1>4
    <2>3. \A i \in DOMAIN commands' : LastOf(i, l)' => LastOf(i, l)
      BY <1>4, <2>2 DEF LastOf, Of
    <2>4. /\ (\A i \in DOMAIN commands : commands[i].of # l) => holds[l] = (credential[l] = "active")
          /\ \A i \in DOMAIN commands : LastOf(i, l) => commands[i].on = (credential[l] = "active")
      BY <2>1 DEF QueueFollowsPortal, CardInv
    <2>5. \A i \in DOMAIN commands' : LastOf(i, l)' => i \in DOMAIN commands /\ commands'[i] = commands[i]
      BY <1>4, <2>2 DEF LastOf, Of
    <2> QED
      BY <1>4, <2>3, <2>4, <2>5
  <1>11. \A i \in DOMAIN commands' : TookEffect(i)' => i \in DOMAIN commands /\ TookEffect(i)
    <2> SUFFICES ASSUME NEW i \in DOMAIN commands', TookEffect(i)' PROVE i \in DOMAIN commands /\ TookEffect(i)
      OBVIOUS
    <2>1. i \in DOMAIN commands
      <3>1. ASSUME i = n PROVE FALSE
        <4>1. \A p \in CardPolls : polling[p].step = "report" => AtHand(p) # n
          BY <1>8, AtHandIsHeld DEF CardInv
        <4> QED
          BY <1>t, <1>3, <1>4, <3>1, <4>1 DEF TookEffect, AtHand
      <3> QED
        BY <1>4, <3>1
    <2> QED
      BY <1>t, <1>4, <2>1 DEF TookEffect, AtHand
  <1>12. \A j \in DOMAIN commands : commands[j].runs \in Nat
    <2>1. \A j \in DOMAIN commands : commands[j] \in Command
      BY DEF CardInv, CardTypeOK
    <2> QED
      BY <2>1 DEF Command
  <1>13. TerminalFollowsQueue'
    BY <1>t, <1>4, <1>11, <1>12, TerminalStays DEF CardInv
  <1> QED
    BY <1>7, <1>9, <1>10, <1>13 DEF CardInv

\* A command changes its state and neither what it asks for nor the terminal.
LEMMA CommandMoves ==
    ASSUME CardInv, UNCHANGED <<linked, credential, holds, access, polling, excused>>,
           retrying' \in {0} \cup DOMAIN commands,
           NEW i \in DOMAIN commands, NEW c \in Command, commands' = [commands EXCEPT ![i] = c],
           c.of = commands[i].of, c.on = commands[i].on, c.runs = commands[i].runs,
           c.again \/ FirstDelivery(i)',
           c.status = "applied" => TookEffect(i)
    PROVE  CardInv'
  <1>1. /\ commands' \in Seq(Command) /\ DOMAIN commands' = DOMAIN commands
        /\ commands'[i] = c /\ \A j \in DOMAIN commands : j # i => commands'[j] = commands[j]
    BY ChangesOne DEF CardInv
  <1>2. CardTypeOK'
    BY <1>1 DEF CardInv, CardTypeOK
  <1>3. DeliveredOnce'
    BY <1>1, DeliveriesStay DEF CardInv
  <1>4. QueueFollowsPortal'
    <2>1. \A k \in Kinds : Unqueued(k) => Unqueued(k)'
      BY DEF Unqueued
    <2> QED
      BY <1>1, <2>1, QueueStays DEF CardInv
  <1>5. \A j \in DOMAIN commands' : TookEffect(j)' => j \in DOMAIN commands /\ TookEffect(j)
    BY <1>1 DEF TookEffect, AtHand
  <1>6. \A j \in DOMAIN commands : commands[j].runs \in Nat
    <2>1. \A j \in DOMAIN commands : commands[j] \in Command
      BY DEF CardInv, CardTypeOK
    <2> QED
      BY <2>1 DEF Command
  <1>7. TerminalFollowsQueue'
    BY <1>1, <1>5, <1>6, TerminalStays DEF CardInv
  <1> QED
    BY <1>2, <1>3, <1>4, <1>7 DEF CardInv

\* What a command is, field by field.
LEMMA CommandFields ==
    ASSUME CardTypeOK, NEW i \in DOMAIN commands
    PROVE  /\ commands[i] \in Command /\ i \in Nat /\ i # 0
           /\ commands[i] = [of |-> commands[i].of, on |-> commands[i].on, status |-> commands[i].status,
                             stale |-> commands[i].stale, runs |-> commands[i].runs, again |-> commands[i].again]
  <1>1. commands[i] \in Command /\ i \in Nat /\ i # 0
    BY DEF CardTypeOK
  <1> QED
    BY <1>1 DEF Command

LEMMA ClaimAgesKeeps == ASSUME CardInv, NEW i \in DOMAIN commands, ClaimAges(i) PROVE CardInv'
  <1> DEFINE c == [commands[i] EXCEPT !.stale = TRUE, !.again = TRUE]
  <1>1. commands' = [commands EXCEPT ![i] = c] /\ UNCHANGED <<linked, credential, holds, access, polling, retrying, excused>>
    BY DEF ClaimAges
  <1>2. c \in Command /\ c.of = commands[i].of /\ c.on = commands[i].on /\ c.runs = commands[i].runs /\ c.again
    BY CommandFields DEF CardInv, Command
  <1>3. c.status = "applied" => TookEffect(i)
    BY CommandFields DEF CardInv, TookEffect, Command
  <1>4. retrying' \in {0} \cup DOMAIN commands
    BY <1>1 DEF CardInv, CardTypeOK
  <1> QED
    BY <1>1, <1>2, <1>3, <1>4, CommandMoves

LEMMA CommandRetryWritesKeeps == ASSUME CardInv, CommandRetryWrites PROVE CardInv'
  <1>0. retrying \in DOMAIN commands
    BY DEF CommandRetryWrites, CardInv, CardTypeOK
  <1> DEFINE status == IF commands[retrying].of # "finger" /\ linked THEN "pending" ELSE "manual_action_required"
             c == [commands[retrying] EXCEPT !.status = status, !.stale = FALSE, !.again = TRUE]
  <1>1. /\ commands' = [commands EXCEPT ![retrying] = c] /\ retrying' = 0
        /\ UNCHANGED <<linked, credential, holds, access, polling, excused>>
    BY DEF CommandRetryWrites
  <1>2. /\ c \in Command /\ c.of = commands[retrying].of /\ c.on = commands[retrying].on
        /\ c.runs = commands[retrying].runs /\ c.again /\ c.status # "applied"
    BY <1>0, CommandFields DEF CardInv, Command, CommandStates
  <1> QED
    BY <1>0, <1>1, <1>2, CommandMoves

LEMMA CommandRetryReadsKeeps == ASSUME CardInv, NEW i \in DOMAIN commands, CommandRetryReads(i) PROVE CardInv'
  <1>1. retrying' = i /\ UNCHANGED <<linked, credential, holds, commands, access, polling, excused>>
    BY DEF CommandRetryReads
  <1>2. commands[i] \in Command /\ commands' = [commands EXCEPT ![i] = commands[i]]
    BY <1>1, CommandFields DEF CardInv, CardTypeOK
  <1>3. commands[i].again \/ FirstDelivery(i)'
    BY <1>1 DEF CardInv, DeliveredOnce, FirstDelivery, Holds, Before, AtHand
  <1>4. commands[i].status = "applied" => TookEffect(i)
    BY DEF TookEffect
  <1> QED
    BY <1>1, <1>2, <1>3, <1>4, CommandMoves

LEMMA MarkCommandKeeps == ASSUME CardInv, NEW i \in DOMAIN commands, NEW r \in {"applied", "failed"}, MarkCommand(i, r)
                          PROVE  CardInv'
  <1>1. CASE r = "failed"
    <2> DEFINE c == [commands[i] EXCEPT !.status = "failed", !.stale = FALSE]
    <2>1. commands' = [commands EXCEPT ![i] = c] /\ UNCHANGED <<linked, credential, holds, access, polling, retrying, excused>>
      BY <1>1 DEF MarkCommand, StatusOf
    <2>2. /\ c \in Command /\ c.of = commands[i].of /\ c.on = commands[i].on /\ c.runs = commands[i].runs
          /\ c.again = commands[i].again /\ c.status = "failed"
      BY CommandFields DEF CardInv, Command, CommandStates
    <2> HIDE DEF c
    <2>3. commands'[i] = c
      BY <2>1, <2>2, ChangesOne DEF CardInv
    <2>4. c.again \/ FirstDelivery(i)'
      <3> SUFFICES ASSUME ~commands[i].again PROVE FirstDelivery(i)'
        BY <2>2
      <3>1. FirstDelivery(i)
        BY DEF CardInv, DeliveredOnce
      <3> QED
        BY <2>1, <2>2, <2>3, <3>1 DEF FirstDelivery, Holds, Before, AtHand
    <2>5. retrying' \in {0} \cup DOMAIN commands
      BY <2>1 DEF CardInv, CardTypeOK
    <2> QED
      BY <2>1, <2>2, <2>4, <2>5, CommandMoves
  <1>2. CASE r = "applied"
    <2> DEFINE c == [commands[i] EXCEPT !.status = "applied", !.stale = FALSE, !.runs = @ + 1, !.again = TRUE]
    <2>1. /\ commands' = [commands EXCEPT ![i] = c] /\ CarriedOut(i)
          /\ UNCHANGED <<linked, credential, access, polling, retrying>>
      BY <1>2 DEF MarkCommand
    <2>2. c \in Command /\ c.of = commands[i].of /\ c.on = commands[i].on /\ c.runs = commands[i].runs + 1 /\ c.again
      <3>1. commands[i] \in Command /\ commands[i].runs + 1 \in Nat
        BY CommandFields DEF CardInv, Command
      <3>2. c = [commands[i] EXCEPT !.status = "applied", !.stale = FALSE, !.runs = commands[i].runs + 1, !.again = TRUE]
        BY <3>1 DEF Command
      <3> QED
        BY <3>1, <3>2 DEF Command, CommandStates
    <2> HIDE DEF c
    <2>3. /\ commands' \in Seq(Command) /\ DOMAIN commands' = DOMAIN commands
          /\ commands'[i] = c /\ \A j \in DOMAIN commands : j # i => commands'[j] = commands[j]
      BY <2>1, <2>2, ChangesOne DEF CardInv
    <2>4. \A j \in DOMAIN commands : j # i => (TookEffect(j)' => TookEffect(j))
      BY <2>1, <2>3 DEF TookEffect, AtHand
    <2>5. /\ TerminalFollowsQueue' /\ excused \subseteq excused' /\ holds' \in [Kinds -> BOOLEAN]
          /\ \A k \in Kinds : holds'[k] = holds[k] \/ commands[i].of = k
      BY <2>1, <2>2, <2>3, <2>4, TerminalCarriesOut DEF CardInv
    <2>6. CardTypeOK'
      BY <2>1, <2>3, <2>5 DEF CardInv, CardTypeOK
    <2>7. DeliveredOnce'
      BY <2>1, <2>2, <2>3, DeliveriesStay DEF CardInv
    <2>8. QueueFollowsPortal'
      <3>1. \A k \in Kinds : Unqueued(k) => Unqueued(k)'
        BY <2>1 DEF Unqueued
      <3> QED
        BY <2>1, <2>2, <2>3, <2>5, <3>1, QueueStays DEF CardInv
    <2> QED
      BY <2>5, <2>6, <2>7, <2>8 DEF CardInv
  <1> QED
    BY <1>1, <1>2

\* A poll moves, and with it at most the states of commands; nothing reaches the terminal.
LEMMA PollMoves ==
    ASSUME CardInv, UNCHANGED <<linked, credential, holds, access, retrying, excused>>,
           polling' \in [CardPolls -> Batches],
           \A q \in CardPolls : polling'[q].rows \subseteq DOMAIN commands,
           commands' \in Seq(Command), DOMAIN commands' = DOMAIN commands,
           \A i \in DOMAIN commands : /\ commands'[i].of = commands[i].of /\ commands'[i].on = commands[i].on
                                      /\ commands'[i].runs = commands[i].runs,
           \A i \in DOMAIN commands : TookEffect(i)' => TookEffect(i),
           DeliveredOnce'
    PROVE  CardInv'
  <1>1. CardTypeOK'
    BY DEF CardInv, CardTypeOK
  <1>2. QueueFollowsPortal'
    <2>1. \A k \in Kinds : Unqueued(k) => Unqueued(k)'
      BY DEF Unqueued
    <2> QED
      BY <2>1, QueueStays DEF CardInv
  <1>3. \A j \in DOMAIN commands : commands[j].runs \in Nat
    <2>1. \A j \in DOMAIN commands : commands[j] \in Command
      BY DEF CardInv, CardTypeOK
    <2> QED
      BY <2>1 DEF Command
  <1>4. TerminalFollowsQueue'
    BY <1>3, TerminalStays DEF CardInv
  <1> QED
    BY <1>1, <1>2, <1>4 DEF CardInv

\* A poll goes on with a part of the queue, or ends.
LEMMA GoesOnWithRows ==
    ASSUME CardTypeOK, NEW p \in CardPolls, NEW rest \in SUBSET DOMAIN commands, GoesOn(p, rest)
    PROVE  /\ polling' \in [CardPolls -> Batches]
           /\ \A q \in CardPolls : polling'[q].rows \subseteq DOMAIN commands
           /\ polling'[p].step \in {"idle", "apply"} /\ polling'[p].rows = rest
           /\ \A q \in CardPolls \ {p} : polling'[q] = polling[q]
  <1>1. polling \in [CardPolls -> Batches] /\ rest \in SUBSET Nat
    BY DEF CardTypeOK
  <1>2. polling' = [polling EXCEPT ![p] = IF rest = {} THEN NoPolling
                       ELSE [NoPolling EXCEPT !.step = "apply", !.rows = rest]]
    BY DEF GoesOn
  <1>3. [NoPolling EXCEPT !.step = "apply", !.rows = rest] \in [step : {"apply"}, rows : {rest}, ok : {FALSE}]
    <2>1. NoPolling \in [step : {"idle"}, rows : SUBSET Nat, ok : {FALSE}]
      BY DEF NoPolling
    <2> QED
      BY <1>1, <2>1
  <1>4. polling' \in [CardPolls -> Batches]
    <2>1. rest # {} => [NoPolling EXCEPT !.step = "apply", !.rows = rest] \in Batches
      BY <1>1, <1>3 DEF Batches
    <2> QED
      BY <1>1, <1>2, <2>1 DEF Batches
  <1>5. polling'[p].step \in {"idle", "apply"} /\ polling'[p].rows = rest
    BY <1>1, <1>2, <1>3 DEF NoPolling
  <1>6. \A q \in CardPolls \ {p} : polling'[q] = polling[q]
    BY <1>1, <1>2
  <1> QED
    BY <1>4, <1>5, <1>6 DEF CardTypeOK

LEMMA PollReadsKeeps == ASSUME CardInv, NEW p \in CardPolls, PollReads(p) PROVE CardInv'
  <1>t. polling \in [CardPolls -> Batches] /\ commands \in Seq(Command)
    BY DEF CardInv, CardTypeOK
  <1>1. /\ WaitingCommands \in SUBSET DOMAIN commands /\ WaitingCommands # {}
        /\ WaitingCommands \in (SUBSET Nat) \ {{}}
    BY <1>t DEF PollReads, WaitingCommands
  <1> DEFINE batch == [NoPolling EXCEPT !.step = "claim", !.rows = WaitingCommands]
  <1>2. /\ polling' = [polling EXCEPT ![p] = batch]
        /\ UNCHANGED <<linked, credential, holds, commands, access, retrying, excused>>
    BY DEF PollReads
  <1>b. batch \in [step : {"claim"}, rows : {WaitingCommands}, ok : {FALSE}]
    <2>1. NoPolling \in [step : {"idle"}, rows : SUBSET Nat, ok : {FALSE}]
      BY DEF NoPolling
    <2> QED
      BY <1>1, <2>1
  <1> HIDE DEF batch
  <1>3. /\ polling' \in [CardPolls -> Batches] /\ polling'[p].step = "claim"
        /\ \A q \in CardPolls : polling'[q].rows \subseteq DOMAIN commands
        /\ \A q \in CardPolls \ {p} : polling'[q] = polling[q]
    <2>1. batch \in Batches /\ batch.step = "claim" /\ batch.rows = WaitingCommands
      BY <1>1, <1>b DEF Batches
    <2> QED
      BY <1>t, <1>1, <1>2, <2>1 DEF CardInv, CardTypeOK
  <1>4. \A i \in DOMAIN commands : TookEffect(i)' => TookEffect(i)
    BY <1>2, <1>3 DEF TookEffect, AtHand
  <1>5. DeliveredOnce'
    <2>1. \A q \in CardPolls, i \in DOMAIN commands : (Holds(q, i)' => Holds(q, i)) /\ (Before(q, i)' => Before(q, i))
      BY <1>3 DEF Holds, Before, AtHand
    <2> QED
      BY <1>2, <2>1 DEF CardInv, DeliveredOnce, FirstDelivery
  <1> QED
    BY <1>t, <1>2, <1>3, <1>4, <1>5, PollMoves

LEMMA PollClaimsKeeps == ASSUME CardInv, NEW p \in CardPolls, PollClaims(p) PROVE CardInv'
  <1>t. commands \in Seq(Command) /\ Claimed(p) \in SUBSET DOMAIN commands
    BY DEF CardInv, CardTypeOK, Claimed
  <1>1. /\ commands' = [i \in DOMAIN commands |->
              IF i \in Claimed(p) THEN [commands[i] EXCEPT !.status = "sent", !.stale = FALSE] ELSE commands[i]]
        /\ UNCHANGED <<linked, credential, holds, access, retrying, excused>> /\ GoesOn(p, Claimed(p))
        /\ polling[p].step = "claim"
    BY DEF PollClaims
  <1>2. /\ polling' \in [CardPolls -> Batches] /\ \A q \in CardPolls : polling'[q].rows \subseteq DOMAIN commands
        /\ polling'[p].step \in {"idle", "apply"} /\ polling'[p].rows = Claimed(p)
        /\ \A q \in CardPolls \ {p} : polling'[q] = polling[q]
    BY <1>t, <1>1, GoesOnWithRows DEF CardInv
  <1>3. \A i \in Claimed(p) : /\ commands'[i] \in Command /\ commands'[i].status = "sent" /\ ~commands'[i].stale
                              /\ commands'[i].of = commands[i].of /\ commands'[i].on = commands[i].on
                               /\ commands'[i].runs = commands[i].runs /\ commands'[i].again = commands[i].again
    <2> SUFFICES ASSUME NEW i \in Claimed(p)
                 PROVE  /\ commands'[i] \in Command /\ commands'[i].status = "sent" /\ ~commands'[i].stale
                        /\ commands'[i].of = commands[i].of /\ commands'[i].on = commands[i].on
                        /\ commands'[i].runs = commands[i].runs /\ commands'[i].again = commands[i].again
      OBVIOUS
    <2>1. commands'[i] = [commands[i] EXCEPT !.status = "sent", !.stale = FALSE]
      BY <1>t, <1>1
    <2> QED
      BY <1>t, <2>1, CommandFields DEF CardInv, Command, CommandStates
  <1>4. \A i \in DOMAIN commands \ Claimed(p) : commands'[i] = commands[i]
    BY <1>1
  <1>5. commands' \in Seq(Command) /\ DOMAIN commands' = DOMAIN commands
    <2>1. /\ DOMAIN commands = 1..Len(commands) /\ Len(commands) \in Nat
          /\ \A i \in DOMAIN commands : commands[i] \in Command
      BY <1>t
    <2>2. commands' \in [1..Len(commands) -> Command]
      BY <1>1, <1>3, <1>4, <2>1
    <2> QED
      BY <2>1, <2>2
  <1>6. \A i \in DOMAIN commands : TookEffect(i)' => TookEffect(i)
    BY <1>2, <1>3, <1>4 DEF TookEffect, AtHand
  <1>7. DeliveredOnce'
    <2> SUFFICES ASSUME NEW i \in DOMAIN commands, ~commands'[i].again PROVE FirstDelivery(i)'
      BY <1>5 DEF DeliveredOnce
    <2>1. FirstDelivery(i)
      BY <1>3, <1>4 DEF CardInv, DeliveredOnce
    <2>2. \A q \in CardPolls \ {p} : (Holds(q, i)' <=> Holds(q, i)) /\ (Before(q, i)' <=> Before(q, i))
      BY <1>2 DEF Holds, Before, AtHand
    <2>3. CASE i \in Claimed(p)
      <3>1. commands[i].status = "pending" /\ commands[i].runs = 0 /\ \A q \in CardPolls : ~Holds(q, i)
        BY <2>1, <2>3 DEF Claimed, ClaimableCommand, FirstDelivery
      <3> QED
        BY <1>3, <2>2, <2>3, <3>1 DEF FirstDelivery
    <2>4. CASE i \notin Claimed(p)
      <3>1. ~Holds(p, i)' /\ ~Before(p, i)'
        BY <1>2, <2>4 DEF Holds, Before
      <3> QED
        BY <1>4, <2>1, <2>2, <2>4, <3>1 DEF FirstDelivery
    <2> QED
      BY <2>3, <2>4
  <1> QED
    BY <1>1, <1>2, <1>3, <1>4, <1>5, <1>6, <1>7, PollMoves

LEMMA ApplyCommandKeeps ==
    ASSUME CardInv, NEW p \in CardPolls, NEW ok \in BOOLEAN, NEW done \in BOOLEAN, ApplyCommand(p, ok, done)
    PROVE  CardInv'
  <1> DEFINE i == AtHand(p)
             c == [commands[i] EXCEPT !.runs = @ + 1]
  <1>t. /\ polling \in [CardPolls -> Batches] /\ polling[p].step = "apply" /\ i \in polling[p].rows
        /\ polling[p] \in [step : {"claim", "apply", "report"}, rows : (SUBSET Nat) \ {{}}, ok : BOOLEAN]
        /\ i \in DOMAIN commands
    BY AtHandIsHeld DEF ApplyCommand, CardInv, CardTypeOK
  <1>1. /\ commands' = [commands EXCEPT ![i] = c] /\ UNCHANGED <<linked, credential, access, retrying>>
        /\ polling' = [polling EXCEPT ![p].step = "report", ![p].ok = ok]
        /\ IF done THEN CarriedOut(i) ELSE UNCHANGED <<holds, excused>>
        /\ ok => done
    BY DEF ApplyCommand
  <1>2. /\ c \in Command /\ c.of = commands[i].of /\ c.on = commands[i].on /\ c.runs = commands[i].runs + 1
        /\ c.again = commands[i].again /\ c.status = commands[i].status /\ c.stale = commands[i].stale
        /\ commands[i].runs \in Nat
    BY <1>t, CommandFields DEF CardInv, Command
  <1>3. /\ polling'[p] = [step |-> "report", rows |-> polling[p].rows, ok |-> ok]
        /\ \A q \in CardPolls \ {p} : polling'[q] = polling[q]
    BY <1>t, <1>1
  <1>4. /\ polling' \in [CardPolls -> Batches] /\ AtHand(p)' = i
        /\ \A q \in CardPolls : polling'[q].rows = polling[q].rows
    BY <1>t, <1>1, <1>3 DEF Batches, AtHand
  <1> HIDE DEF i, c
  <1>5. /\ commands' \in Seq(Command) /\ DOMAIN commands' = DOMAIN commands
        /\ commands'[i] = c /\ \A j \in DOMAIN commands : j # i => commands'[j] = commands[j]
    BY <1>t, <1>1, <1>2, ChangesOne DEF CardInv
  <1>6. \A j \in DOMAIN commands : j # i \/ ~done => (TookEffect(j)' => TookEffect(j))
    <2> SUFFICES ASSUME NEW j \in DOMAIN commands, j # i \/ ~done, TookEffect(j)' PROVE TookEffect(j)
      OBVIOUS
    <2>1. CASE commands'[j].status = "applied"
      BY <1>2, <1>5, <2>1 DEF TookEffect
    <2>2. ASSUME NEW q \in CardPolls, polling'[q].step = "report", AtHand(q)' = j, polling'[q].ok PROVE TookEffect(j)
      <3>1. q # p
        BY <1>1, <1>3, <1>4, <2>2
      <3> QED
        BY <1>3, <2>2, <3>1 DEF TookEffect, AtHand
    <2> QED
      BY <2>1, <2>2 DEF TookEffect
  <1>7. /\ TerminalFollowsQueue' /\ excused \subseteq excused' /\ holds' \in [Kinds -> BOOLEAN]
        /\ \A k \in Kinds : holds'[k] = holds[k] \/ commands[i].of = k
    <2>1. CASE done
      BY <1>t, <1>1, <1>2, <1>5, <1>6, <2>1, TerminalCarriesOut DEF CardInv
    <2>2. CASE ~done
      <3>1. UNCHANGED <<holds, excused>> /\ \A j \in DOMAIN commands : TookEffect(j)' => TookEffect(j)
        BY <1>1, <1>6, <2>2
      <3>2. \A j \in DOMAIN commands : /\ commands'[j].of = commands[j].of /\ commands'[j].on = commands[j].on
                                       /\ commands'[j].runs \in Nat /\ commands[j].runs <= commands'[j].runs
        <4>1. \A j \in DOMAIN commands : commands[j].runs \in Nat
          BY CommandFields DEF CardInv, Command
        <4> QED
          BY <1>2, <1>5, <4>1
      <3>3. TerminalFollowsQueue'
        BY <1>5, <3>1, <3>2, TerminalStays DEF CardInv
      <3> QED
        BY <3>1, <3>3 DEF CardInv, CardTypeOK
    <2> QED
      BY <2>1, <2>2
  <1>8. CardTypeOK'
    BY <1>1, <1>4, <1>5, <1>7 DEF CardInv, CardTypeOK
  <1>9. QueueFollowsPortal'
    <2>1. \A k \in Kinds : Unqueued(k) => Unqueued(k)'
      BY <1>1 DEF Unqueued
    <2> QED
      BY <1>t, <1>1, <1>2, <1>5, <1>7, <2>1, QueueStays DEF CardInv
  <1>10. DeliveredOnce'
    <2> SUFFICES ASSUME NEW j \in DOMAIN commands, ~commands'[j].again PROVE FirstDelivery(j)'
      BY <1>5 DEF DeliveredOnce
    <2>1. FirstDelivery(j)
      BY <1>2, <1>5 DEF CardInv, DeliveredOnce
    <2>2. \A q \in CardPolls : Holds(q, j)' <=> Holds(q, j)
      BY <1>t, <1>3, <1>4 DEF Holds
    <2>3. \A q \in CardPolls : Before(q, j)' => Before(q, j) /\ (q = p => j # i)
      BY <1>t, <1>3, <1>4, <2>2 DEF Before, AtHand
    <2>4. CASE j # i
      BY <1>5, <2>1, <2>2, <2>3, <2>4 DEF FirstDelivery
    <2>5. CASE j = i
      <3>1. Holds(p, i) /\ Before(p, i)
        BY <1>t DEF Holds, Before
      <3>2. commands[i].runs = 0 /\ commands[i].status # "pending" /\ \A q \in CardPolls : Holds(q, i) => q = p
        BY <2>1, <2>5, <3>1 DEF FirstDelivery
      <3>3. \A q \in CardPolls : ~Before(q, j)'
        BY <2>2, <2>3, <2>5, <3>2 DEF Before
      <3> QED
        BY <1>2, <1>5, <2>1, <2>2, <2>5, <3>2, <3>3 DEF FirstDelivery
    <2> QED
      BY <2>4, <2>5
  <1> QED
    BY <1>7, <1>8, <1>9, <1>10 DEF CardInv

LEMMA ReportCommandKeeps == ASSUME CardInv, NEW p \in CardPolls, ReportCommand(p) PROVE CardInv'
  <1> DEFINE i == AtHand(p)
             c == [commands[i] EXCEPT !.status = IF polling[p].ok THEN "applied" ELSE "failed", !.stale = FALSE]
             answered == commands[i].status \in {"pending", "sent", "failed"}
  <1>t. /\ commands \in Seq(Command) /\ polling[p].step = "report"
        /\ i \in polling[p].rows /\ i \in DOMAIN commands /\ Remaining(p) \in SUBSET DOMAIN commands
    BY AtHandIsHeld DEF ReportCommand, CardInv, CardTypeOK, Remaining
  <1>1. /\ commands' = (IF answered THEN [commands EXCEPT ![i] = c] ELSE commands)
        /\ UNCHANGED <<linked, credential, holds, access, retrying, excused>> /\ GoesOn(p, Remaining(p))
    BY DEF ReportCommand, StatusOf
  <1>2. /\ polling' \in [CardPolls -> Batches] /\ \A q \in CardPolls : polling'[q].rows \subseteq DOMAIN commands
        /\ polling'[p].step \in {"idle", "apply"} /\ polling'[p].rows = Remaining(p)
        /\ \A q \in CardPolls \ {p} : polling'[q] = polling[q]
    BY <1>t, <1>1, GoesOnWithRows DEF CardInv
  <1>3. /\ c \in Command /\ c.of = commands[i].of /\ c.on = commands[i].on /\ c.runs = commands[i].runs
        /\ c.again = commands[i].again /\ ~c.stale
        /\ c.status = IF polling[p].ok THEN "applied" ELSE "failed"
    BY <1>t, CommandFields DEF CardInv, Command, CommandStates
  <1>4. i \notin Remaining(p) /\ Remaining(p) = polling[p].rows \ {i}
    BY DEF Remaining
  <1> HIDE DEF i, c
  <1>5. /\ commands' \in Seq(Command) /\ DOMAIN commands' = DOMAIN commands
        /\ commands'[i] = (IF answered THEN c ELSE commands[i])
        /\ \A j \in DOMAIN commands : j # i => commands'[j] = commands[j]
    BY <1>t, <1>1, <1>3, ChangesOne DEF CardInv
  <1>6. \A j \in DOMAIN commands : TookEffect(j)' => TookEffect(j)
    <2> SUFFICES ASSUME NEW j \in DOMAIN commands, TookEffect(j)' PROVE TookEffect(j)
      OBVIOUS
    <2>1. CASE commands'[j].status = "applied"
      <3>1. CASE j = i
        BY <1>t, <1>3, <1>5, <2>1, <3>1 DEF TookEffect, i
      <3> QED
        BY <1>5, <2>1, <3>1 DEF TookEffect
    <2>2. CASE \E q \in CardPolls : polling'[q].step = "report" /\ AtHand(q)' = j /\ polling'[q].ok
      BY <1>2, <2>2 DEF TookEffect, AtHand
    <2> QED
      BY <2>1, <2>2 DEF TookEffect
  <1>7. DeliveredOnce'
    <2> SUFFICES ASSUME NEW j \in DOMAIN commands, ~commands'[j].again PROVE FirstDelivery(j)'
      BY <1>5 DEF DeliveredOnce
    <2>1. FirstDelivery(j)
      BY <1>3, <1>5 DEF CardInv, DeliveredOnce
    <2>2. \A q \in CardPolls : Holds(q, j)' => Holds(q, j)
      BY <1>t, <1>2, <1>4 DEF Holds
    <2>3. \A q \in CardPolls : Before(q, j)' => Before(q, j)
      BY <1>t, <1>2, <1>4, <2>2 DEF Holds, Before, AtHand, i
    <2>4. CASE j # i
      BY <1>5, <2>1, <2>2, <2>3, <2>4 DEF FirstDelivery
    <2>5. CASE j = i
      <3>1. Holds(p, i)
        BY <1>t DEF Holds
      <3>2. commands[i].status # "pending"
        BY <2>1, <2>5, <3>1 DEF FirstDelivery
      <3> QED
        BY <1>3, <1>5, <2>1, <2>2, <2>3, <2>5, <3>2 DEF FirstDelivery
    <2> QED
      BY <2>4, <2>5
  <1>8. \A j \in DOMAIN commands : /\ commands'[j].of = commands[j].of /\ commands'[j].on = commands[j].on
                                   /\ commands'[j].runs = commands[j].runs
    BY <1>3, <1>5
  <1> QED
    BY <1>1, <1>2, <1>5, <1>6, <1>7, <1>8, PollMoves

LEMMA BridgeStopsKeeps == ASSUME CardInv, NEW p \in CardPolls, BridgeStops(p) PROVE CardInv'
  <1>1. /\ commands \in Seq(Command) /\ polling[p].step \in {"claim", "apply", "report"}
        /\ Remaining(p) \in SUBSET DOMAIN commands
    <2>1. polling[p] \in Batches /\ polling[p].step # "idle"
      BY DEF CardInv, CardTypeOK, BridgeStops
    <2> QED
      BY <2>1 DEF Batches, NoPolling, CardInv, CardTypeOK, Remaining
  <1>2. UNCHANGED <<linked, credential, holds, commands, access, retrying, excused>>
    BY DEF BridgeStops
  <1>3. PICK rest \in {{}} \cup (IF polling[p].step = "report" THEN {Remaining(p)} ELSE {}) : GoesOn(p, rest)
    BY DEF BridgeStops
  <1>4. rest \in SUBSET DOMAIN commands /\ (rest # {} => polling[p].step = "report" /\ rest = Remaining(p))
    BY <1>1, <1>3
  <1>5. /\ polling' \in [CardPolls -> Batches] /\ \A q \in CardPolls : polling'[q].rows \subseteq DOMAIN commands
        /\ polling'[p].step \in {"idle", "apply"} /\ polling'[p].rows = rest
        /\ \A q \in CardPolls \ {p} : polling'[q] = polling[q]
    BY <1>3, <1>4, GoesOnWithRows DEF CardInv
  <1>6. \A j \in DOMAIN commands : TookEffect(j)' => TookEffect(j)
    BY <1>2, <1>5 DEF TookEffect, AtHand
  <1>7. DeliveredOnce'
    <2>1. \A q \in CardPolls, i \in DOMAIN commands : (Holds(q, i)' => Holds(q, i)) /\ (Before(q, i)' => Before(q, i))
      BY <1>4, <1>5 DEF Holds, Before, AtHand, Remaining
    <2> QED
      BY <1>2, <2>1 DEF CardInv, DeliveredOnce, FirstDelivery
  <1> QED
    BY <1>1, <1>2, <1>5, <1>6, <1>7, PollMoves

LEMMA CardStep == ASSUME CardInv, [CardNext]_cardVars PROVE CardInv'
  <1>1. CASE UNCHANGED cardVars
    <2>1. UNCHANGED <<linked, credential, holds, commands, access, polling, retrying, excused>>
      BY <1>1 DEF cardVars
    <2>2. CardTypeOK'
      BY <2>1 DEF CardInv, CardTypeOK
    <2>4. QueueFollowsPortal'
      BY <2>1 DEF CardInv, QueueFollowsPortal, Pardoned, Unqueued, LastOf, Of
    <2>5. TerminalFollowsQueue'
      <3>1. \A k : Pardoned(k)' <=> Pardoned(k)
        BY <2>1 DEF Pardoned
      <3>2. \A i : TookEffect(i)' <=> TookEffect(i)
        BY <2>1 DEF TookEffect, AtHand
      <3>3. \A i, k : Of(i, k)' <=> Of(i, k)
        BY <2>1 DEF Of
      <3> QED
        BY <2>1, <3>1, <3>2, <3>3 DEF CardInv, TerminalFollowsQueue
    <2>3. DeliveredOnce'
      BY <2>1 DEF CardInv, DeliveredOnce, FirstDelivery, Holds, Before, AtHand
    <2> QED
      BY <2>2, <2>3, <2>4, <2>5 DEF CardInv
  <1>2. CASE CardNext
    BY <1>2, RemoteAccessKeeps, AccessWritesKeeps, AccessQueuesKeeps, AccessDiesKeeps, RemoteDoorKeeps, DoorQueuesKeeps,
       ClaimAgesKeeps, MarkCommandKeeps, CommandRetryReadsKeeps, CommandRetryWritesKeeps, PollReadsKeeps,
       PollClaimsKeeps, ApplyCommandKeeps, ReportCommandKeeps, BridgeStopsKeeps DEF CardNext
  <1> QED
    BY <1>1, <1>2

\* What joins the portal to the terminal: the queue says what the portal says, and the
\* terminal is what the last command that ran made it (remote access and claimDeviceCommands).
THEOREM CardInvariant == CardSpec => []CardInv
  <1> QED
    BY CardStarts, CardStep, PTL DEF CardSpec

\* A door opens once for one command, and a quiet terminal lets in what the portal shows,
\* for any number of requests, polls and commands.
THEOREM CommandsTakeEffectOnce == CardSpec => []CommandsAreFaithful
  <1>1. CardInv => CommandsAreFaithful
    <2> SUFFICES ASSUME CardInv PROVE CommandsAreFaithful
      OBVIOUS
    <2>1. DoorCommandsRunOnce
      BY DEF CardInv, DeliveredOnce, FirstDelivery, DoorCommandsRunOnce
    <2>2. ASSUME NoBatch, NEW k \in Kinds, ~Pardoned(k) PROVE holds[k] = (credential[k] = "active")
      <3>1. ~Unqueued(k)
        BY <2>2 DEF NoBatch, Unqueued, NoDesk
      <3>2. /\ (\A i \in DOMAIN commands : commands[i].of # k) => holds[k] = (credential[k] = "active")
            /\ \A i \in DOMAIN commands : LastOf(i, k) => commands[i].on = (credential[k] = "active")
        BY <2>2, <3>1 DEF CardInv, QueueFollowsPortal
      <3> DEFINE own == {i \in DOMAIN commands : commands[i].of = k}
      <3>3. CASE own = {}
        BY <3>2, <3>3
      <3>4. CASE own # {}
        <4>1. own \in SUBSET (1 .. Len(commands)) /\ Len(commands) \in Nat
          BY DEF CardInv, CardTypeOK
        <4>2. PICK m \in own : \A i \in own : i <= m
          BY <3>4, <4>1, GreatestOf
        <4>3. LastOf(m, k) /\ TookEffect(m) /\ Of(m, k)
          BY <2>2, <4>2 DEF LastOf, Of, TookEffect, NoBatch
        <4>4. \A j \in DOMAIN commands : j > m /\ commands[j].of = k => commands[j].runs = 0
          BY <4>1, <4>2
        <4>5. holds[k] = commands[m].on
          BY <2>2, <4>2, <4>3, <4>4 DEF CardInv, TerminalFollowsQueue
        <4> QED
          BY <3>2, <4>2, <4>3, <4>5
      <3> QED
        BY <3>3, <3>4
    <2>3. TerminalFollowsThePortal
      BY <2>2 DEF TerminalFollowsThePortal, Pardoned
    <2> QED
      BY <2>1, <2>3 DEF CommandsAreFaithful
  <1> QED
    BY <1>1, CardInvariant, PTL

-----------------------------------------------------------------------------
(* The Pi gate's copy of the cards *)

GateSyncs == [step : {"ask", "apply"}, full : BOOLEAN, since : Int, cursor : {0} \cup GateCards,
              items : SUBSET GateCards, removes : SUBSET GateCards, first : Nat \cup {Never},
              ops : SUBSET GateCards]

\* A point to ask from lies an overlap back.
AskedBack(v) == v \in Int /\ v + Overlap <= gateTime /\ (slowSync \/ v < gateTime)

GateRows == [active : BOOLEAN, holder : BOOLEAN, at : Nat]

\* The file and the cache hold the same cards, and none the store has turned away; the
\* account of an active card is active too, unless it changed since the card did.
CacheTypeOK ==
    /\ gateTime \in Nat /\ slowSync \in BOOLEAN
    /\ estateCard \in [GateCards -> GateRows]
    /\ \A k \in GateCards : estateCard[k].at <= gateTime
    /\ \A k \in GateCards \ accountMoved : GateUsable(k) = estateCard[k].active
    /\ gateCache \in [cards : SUBSET GateCards, ready : BOOLEAN, since : Int]
    /\ gateFile.saved \in BOOLEAN /\ gateFile.cards = gateCache.cards
    /\ turnedAway \cap gateCache.cards = {}
    /\ AskedBack(gateCache.since) /\ AskedBack(gateFile.since)
    /\ cardOps \subseteq GateCards

\* What a refresh has of card k, which was last changed before its first page, and its
\* holder's account earlier than that.
SeenOf(s, k) ==
    /\ k \in s.items => estateCard[k].active
    /\ k \in s.removes => ~estateCard[k].active
    /\ /\ s.step = "apply" \/ k <= s.cursor
       /\ estateCard[k].active
       /\ s.full \/ estateCard[k].at > s.since
       => k \in s.items
    /\ ~s.full /\ ~estateCard[k].active /\ estateCard[k].at > s.since => k \in s.removes

\* A refresh under way knows every card that has not changed since its first page, as
\* far as it has come, and a delta starts from a copy that covers the rest.
SeenRight(s) ==
    /\ s.first <= gateTime /\ AskedBack(s.since)
    /\ s.first = Never => s.step = "ask" /\ s.cursor = 0 /\ s.items = {} /\ s.removes = {}
    /\ s.first # Never /\ s.step = "ask" => s.cursor # 0
    /\ s.first # Never => \A k \in GateCards \ accountMoved : estateCard[k].at < s.first => SeenOf(s, k)
    /\ ~slowSync /\ ~s.full => CoveredBy(gateCache.cards, s.since)

FlowIsRight(f) == gateSync[f] = Quiet \/ (gateSync[f] \in GateSyncs /\ SeenRight(gateSync[f]))
FlowsAreRight == \A f \in Flows : FlowIsRight(f)

CopiesAreCovered ==
    ~slowSync => CoveredBy(gateCache.cards, gateCache.since) /\ CoveredBy(gateFile.cards, gateFile.since)

CacheInv ==
    /\ CacheTypeOK
    /\ DOMAIN gateSync = Flows
    /\ FlowsAreRight
    /\ CopiesAreCovered

LEMMA GateNumbers ==
    /\ Cardinality(GateCards) \in Nat /\ GateCards = 1 .. Cardinality(GateCards) /\ GateCards \subseteq Nat
    /\ Overlap \in Nat /\ GatePage \in Nat \ {0}
  <1>1. Cardinality(GateCards) \in Nat /\ GateCards = 1 .. Cardinality(GateCards)
    BY GateAssumption, FS_CardinalityType
  <1>2. GateCards \subseteq Nat
    BY <1>1
  <1> QED
    BY <1>1, <1>2, GateAssumption

\* A refresh that is in order, whichever step it was read in.
LEMMA FlowNow ==
    ASSUME NEW f \in Flows, NEW s, gateSync'[f] = s, s = Quiet \/ (s \in GateSyncs /\ SeenRight(s)')
    PROVE  FlowIsRight(f)'
  BY DEF FlowIsRight, SeenRight, SeenOf, CoveredBy, GateUsable, AskedBack

LEMMA CacheStarts == GateInit => CacheInv
  <1> SUFFICES ASSUME GateInit PROVE CacheInv
    OBVIOUS
  <1>1. /\ gateTime = 0 /\ slowSync = FALSE /\ turnedAway = {} /\ cardOps = {}
        /\ estateCard \in [GateCards -> [active : BOOLEAN, holder : {TRUE}, at : {0}]]
        /\ gateCache.cards = {} /\ gateCache.since = NoSince /\ gateFile.cards = {} /\ gateFile.since = NoSince
        /\ gateSync = [f \in Flows |-> Quiet]
    BY DEF GateInit
  <1>2. Overlap \in Nat /\ NoSince = 0 - Overlap - 1
    BY GateNumbers DEF NoSince
  <1>3. \A k \in GateCards : estateCard[k].at = 0 /\ estateCard[k] \in GateRows /\ estateCard[k].holder = TRUE
    <2> SUFFICES ASSUME NEW k \in GateCards
                 PROVE  estateCard[k].at = 0 /\ estateCard[k] \in GateRows /\ estateCard[k].holder = TRUE
      OBVIOUS
    <2>1. estateCard[k] \in [active : BOOLEAN, holder : {TRUE}, at : {0}]
      BY <1>1
    <2>2. PICK a \in BOOLEAN : estateCard[k] = [active |-> a, holder |-> TRUE, at |-> 0]
      BY <2>1
    <2> QED
      BY <2>2 DEF GateRows
  <1>4. estateCard \in [GateCards -> GateRows]
    BY <1>1, <1>3
  <1>5. \A v : v = NoSince => AskedBack(v)
    BY <1>1, <1>2 DEF AskedBack
  <1>6. CopiesAreCovered
    BY <1>1, <1>2, <1>3 DEF CopiesAreCovered, CoveredBy
  <1>7. AskedBack(gateCache.since) /\ AskedBack(gateFile.since)
    BY <1>1, <1>5
  <1>8. CacheTypeOK
    <2>1. \A k \in GateCards : estateCard[k].at <= gateTime
      BY <1>1, <1>3
    <2>2. gateTime \in Nat /\ slowSync \in BOOLEAN /\ cardOps \subseteq GateCards
      BY <1>1
    <2>3. /\ gateFile.saved \in BOOLEAN /\ gateFile.cards = gateCache.cards
          /\ turnedAway \cap gateCache.cards = {}
      BY <1>1 DEF GateInit
    <2>4. gateCache \in [cards : SUBSET GateCards, ready : BOOLEAN, since : Int]
      BY <1>2 DEF GateInit
    <2>5. \A k \in GateCards : GateUsable(k) = estateCard[k].active
      BY <1>3 DEF GateUsable, GateRows
    <2> QED
      BY <1>4, <1>7, <2>1, <2>2, <2>3, <2>4, <2>5 DEF CacheTypeOK
  <1>9. DOMAIN gateSync = Flows /\ FlowsAreRight
    BY <1>1 DEF FlowsAreRight, FlowIsRight
  <1> QED
    BY <1>6, <1>8, <1>9 DEF CacheInv

\* Steps of the door, and of the clock.
LEMMA CacheStays == ASSUME CacheInv, UNCHANGED cacheVars, gateTime' \in Nat, gateTime <= gateTime' PROVE CacheInv'
  <1>1. UNCHANGED <<estateCard, gateCache, gateFile, gateSync, cardOps, turnedAway, accountMoved, slowSync>>
    BY DEF cacheVars
  <1>2. Overlap \in Nat /\ gateTime \in Nat
    BY GateNumbers DEF CacheInv, CacheTypeOK
  <1>3. ASSUME NEW v, AskedBack(v) PROVE AskedBack(v)'
    BY <1>1, <1>2, <1>3 DEF AskedBack
  <1>4. CacheTypeOK'
    <2>1. \A k \in GateCards : estateCard[k].at <= gateTime'
      BY <1>2 DEF CacheInv, CacheTypeOK, GateRows
    <2> QED
      BY <1>1, <1>3, <2>1 DEF CacheInv, CacheTypeOK, GateUsable
  <1>5. CopiesAreCovered'
    BY <1>1 DEF CacheInv, CopiesAreCovered, CoveredBy, GateUsable
  <1>6. ASSUME NEW s \in GateSyncs, SeenRight(s) PROVE SeenRight(s)'
    <2>1. s.first <= gateTime'
      <3>1. s.first \in Int /\ s.first <= gateTime
        BY <1>6 DEF GateSyncs, SeenRight, Never
      <3> QED
        BY <1>2, <3>1
    <2>2. AskedBack(s.since)'
      BY <1>3, <1>6 DEF SeenRight
    <2>3. \A k : SeenOf(s, k)' = SeenOf(s, k)
      BY <1>1 DEF SeenOf
    <2> QED
      BY <1>1, <1>6, <2>1, <2>2, <2>3 DEF SeenRight, CoveredBy, GateUsable
  <1>7. FlowsAreRight'
    <2> SUFFICES ASSUME NEW g \in Flows PROVE FlowIsRight(g)'
      BY DEF FlowsAreRight
    <2>1. PICK s : s = gateSync[g]
      OBVIOUS
    <2>2. s = Quiet \/ (s \in GateSyncs /\ SeenRight(s)')
      BY <1>6, <2>1 DEF CacheInv, FlowsAreRight, FlowIsRight
    <2>3. gateSync'[g] = s
      BY <1>1, <2>1
    <2> QED
      BY <2>2, <2>3, FlowNow
  <1> QED
    BY <1>1, <1>4, <1>5, <1>7 DEF CacheInv

\* One refresh moves, or ends without being applied.
LEMMA OneRefreshMoves ==
    ASSUME CacheInv, NEW f \in Flows, NEW new, gateSync' = [gateSync EXCEPT ![f] = new],
           new = Quiet \/ (new \in GateSyncs /\ SeenRight(new)),
           UNCHANGED <<gateTime, estateCard, gateCache, gateFile, cardOps, turnedAway, accountMoved, slowSync>>
    PROVE  CacheInv'
  <1>1. \A v : AskedBack(v)' = AskedBack(v)
    BY DEF AskedBack
  <1>2. CacheTypeOK' /\ CopiesAreCovered'
    BY <1>1 DEF CacheInv, CacheTypeOK, CopiesAreCovered, CoveredBy, GateUsable
  <1>3. \A s : SeenRight(s)' = SeenRight(s)
    BY <1>1 DEF SeenRight, SeenOf, CoveredBy, GateUsable
  <1>4. FlowsAreRight'
    <2> SUFFICES ASSUME NEW g \in Flows PROVE FlowIsRight(g)'
      BY DEF FlowsAreRight
    <2>1. PICK s : s = gateSync'[g]
      OBVIOUS
    <2>2. s = Quiet \/ (s \in GateSyncs /\ SeenRight(s))
      BY <2>1 DEF CacheInv, FlowsAreRight, FlowIsRight
    <2> QED
      BY <1>3, <2>1, <2>2, FlowNow
  <1> QED
    BY <1>2, <1>4 DEF CacheInv

LEMMA StartKeeps == ASSUME CacheInv, NEW f \in Flows, StartSync(f) PROVE CacheInv'
  <1>1. PICK ops \in {{}, cardOps} :
          gateSync' = [gateSync EXCEPT ![f] =
            [step |-> "ask", full |-> ~gateCache.ready \/ gateCache.since = NoSince,
             since |-> gateCache.since, cursor |-> 0, items |-> {}, removes |-> {},
             first |-> Never, ops |-> ops]]
    BY DEF StartSync
  <1>2. PICK full \in BOOLEAN : full = (~gateCache.ready \/ gateCache.since = NoSince)
    OBVIOUS
  <1>3. PICK new : new = [step |-> "ask", full |-> full, since |-> gateCache.since, cursor |-> 0,
                          items |-> {}, removes |-> {}, first |-> Never, ops |-> ops]
    OBVIOUS
  <1>4. gateSync' = [gateSync EXCEPT ![f] = new]
    BY <1>1, <1>2, <1>3
  <1>5. gateCache.since \in Int /\ AskedBack(gateCache.since) /\ cardOps \subseteq GateCards /\ gateTime \in Nat
    BY DEF CacheInv, CacheTypeOK, AskedBack
  <1>6. new \in GateSyncs
    BY <1>3, <1>5 DEF GateSyncs
  <1>7. SeenRight(new)
    <2>1. Never <= gateTime
      BY <1>5 DEF Never
    <2>2. ~slowSync => CoveredBy(gateCache.cards, gateCache.since)
      BY DEF CacheInv, CopiesAreCovered
    <2> QED
      BY <1>3, <1>5, <2>1, <2>2 DEF SeenRight
  <1>8. UNCHANGED <<gateTime, estateCard, gateCache, gateFile, cardOps, turnedAway, accountMoved, slowSync>>
    BY DEF StartSync
  <1> QED
    BY <1>4, <1>6, <1>7, <1>8, OneRefreshMoves

LEMMA PageRecord ==
    ASSUME NEW s \in GateSyncs, NEW items \in SUBSET GateCards, NEW removes \in SUBSET GateCards,
           NEW first \in Nat \cup {Never}, NEW cursor \in {0} \cup GateCards, NEW step \in {"ask", "apply"},
           NEW new, new = [s EXCEPT !.items = items, !.removes = removes, !.first = first, !.cursor = cursor, !.step = step]
    PROVE  /\ new \in GateSyncs
           /\ new.items = items /\ new.removes = removes /\ new.first = first /\ new.cursor = cursor
           /\ new.step = step /\ new.since = s.since /\ new.full = s.full
  BY DEF GateSyncs

\* A page: what is seen after it is what was seen before and the rows up to the page's last.
LEMMA PageKeeps == ASSUME CacheInv, NEW f \in Flows, SnapshotPageAnswered(f) PROVE CacheInv'
  <1> DEFINE s == gateSync[f]
             delta == ~s.full /\ s.cursor = 0
             found == {k \in GateCards : /\ GateUsable(k) /\ k > s.cursor
                                         /\ delta => estateCard[k].at > s.since}
             page == {k \in found : Cardinality({j \in found : j <= k}) <= GatePage}
             gone == {k \in GateCards : ~estateCard[k].active /\ estateCard[k].at > s.since}
             new == [s EXCEPT !.items = @ \cup page, !.removes = IF delta THEN gone ELSE @,
                                !.first = IF s.cursor = 0 THEN gateTime ELSE @,
                                !.cursor = IF found # page THEN Max(page) ELSE @,
                                !.step = IF found # page THEN "ask" ELSE "apply"]
  <1>1. gateSync' = [gateSync EXCEPT ![f] = new]
    BY DEF SnapshotPageAnswered
  <1>2. s.step = "ask" /\ s \in GateSyncs /\ SeenRight(s)
    BY DEF SnapshotPageAnswered, CacheInv, FlowsAreRight, FlowIsRight, Quiet
  <1>4. \A k : k \in found <=> /\ k \in GateCards /\ GateUsable(k) /\ k > s.cursor
                               /\ delta => estateCard[k].at > s.since
    OBVIOUS
  <1>5. page = PageOf(found, GatePage)
    BY DEF PageOf
  <1>6. gone = {k \in GateCards : ~estateCard[k].active /\ estateCard[k].at > s.since}
    OBVIOUS
  <1>9. page \subseteq found /\ found \in SUBSET GateCards /\ gone \subseteq GateCards
    OBVIOUS
  <1> HIDE DEF s, found, page, gone
  <1>3. delta \in BOOLEAN /\ delta = (~s.full /\ s.cursor = 0)
    OBVIOUS
  <1>10. (\A k \in page, j \in found : j <= k => j \in page) /\ (found # page => page # {})
    <2>1. Cardinality(GateCards) \in Nat /\ found \in SUBSET (1 .. Cardinality(GateCards)) /\ GatePage \in Nat \ {0}
      BY <1>9, GateNumbers
    <2> QED
      BY <1>5, <2>1, PagesAreBeginnings
  <1>11. page # {} => Max(page) \in page /\ \A k \in page : k <= Max(page)
    BY <1>9, GateNumbers, GreatestOf
  <1>12. gateTime \in Nat /\ estateCard \in [GateCards -> GateRows]
    BY DEF CacheInv, CacheTypeOK
  <1>13. /\ s.full \in BOOLEAN /\ s.since \in Int /\ s.cursor \in {0} \cup GateCards /\ s.items \subseteq GateCards
         /\ s.removes \subseteq GateCards /\ s.first \in Nat \cup {Never} /\ s.ops \subseteq GateCards
    BY <1>2 DEF GateSyncs
  <1>7. /\ new \in GateSyncs
        /\ new.items = s.items \cup page /\ new.removes = IF delta THEN gone ELSE s.removes
        /\ new.first = IF s.cursor = 0 THEN gateTime ELSE s.first
        /\ new.cursor = IF found # page THEN Max(page) ELSE s.cursor
        /\ new.step = IF found # page THEN "ask" ELSE "apply"
        /\ new.since = s.since /\ new.full = s.full
    <2>1. PICK items, removes, first, cursor, step :
               /\ items = s.items \cup page /\ removes = (IF delta THEN gone ELSE s.removes)
               /\ first = (IF s.cursor = 0 THEN gateTime ELSE s.first)
               /\ cursor = (IF found # page THEN Max(page) ELSE s.cursor)
               /\ step = (IF found # page THEN "ask" ELSE "apply")
      OBVIOUS
    <2>2. new = [s EXCEPT !.items = items, !.removes = removes, !.first = first, !.cursor = cursor, !.step = step]
      BY <2>1
    <2>3. items \in SUBSET GateCards /\ removes \in SUBSET GateCards
      BY <1>9, <1>13, <2>1
    <2>4. cursor \in {0} \cup GateCards
      BY <1>9, <1>10, <1>11, <1>13, <2>1
    <2>5. first \in Nat \cup {Never} /\ step \in {"ask", "apply"}
      BY <1>12, <1>13, <2>1
    <2> HIDE DEF new
    <2>6. /\ new \in GateSyncs
          /\ new.items = items /\ new.removes = removes /\ new.first = first /\ new.cursor = cursor
          /\ new.step = step /\ new.since = s.since /\ new.full = s.full
      BY <1>2, <2>2, <2>3, <2>4, <2>5 DEF GateSyncs
    <2> QED
      BY <2>1, <2>6
  <1> HIDE DEF new, delta
  <1>15. (s.cursor = 0 <=> s.first = Never) /\ new.first # Never /\ new.first <= gateTime
    BY <1>2, <1>7, <1>12, <1>13 DEF SeenRight, Never
  <1>16. ASSUME NEW k \in GateCards \ accountMoved, estateCard[k].at < new.first PROVE SeenOf(new, k)
    <2>0. GateUsable(k) = estateCard[k].active
      BY DEF CacheInv, CacheTypeOK
    <2>1. s.cursor = 0 => s.items = {} /\ s.removes = {}
      BY <1>2, <1>15 DEF SeenRight
    <2>2. s.cursor # 0 => SeenOf(s, k)
      BY <1>2, <1>7, <1>15, <1>16 DEF SeenRight
    <2>3. k \in Nat /\ estateCard[k].at \in Nat /\ estateCard[k].active \in BOOLEAN /\ s.cursor \in Nat
      BY <1>12, <1>13, GateNumbers DEF GateRows
    <2>4. k \in page => estateCard[k].active
      BY <1>4, <1>9, <2>0
    <2>5. k \in gone <=> ~estateCard[k].active /\ estateCard[k].at > s.since
      BY <1>6
    <2>6. k \in new.items => estateCard[k].active
      BY <1>7, <2>1, <2>2, <2>4 DEF SeenOf
    <2>7. k \in new.removes => ~estateCard[k].active
      <3>1. CASE delta
        BY <1>7, <3>1, <2>5
      <3>2. CASE ~delta
        BY <1>7, <3>2, <2>1, <2>2 DEF SeenOf
      <3> QED
        BY <3>1, <3>2
    <2>8. ~new.full /\ ~estateCard[k].active /\ estateCard[k].at > new.since => k \in new.removes
      <3>1. CASE delta
        BY <1>7, <3>1, <2>5
      <3>2. CASE ~delta
        BY <1>3, <1>7, <3>2, <2>2 DEF SeenOf
      <3> QED
        BY <3>1, <3>2
    <2>9. ASSUME new.step = "apply" \/ k <= new.cursor, estateCard[k].active, s.full \/ estateCard[k].at > s.since
          PROVE  k \in new.items
      <3>1. CASE k <= s.cursor
        <4>1. s.cursor # 0
          BY <2>3, <3>1, GateNumbers
        <4> QED
          BY <1>7, <2>2, <2>9, <3>1, <4>1 DEF SeenOf
      <3>2. CASE k > s.cursor
        <4>1. k \in found
          BY <1>3, <1>4, <2>0, <2>9, <3>2
        <4>2. CASE found = page
          BY <1>7, <4>1, <4>2
        <4>3. CASE found # page
          <5>1. k <= Max(page) /\ Max(page) \in page
            BY <1>7, <1>10, <1>11, <2>9, <4>3
          <5> QED
            BY <1>7, <1>10, <4>1, <5>1
        <4> QED
          BY <4>2, <4>3
      <3> QED
        BY <2>3, <3>1, <3>2
    <2> QED
      BY <1>7, <2>6, <2>7, <2>8, <2>9 DEF SeenOf
  <1>17. SeenRight(new)
    <2>1. AskedBack(new.since) /\ (~slowSync /\ ~new.full => CoveredBy(gateCache.cards, new.since))
      BY <1>2, <1>7 DEF SeenRight
    <2>2. new.step = "ask" => new.cursor # 0
      <3>1. found # page => Max(page) \in GateCards
        BY <1>9, <1>10, <1>11
      <3>2. \A k \in GateCards : k # 0
        BY GateNumbers
      <3>3. new.step = "ask" => found # page /\ new.cursor = Max(page)
        BY <1>7
      <3> QED
        BY <3>1, <3>2, <3>3
    <2> QED
      BY <1>15, <1>16, <2>1, <2>2 DEF SeenRight
  <1>18. UNCHANGED <<gateTime, estateCard, gateCache, gateFile, cardOps, turnedAway, accountMoved, slowSync>>
    BY DEF SnapshotPageAnswered
  <1> QED
    BY <1>1, <1>7, <1>17, <1>18, OneRefreshMoves

LEMMA FailKeeps == ASSUME CacheInv, NEW f \in Flows, SyncPageFails(f) PROVE CacheInv'
  BY OneRefreshMoves DEF SyncPageFails

\* A card that changes is newer than every point a delta asks from.
LEMMA ChangeKeeps == ASSUME CacheInv, NEW k \in GateCards, EstateChanges(k) PROVE CacheInv'
  <1>0. PICK row : row = estateCard[k]
    OBVIOUS
  <1>1. /\ estateCard' = [estateCard EXCEPT ![k] = [active |-> ~row.active, holder |-> row.holder, at |-> gateTime]]
        /\ cardOps' = cardOps \cup {k} /\ turnedAway' = turnedAway \ {k}
        /\ UNCHANGED <<gateTime, gateCache, gateFile, gateSync, slowSync>>
        /\ accountMoved' = IF row.active \/ row.holder THEN accountMoved \ {k} ELSE accountMoved \cup {k}
    BY <1>0 DEF EstateChanges
  <1>2. gateTime \in Nat /\ estateCard \in [GateCards -> GateRows]
    BY DEF CacheInv, CacheTypeOK
  <1>3. /\ estateCard' \in [GateCards -> GateRows] /\ estateCard'[k].at = gateTime
        /\ estateCard'[k].active = ~row.active /\ estateCard'[k].holder = row.holder
        /\ \A j \in GateCards \ {k} : estateCard'[j] = estateCard[j]
        /\ row.active \in BOOLEAN /\ row.holder \in BOOLEAN
    BY <1>0, <1>1, <1>2 DEF GateRows
  <1>4. \A v : AskedBack(v)' = AskedBack(v)
    BY <1>1 DEF AskedBack
  <1>5. CacheTypeOK'
    <2>1. \A j \in GateCards : estateCard'[j].at <= gateTime'
      BY <1>1, <1>2, <1>3 DEF CacheInv, CacheTypeOK
    <2>2. ASSUME NEW j \in GateCards \ accountMoved' PROVE GateUsable(j)' = estateCard'[j].active
      <3>1. CASE j = k
        BY <1>1, <1>3, <2>2, <3>1 DEF GateUsable
      <3>2. CASE j # k
        BY <1>1, <1>3, <2>2, <3>2 DEF CacheInv, CacheTypeOK, GateUsable
      <3> QED
        BY <3>1, <3>2
    <2> QED
      BY <1>1, <1>2, <1>3, <1>4, <2>1, <2>2 DEF CacheInv, CacheTypeOK
  <1>6. ASSUME NEW S, NEW v, AskedBack(v), ~slowSync, CoveredBy(S, v) PROVE CoveredBy(S, v)'
    <2> SUFFICES ASSUME NEW j \in GateCards
                 PROVE  \/ (j \in S) = GateUsable(j)' \/ estateCard'[j].at > v
                        \/ j \in turnedAway' \cup accountMoved'
      BY DEF CoveredBy
    <2>1. CASE j = k
      BY <1>2, <1>3, <1>6, <2>1 DEF AskedBack
    <2>2. CASE j # k
      BY <1>1, <1>3, <1>6, <2>2 DEF CoveredBy, GateUsable
    <2> QED
      BY <2>1, <2>2
  <1>7. CopiesAreCovered'
    <2>1. gateCache' = gateCache /\ gateFile' = gateFile /\ slowSync' = slowSync
      BY <1>1
    <2>2. PICK c, cv, d, dv : c = gateCache.cards /\ cv = gateCache.since /\ d = gateFile.cards /\ dv = gateFile.since
      OBVIOUS
    <2>3. ~slowSync => CoveredBy(c, cv)' /\ CoveredBy(d, dv)'
      BY <1>6, <2>2 DEF CacheInv, CacheTypeOK, CopiesAreCovered
    <2> QED
      BY <2>1, <2>2, <2>3 DEF CopiesAreCovered, CoveredBy, GateUsable
  <1>8. ASSUME NEW s \in GateSyncs, SeenRight(s) PROVE SeenRight(s)'
    <2>1. s.first \in Int /\ s.first <= gateTime
      BY <1>8 DEF GateSyncs, SeenRight, Never
    <2>2. ASSUME NEW j \in GateCards \ accountMoved', s.first # Never, estateCard'[j].at < s.first
          PROVE  SeenOf(s, j)'
      <3>1. j # k
        BY <1>2, <1>3, <2>1, <2>2
      <3>2. estateCard'[j] = estateCard[j] /\ SeenOf(s, j)
        BY <1>1, <1>3, <1>8, <2>2, <3>1 DEF SeenRight
      <3> QED
        BY <3>2 DEF SeenOf
    <2>3. PICK c : c = gateCache.cards
      OBVIOUS
    <2>4. ~slowSync /\ ~s.full => CoveredBy(c, s.since)'
      BY <1>6, <1>8, <2>3 DEF SeenRight
    <2>5. gateCache'.cards = c /\ (~slowSync' /\ ~s.full => CoveredBy(gateCache.cards, s.since)')
      BY <1>1, <2>3, <2>4 DEF CoveredBy, GateUsable
    <2> QED
      BY <1>1, <1>4, <1>8, <2>2, <2>5 DEF SeenRight
  <1>9. FlowsAreRight'
    <2> SUFFICES ASSUME NEW g \in Flows PROVE FlowIsRight(g)'
      BY DEF FlowsAreRight
    <2>1. PICK s : s = gateSync[g]
      OBVIOUS
    <2>2. s = Quiet \/ (s \in GateSyncs /\ SeenRight(s)')
      BY <1>8, <2>1 DEF CacheInv, FlowsAreRight, FlowIsRight
    <2> QED
      BY <1>1, <2>1, <2>2, FlowNow
  <1> QED
    BY <1>1, <1>5, <1>7, <1>9 DEF CacheInv

\* A card whose holder's account changes is nobody's concern until its own row does.
LEMMA HolderKeeps == ASSUME CacheInv, NEW k \in GateCards, GateHolderChanges(k) PROVE CacheInv'
  <1>0. PICK row : row = estateCard[k]
    OBVIOUS
  <1>1. /\ estateCard' = [estateCard EXCEPT ![k] = [active |-> row.active, holder |-> ~row.holder, at |-> row.at]]
        /\ accountMoved' = accountMoved \cup {k}
        /\ UNCHANGED <<gateTime, gateCache, gateFile, gateSync, cardOps, turnedAway, slowSync>>
    BY <1>0 DEF GateHolderChanges
  <1>2. estateCard \in [GateCards -> GateRows] /\ \A j \in GateCards : estateCard[j].at <= gateTime
    BY DEF CacheInv, CacheTypeOK
  <1>3. /\ estateCard' \in [GateCards -> GateRows] /\ estateCard'[k].at = row.at
        /\ \A j \in GateCards \ {k} : estateCard'[j] = estateCard[j]
    BY <1>0, <1>1, <1>2 DEF GateRows
  <1>4. \A v : AskedBack(v)' = AskedBack(v)
    BY <1>1 DEF AskedBack
  <1>5. CacheTypeOK'
    <2>1. \A j \in GateCards : estateCard'[j].at <= gateTime'
      BY <1>0, <1>1, <1>2, <1>3
    <2>2. \A j \in GateCards \ accountMoved' : GateUsable(j)' = estateCard'[j].active
      BY <1>1, <1>3 DEF CacheInv, CacheTypeOK, GateUsable
    <2> QED
      BY <1>1, <1>3, <1>4, <2>1, <2>2 DEF CacheInv, CacheTypeOK
  <1>6. \A S, v : CoveredBy(S, v) => CoveredBy(S, v)'
    BY <1>0, <1>1, <1>3 DEF CoveredBy, GateUsable
  <1>7. CopiesAreCovered'
    <2>1. PICK c, cv, d, dv : c = gateCache.cards /\ cv = gateCache.since /\ d = gateFile.cards /\ dv = gateFile.since
      OBVIOUS
    <2>2. ~slowSync => CoveredBy(c, cv)' /\ CoveredBy(d, dv)'
      BY <1>6, <2>1 DEF CacheInv, CopiesAreCovered
    <2> QED
      BY <1>1, <2>1, <2>2 DEF CopiesAreCovered, CoveredBy, GateUsable
  <1>8. ASSUME NEW s \in GateSyncs, SeenRight(s) PROVE SeenRight(s)'
    <2>1. ASSUME NEW j \in GateCards \ accountMoved', s.first # Never, estateCard'[j].at < s.first
          PROVE  SeenOf(s, j)'
      <3>1. j # k /\ j \notin accountMoved /\ estateCard'[j] = estateCard[j]
        BY <1>1, <1>3, <2>1
      <3>2. SeenOf(s, j)
        BY <1>8, <2>1, <3>1 DEF SeenRight
      <3> QED
        BY <3>1, <3>2 DEF SeenOf
    <2>2. PICK c : c = gateCache.cards
      OBVIOUS
    <2>3. ~slowSync /\ ~s.full => CoveredBy(c, s.since)'
      BY <1>6, <1>8, <2>2 DEF SeenRight
    <2>4. gateCache'.cards = c /\ (~slowSync' /\ ~s.full => CoveredBy(gateCache.cards, s.since)')
      BY <1>1, <2>2, <2>3 DEF CoveredBy, GateUsable
    <2> QED
      BY <1>1, <1>4, <1>8, <2>1, <2>4 DEF SeenRight
  <1>9. FlowsAreRight'
    <2> SUFFICES ASSUME NEW g \in Flows PROVE FlowIsRight(g)'
      BY DEF FlowsAreRight
    <2>1. PICK s : s = gateSync[g]
      OBVIOUS
    <2>2. s = Quiet \/ (s \in GateSyncs /\ SeenRight(s)')
      BY <1>8, <2>1 DEF CacheInv, FlowsAreRight, FlowIsRight
    <2> QED
      BY <1>1, <2>1, <2>2, FlowNow
  <1> QED
    BY <1>1, <1>5, <1>7, <1>9 DEF CacheInv

\* The cache's new content is right about every card that has not changed since the
\* refresh's first page, nor its holder's account, except those a full store turned away.
LEMMA WhatIsAppliedIsRight ==
    ASSUME CacheInv, NEW s \in GateSyncs, SeenRight(s), s.step = "apply", ~slowSync,
           NEW taken \in SUBSET s.items, NEW next,
           next = IF s.full THEN s.items ELSE (gateCache.cards \ s.removes) \cup taken,
           NEW away, away = IF s.full THEN turnedAway \ next ELSE (turnedAway \cup s.items) \ next,
           NEW k \in GateCards \ accountMoved
    PROVE  (k \in next) = estateCard[k].active \/ estateCard[k].at >= s.first \/ k \in away
  <1>1. estateCard[k].active \in BOOLEAN /\ estateCard[k].at \in Nat /\ s.full \in BOOLEAN /\ s.since \in Int
    BY DEF CacheInv, CacheTypeOK, GateSyncs, GateRows
  <1>2. s.first \in Nat /\ s.first # Never
    BY DEF SeenRight, GateSyncs, Never
  <1> SUFFICES ASSUME estateCard[k].at < s.first, k \notin away PROVE (k \in next) = estateCard[k].active
    BY <1>1, <1>2
  <1>3. SeenOf(s, k)
    BY <1>2 DEF SeenRight
  <1>4. CASE s.full
    <2>1. k \in s.items => estateCard[k].active
      BY <1>3 DEF SeenOf
    <2>2. estateCard[k].active => k \in s.items
      BY <1>3, <1>4 DEF SeenOf
    <2> QED
      BY <1>1, <1>4, <2>1, <2>2
  <1>5. CASE ~s.full
    <2>1. k \notin next => k \notin turnedAway /\ k \notin s.items
      BY <1>5
    <2>2. next = (gateCache.cards \ s.removes) \cup taken
      BY <1>5
    <2>3. (k \in gateCache.cards) = estateCard[k].active \/ estateCard[k].at > s.since \/ k \in turnedAway
      <3>1. GateUsable(k) = estateCard[k].active
        BY DEF CacheInv, CacheTypeOK
      <3> QED
        BY <1>5, <3>1 DEF SeenRight, CoveredBy
    <2>4. k \in turnedAway => k \notin gateCache.cards
      BY DEF CacheInv, CacheTypeOK
    <2>5. CASE estateCard[k].active
      <3>1. k \notin s.removes
        BY <1>3, <2>5 DEF SeenOf
      <3>2. CASE estateCard[k].at > s.since
        <4>1. k \in s.items
          BY <1>3, <2>5, <3>2 DEF SeenOf
        <4> QED
          BY <2>1, <2>5, <4>1
      <3>3. CASE k \in gateCache.cards
        <4>1. k \in next
          BY <2>2, <3>1, <3>3
        <4> QED
          BY <1>1, <2>5, <4>1
      <3>4. CASE k \in turnedAway
        BY <2>1, <2>5, <3>4
      <3> QED
        BY <2>3, <2>5, <3>2, <3>3, <3>4
    <2>6. CASE ~estateCard[k].active
      <3>1. k \notin s.items /\ k \notin taken
        BY <1>3, <2>6 DEF SeenOf
      <3>2. k \notin gateCache.cards \ s.removes
        <4>1. CASE estateCard[k].at > s.since
          BY <1>3, <1>5, <2>6, <4>1 DEF SeenOf
        <4>2. CASE ~(estateCard[k].at > s.since)
          BY <1>1, <2>3, <2>4, <2>6, <4>2
        <4> QED
          BY <4>1, <4>2
      <3> QED
        BY <1>1, <2>2, <2>6, <3>1, <3>2
    <2> QED
      BY <1>1, <2>5, <2>6
  <1> QED
    BY <1>1, <1>4, <1>5

LEMMA AddsKeep ==
    ASSUME CacheInv, NEW f \in Flows, gateSync[f].step = "apply", NEW taken \in SUBSET gateSync[f].items,
           ApplyAdds(f, taken), UNCHANGED <<gateTime, estateCard, accountMoved>>
    PROVE  CacheInv'
  <1>1. PICK s : s = gateSync[f]
    OBVIOUS
  <1>2. s \in GateSyncs /\ SeenRight(s) /\ s.step = "apply" /\ taken \in SUBSET s.items
    BY <1>1 DEF CacheInv, FlowsAreRight, FlowIsRight, Quiet
  <1>3. PICK next : next = IF s.full THEN s.items ELSE (gateCache.cards \ s.removes) \cup taken
    OBVIOUS
  <1>4. PICK away : away = IF s.full THEN turnedAway \ next ELSE (turnedAway \cup s.items) \ next
    OBVIOUS
  <1>5. PICK since : since = s.first - Overlap
    OBVIOUS
  <1>6. /\ gateCache' = [cards |-> next, ready |-> TRUE, since |-> since]
        /\ gateFile' = IF s.full \/ next # gateCache.cards
                       THEN [saved |-> TRUE, cards |-> next, since |-> gateCache.since] ELSE gateFile
        /\ turnedAway' = away /\ gateSync' = [gateSync EXCEPT ![f] = Quiet] /\ cardOps' = cardOps \ s.ops
        /\ slowSync' = (slowSync \/ gateTime - s.first >= Overlap)
    BY <1>1, <1>3, <1>4, <1>5 DEF ApplyAdds, NextSince
  <1>7. /\ gateTime \in Nat /\ slowSync \in BOOLEAN /\ Overlap \in Nat
        /\ s.first \in Nat /\ s.first <= gateTime
    BY <1>2, GateNumbers DEF CacheInv, CacheTypeOK, SeenRight, GateSyncs, Never
  <1>T. gateTime' = gateTime
    OBVIOUS
  <1>0. ~slowSync' => ~slowSync /\ gateTime - s.first < Overlap
    <2>1. ~slowSync' => ~slowSync /\ ~(gateTime - s.first >= Overlap)
      BY <1>6, Zenon
    <2>2. ~(gateTime - s.first >= Overlap) => gateTime - s.first < Overlap
      BY <1>7
    <2> QED
      BY <2>1, <2>2
  <1>8. ASSUME NEW v, AskedBack(v) PROVE AskedBack(v)' /\ (~slowSync' => v < s.first)
    <2>1. v \in Int /\ v + Overlap <= gateTime /\ (slowSync \/ v < gateTime)
      BY <1>8 DEF AskedBack
    <2>2. slowSync' \/ v < gateTime
      BY <1>0, <2>1
    <2>3. ~slowSync' => v < s.first
      BY <1>0, <1>7, <2>1
    <2> QED
      BY <2>1, <2>2, <2>3, <1>T DEF AskedBack
  <1>9. AskedBack(since)' /\ (~slowSync' => since < s.first)
    <2>1. since \in Int /\ since + Overlap <= gateTime
      BY <1>5, <1>7
    <2>2. ~slowSync' => since < s.first /\ since < gateTime
      BY <1>0, <1>5, <1>7
    <2> QED
      BY <1>T, <2>1, <2>2 DEF AskedBack
  <1>10. next \subseteq GateCards /\ away \cap next = {}
    <2>1. gateCache.cards \subseteq GateCards /\ s.items \subseteq GateCards
      BY <1>2 DEF CacheInv, CacheTypeOK, GateSyncs
    <2> QED
      BY <1>2, <1>3, <1>4, <2>1
  <1>11. gateFile'.cards = next /\ (gateFile'.since = gateCache.since \/ gateFile'.since = gateFile.since)
    BY <1>6 DEF CacheInv, CacheTypeOK
  <1>12. CacheTypeOK'
    <2>1. gateCache'.cards = next /\ gateCache'.since = since /\ gateFile'.saved \in BOOLEAN
      BY <1>6 DEF CacheInv, CacheTypeOK
    <2>5. gateCache' \in [cards : SUBSET GateCards, ready : BOOLEAN, since : Int]
      BY <1>5, <1>6, <1>7, <1>10
    <2>2. AskedBack(gateCache.since)'
      <3>1. PICK v : v = gateCache'.since
        OBVIOUS
      <3>2. AskedBack(v)'
        BY <1>9, <2>1, <3>1
      <3> QED
        BY <3>1, <3>2 DEF AskedBack
    <2>3. AskedBack(gateFile.since)'
      <3>1. PICK v : v = gateFile'.since
        OBVIOUS
      <3>2. AskedBack(v)
        BY <1>11, <3>1 DEF CacheInv, CacheTypeOK
      <3>3. AskedBack(v)'
        BY <1>8, <3>2
      <3> QED
        BY <3>1, <3>3 DEF AskedBack
    <2>4. slowSync' \in BOOLEAN /\ cardOps' \subseteq GateCards
      BY <1>6 DEF CacheInv, CacheTypeOK
    <2> QED
      BY <1>6, <1>7, <1>10, <1>11, <2>1, <2>2, <2>3, <2>4, <2>5 DEF CacheInv, CacheTypeOK, GateUsable
  \* Every point anyone asks from lies before the first page.
  <1>13. ASSUME NEW v, v \in Int, v < s.first, ~slowSync' PROVE CoveredBy(next, v)'
    <2> SUFFICES ASSUME NEW k \in GateCards
                 PROVE  \/ (k \in next) = GateUsable(k) \/ estateCard[k].at > v
                        \/ k \in away \cup accountMoved
      BY <1>6 DEF CoveredBy, GateUsable
    <2>1. ~slowSync
      BY <1>0, <1>13
    <2>2. \/ (k \in next) = GateUsable(k) \/ estateCard[k].at >= s.first
          \/ k \in away \cup accountMoved
      <3>1. CASE k \in accountMoved
        BY <3>1
      <3>2. CASE k \notin accountMoved
        <4>1. GateUsable(k) = estateCard[k].active
          BY <3>2 DEF CacheInv, CacheTypeOK
        <4>2. (k \in next) = estateCard[k].active \/ estateCard[k].at >= s.first \/ k \in away
          BY <1>2, <1>3, <1>4, <2>1, <3>2, WhatIsAppliedIsRight
        <4> QED
          BY <4>1, <4>2
      <3> QED
        BY <3>1, <3>2
    <2>3. estateCard[k].at \in Nat
      BY DEF CacheInv, CacheTypeOK, GateRows
    <2>4. estateCard[k].at >= s.first => estateCard[k].at > v
      BY <1>7, <1>13, <2>3
    <2> QED
      BY <2>2, <2>4
  <1>14. CopiesAreCovered'
    <2> SUFFICES ASSUME ~slowSync'
                 PROVE  CoveredBy(gateCache.cards, gateCache.since)' /\ CoveredBy(gateFile.cards, gateFile.since)'
      BY DEF CopiesAreCovered
    <2>1. since \in Int /\ CoveredBy(next, since)'
      BY <1>5, <1>7, <1>9, <1>13
    <2>2. PICK v : v = gateFile'.since
      OBVIOUS
    <2>3. AskedBack(v)
      BY <1>11, <2>2 DEF CacheInv, CacheTypeOK
    <2>4. v \in Int /\ v < s.first
      BY <1>8, <2>3 DEF AskedBack
    <2>5. CoveredBy(next, v)'
      BY <1>13, <2>4
    <2> QED
      BY <1>6, <1>11, <2>1, <2>2, <2>5 DEF CoveredBy, GateUsable
  <1>15. FlowsAreRight'
    <2> SUFFICES ASSUME NEW g \in Flows PROVE FlowIsRight(g)'
      BY DEF FlowsAreRight
    <2>1. CASE g = f
      BY <1>6, <2>1 DEF CacheInv, FlowIsRight
    <2>2. CASE g # f
      <3>1. PICK r : r = gateSync[g]
        OBVIOUS
      <3>2. gateSync'[g] = r
        BY <1>6, <2>2, <3>1
      <3>3. r = Quiet \/ (r \in GateSyncs /\ SeenRight(r))
        BY <3>1 DEF CacheInv, FlowsAreRight, FlowIsRight
      <3>4. ASSUME r \in GateSyncs, SeenRight(r) PROVE SeenRight(r)'
        <4>1. \A k : SeenOf(r, k)' = SeenOf(r, k)
          BY DEF SeenOf
        <4>2. r.since \in Int /\ AskedBack(r.since)' /\ (~slowSync' => r.since < s.first)
          BY <1>8, <3>4 DEF SeenRight, GateSyncs
        <4>3. ~slowSync' => CoveredBy(next, r.since)'
          BY <1>13, <4>2
        <4>4. ~slowSync' => CoveredBy(gateCache.cards, r.since)'
          BY <1>6, <4>3 DEF CoveredBy, GateUsable
        <4> QED
          BY <3>4, <4>1, <4>2, <4>4 DEF SeenRight
      <3> QED
        BY <3>2, <3>3, <3>4, FlowNow
    <2> QED
      BY <2>1, <2>2
  <1> QED
    BY <1>6, <1>12, <1>14, <1>15 DEF CacheInv

LEMMA ApplyKeeps == ASSUME CacheInv, NEW f \in Flows, ApplySnapshot(f) PROVE CacheInv'
  <1>1. gateSync[f].step = "apply" /\ UNCHANGED <<gateTime, estateCard, accountMoved>>
    BY DEF ApplySnapshot, ApplyAdds
  <1>2. ASSUME NEW taken \in SUBSET gateSync[f].items, ApplyAdds(f, taken) PROVE CacheInv'
    BY <1>1, <1>2, AddsKeep
  <1>3. ASSUME gateCache' = gateCache \/ gateCache' = [gateCache EXCEPT !.since = NoSince],
               gateSync' = [gateSync EXCEPT ![f] = Quiet], UNCHANGED <<gateFile, cardOps, turnedAway, accountMoved, slowSync>>
        PROVE  CacheInv'
    <2>0. NoSince \in Int
      BY GateNumbers DEF NoSince
    <2>1. /\ gateCache'.cards = gateCache.cards /\ (gateCache'.since = gateCache.since \/ gateCache'.since = NoSince)
          /\ gateCache' \in [cards : SUBSET GateCards, ready : BOOLEAN, since : Int]
      BY <1>3, <2>0 DEF CacheInv, CacheTypeOK
    <2>2. \A v : AskedBack(v)' = AskedBack(v)
      BY <1>1, <1>3 DEF AskedBack
    <2>3. /\ Overlap \in Nat /\ NoSince = 0 - Overlap - 1 /\ gateTime \in Nat
          /\ estateCard \in [GateCards -> GateRows]
      BY GateNumbers DEF NoSince, CacheInv, CacheTypeOK
    <2>4. \A v : v = NoSince => AskedBack(v)
      BY <2>3 DEF AskedBack
    <2>5. AskedBack(gateCache'.since)
      BY <2>1, <2>4 DEF CacheInv, CacheTypeOK
    <2>6. CacheTypeOK'
      <3>1. AskedBack(gateCache.since)'
        BY <1>1, <1>3, <2>5 DEF AskedBack
      <3> QED
        BY <1>1, <1>3, <2>1, <2>2, <3>1 DEF CacheInv, CacheTypeOK, GateUsable
    <2>7. \A k \in GateCards : estateCard[k].at > NoSince
      BY <2>3 DEF GateRows
    <2>8. CopiesAreCovered'
      BY <1>1, <1>3, <2>1, <2>7 DEF CacheInv, CopiesAreCovered, CoveredBy, GateUsable
    <2>9. \A s : SeenRight(s)' = SeenRight(s)
      BY <1>1, <1>3, <2>1 DEF SeenRight, SeenOf, CoveredBy, GateUsable, AskedBack
    <2>10. FlowsAreRight'
      <3> SUFFICES ASSUME NEW g \in Flows PROVE FlowIsRight(g)'
        BY DEF FlowsAreRight
      <3>1. PICK s : s = gateSync'[g]
        OBVIOUS
      <3>2. s = Quiet \/ (s \in GateSyncs /\ SeenRight(s))
        <4>1. CASE g = f
          BY <1>3, <3>1, <4>1 DEF CacheInv
        <4>2. CASE g # f
          BY <1>3, <3>1, <4>2 DEF CacheInv, FlowsAreRight, FlowIsRight
        <4> QED
          BY <4>1, <4>2
      <3> QED
        BY <2>9, <3>1, <3>2, FlowNow
    <2> QED
      BY <1>3, <2>6, <2>8, <2>10 DEF CacheInv
  <1> QED
    BY <1>1, <1>2, <1>3 DEF ApplySnapshot

LEMMA RestartKeeps == ASSUME CacheInv, GateRestarts PROVE CacheInv'
  <1>1. /\ gateCache' = [cards |-> gateFile.cards, ready |-> gateFile.saved, since |-> gateFile.since]
        /\ gateSync' = [f \in Flows |-> Quiet]
        /\ UNCHANGED <<gateTime, estateCard, gateFile, cardOps, turnedAway, accountMoved, slowSync>>
    BY DEF GateRestarts
  <1>2. \A v : AskedBack(v)' = AskedBack(v)
    BY <1>1 DEF AskedBack
  <1>3. /\ gateCache'.cards = gateFile.cards /\ gateCache'.since = gateFile.since
        /\ gateCache' \in [cards : SUBSET GateCards, ready : BOOLEAN, since : Int]
    BY <1>1 DEF CacheInv, CacheTypeOK, AskedBack
  <1>4. CacheTypeOK'
    BY <1>1, <1>2, <1>3 DEF CacheInv, CacheTypeOK, GateUsable
  <1>5. CopiesAreCovered'
    BY <1>1, <1>3 DEF CacheInv, CopiesAreCovered, CoveredBy, GateUsable
  <1> QED
    BY <1>1, <1>4, <1>5 DEF CacheInv, FlowsAreRight, FlowIsRight

LEMMA CacheStep == ASSUME CacheInv, [GateNext]_gateVars PROVE CacheInv'
  <1>0. gateTime \in Nat
    BY DEF CacheInv, CacheTypeOK
  <1>1. ASSUME UNCHANGED <<gateTime, cacheVars>> PROVE CacheInv'
    BY <1>0, <1>1, CacheStays
  <1>2. CASE GateTick
    BY <1>0, <1>2, CacheStays DEF GateTick
  <1>3. CASE GateCacheNext
    BY <1>2, <1>3, ChangeKeeps, HolderKeeps, StartKeeps, PageKeeps, ApplyKeeps, FailKeeps DEF GateCacheNext
  <1>4. CASE GateRestarts
    BY <1>4, RestartKeeps
  <1>5. CASE FlushNext
    BY <1>1, <1>5 DEF FlushNext, FlushStarts, BatchLeaves, FlushAccepted, FlushRefused, FlushFailed
  <1>6. CASE GateDoorNext
    BY <1>1, <1>2, <1>6 DEF GateDoorNext, handleCard, handlePin, VisitorOperation, pressExit, applyDoorCommand, service
  <1>7. CASE UNCHANGED gateVars
    BY <1>1, <1>7 DEF gateVars
  <1> QED
    BY <1>3, <1>4, <1>5, <1>6, <1>7 DEF GateNext, CacheNext, DoorNext

\* The Pi's copy, its file and every refresh under way, however refreshes overlap and
\* whenever the power is cut (syncSnapshot, applySnapshot).
THEOREM CacheInvariant == GateSpec => []CacheInv
  <1> QED
    BY CacheStarts, CacheStep, PTL DEF GateSpec

\* As long as no refresh takes a whole overlap, a delta from the point the Pi asks from
\* brings every change its copy or its file does not have (syncSnapshot's nextSince).
THEOREM GateMissesNoChange == GateSpec => []NoChangeIsMissed
  <1>1. CacheInv => NoChangeIsMissed
    BY DEF CacheInv, CopiesAreCovered, NoChangeIsMissed
  <1> QED
    BY <1>1, CacheInvariant, PTL

-----------------------------------------------------------------------------
(* The operator's run *)

Statuses == {"active", "suspended", "revoked"}
FingerRows == [person : ToolPeople, finger : Fingers, number : Int, status : Statuses]
Plans == [step : {"confirm", "retry", "cycle", "remove", "fingers", "finished"}, retries : SUBSET FailedJobs,
          removed : SUBSET ToolPeople, cycle : SUBSET ToolCards, restoring : SUBSET ToolCards,
          removal : [cards : SUBSET ToolCards, fingers : SUBSET FingerRows],
          numbers : UNION {[D -> Int] : D \in SUBSET FingerRows}, readding : SUBSET FingerRows]

ToolTypeOK ==
    /\ rows \subseteq FingerRows
    /\ cardState \in [ToolCards -> Statuses]
    /\ failedJobs \subseteq FailedJobs
    /\ disturbed \in BOOLEAN
    /\ tool \in {Ready} \cup Plans
    /\ tool \in Plans => tool.readding \subseteq DOMAIN tool.numbers

\* Every failed command is on the list of retries.
RetriesCover(t) ==
    /\ failedJobs = t.retries
    /\ t.step \notin {"confirm", "retry"} => t.retries = {}
\* What the removed people still hold is on the list of removals, and nothing puts a card of theirs back.
RemovalsCover(t) ==
    /\ \A c \in ToolCards : CardOwner[c] \in t.removed => c \in t.removal.cards \/ cardState[c] = "revoked"
    /\ \A c \in t.cycle \cup t.restoring : CardOwner[c] \notin t.removed
    /\ \A f \in rows : f.person \in t.removed /\ Live(f) => f \in t.removal.fingers
    /\ \A f \in t.removal.fingers : f.person \in t.removed /\ f \in rows
    /\ t.step \in {"fingers", "finished"} => t.removal.cards = {} /\ t.removal.fingers = {}
\* What collides is still to be renumbered, under numbers nobody has, each of its own.
NumbersCover(t) ==
    /\ Colliding(t.removed) \subseteq DOMAIN t.numbers \ t.readding
    /\ \A f, g \in t.readding : f = g
    /\ DOMAIN t.numbers \ t.readding \subseteq rows
    /\ \A f \in DOMAIN t.numbers :
          /\ f.person \notin t.removed /\ t.numbers[f] \notin UserIds
          /\ \A g \in rows : g.number # t.numbers[f]
          /\ \A g \in DOMAIN t.numbers : f # g => t.numbers[f] # t.numbers[g]
    /\ t.step = "finished" => DOMAIN t.numbers = {}

ToolInv == ToolTypeOK /\ (~disturbed /\ tool # Ready => RetriesCover(tool) /\ RemovalsCover(tool) /\ NumbersCover(tool))

LEMMA ToolStarts == ToolInit => ToolInv
  <1> SUFFICES ASSUME ToolInit PROVE ToolInv
    OBVIOUS
  <1>1. rows \subseteq FingerRows
    <2>1. rows \subseteq [person : ToolPeople, finger : Fingers, number : Nat, status : Statuses]
      BY ToolAssumption DEF ToolInit, Statuses
    <2>2. \A f \in [person : ToolPeople, finger : Fingers, number : Nat, status : Statuses] : f \in FingerRows
      BY DEF FingerRows
    <2> QED
      BY <2>1, <2>2
  <1>2. cardState \in [ToolCards -> Statuses]
    BY DEF ToolInit, Statuses
  <1>3. tool = Ready /\ tool \notin Plans
    BY DEF ToolInit, Plans, Ready
  <1> QED
    BY <1>1, <1>2, <1>3 DEF ToolInit, ToolInv, ToolTypeOK

\* A query names people of the estate.
LEMMA QueriesNamePeople == ASSUME NEW q \in DOMAIN Directory PROVE resolvePerson(q) \subseteq ToolPeople
  <1> DEFINE levels == {n \in 1 .. 4 : Directory[q][n] # {}}
             first == CHOOSE n \in levels : \A m \in levels : n <= m
  <1>1. CASE levels = {}
    BY <1>1 DEF resolvePerson
  <1>2. CASE levels # {}
    <2>1. levels \in SUBSET Nat
      OBVIOUS
    <2>2. \E n \in levels : \A m \in levels : n <= m
      BY <1>2, <2>1, LeastOf
    <2>3. first \in 1 .. 4
      BY <2>2
    <2>4. Directory[q][first] \subseteq ToolPeople
      BY <2>3, ToolAssumption
    <2> QED
      BY <2>4 DEF resolvePerson
  <1> QED
    BY <1>1, <1>2

\* The planned numbers are free, and each is planned once.
LEMMA PlannedNumbersAreFree ==
    ASSUME NEW removed, NEW numbers \in planFingerprints(removed)
    PROVE  /\ DOMAIN numbers = Colliding(removed)
           /\ \A f \in DOMAIN numbers :
                 /\ numbers[f] \in Int /\ numbers[f] \notin Taken
                 /\ \A g \in DOMAIN numbers : f # g => numbers[f] # numbers[g]
  <1> DEFINE colliding == Colliding(removed)
             fresh == FreshNumbers(Cardinality(colliding))
  <1>1. numbers \in [colliding -> fresh] /\ \A f, g \in colliding : f # g => numbers[f] # numbers[g]
    BY DEF planFingerprints
  <1>2. \A n \in fresh : n \in Int /\ n \notin Taken
    BY DEF FreshNumbers
  <1> HIDE DEF colliding, fresh
  <1>3. DOMAIN numbers = colliding
    BY <1>1
  <1> QED
    BY <1>1, <1>2, <1>3 DEF colliding

LEMMA PlanRunKeeps ==
    ASSUME ToolInv, NEW person \in DOMAIN Directory, NEW removal \in SUBSET DOMAIN Directory, PlanRun(person, removal)
    PROVE  ToolInv'
  <1>1. PICK who, removed : who = resolvePerson(person) /\ removed = UNION {resolvePerson(q) : q \in removal}
    OBVIOUS
  <1>2. /\ UNCHANGED <<rows, cardState, failedJobs>> /\ disturbed' = FALSE
        /\ \E numbers \in planFingerprints(removed) :
                tool' = [step |-> "confirm", retries |-> failedJobs, removed |-> removed,
                         cycle |-> UNION {planCycle(p) : p \in who \ removed}, restoring |-> {},
                         removal |-> planRemovals(removed),
                         numbers |-> numbers, readding |-> {}]
    BY <1>1 DEF PlanRun
  <1>3. PICK numbers \in planFingerprints(removed) :
                tool' = [step |-> "confirm", retries |-> failedJobs, removed |-> removed,
                         cycle |-> UNION {planCycle(p) : p \in who \ removed}, restoring |-> {},
                         removal |-> planRemovals(removed),
                         numbers |-> numbers, readding |-> {}]
    BY <1>2
  <1>4. PICK cycle, cards, fingers :
          /\ cycle = UNION {planCycle(p) : p \in who \ removed}
          /\ cards = {c \in ToolCards : CardOwner[c] \in removed /\ cardState[c] \in {"active", "suspended"}}
          /\ fingers = {f \in rows : f.person \in removed /\ Live(f)}
    OBVIOUS
  <1>5. PICK t : t = [step |-> "confirm", retries |-> failedJobs, removed |-> removed, cycle |-> cycle,
                      restoring |-> {}, removal |-> [cards |-> cards, fingers |-> fingers],
                      numbers |-> numbers, readding |-> {}]
    OBVIOUS
  <1>6. tool' = t
    BY <1>3, <1>4, <1>5 DEF planRemovals
  <1>7. removed \subseteq ToolPeople
    BY <1>1, QueriesNamePeople
  <1>8. cycle \subseteq ToolCards /\ \A c \in cycle : CardOwner[c] \notin removed
    BY <1>4 DEF planCycle
  <1>9. /\ rows \subseteq FingerRows /\ cardState \in [ToolCards -> Statuses] /\ failedJobs \subseteq FailedJobs
    BY DEF ToolInv, ToolTypeOK
  <1>10. /\ DOMAIN numbers = Colliding(removed)
         /\ \A f \in DOMAIN numbers :
               /\ numbers[f] \in Int /\ numbers[f] \notin Taken
               /\ \A g \in DOMAIN numbers : f # g => numbers[f] # numbers[g]
    BY PlannedNumbersAreFree
  <1>11. Colliding(removed) \subseteq rows /\ \A f \in Colliding(removed) : f.person \notin removed
    BY DEF Colliding
  <1>12. numbers \in UNION {[D -> Int] : D \in SUBSET FingerRows}
    <2>1. PICK D : D = Colliding(removed)
      OBVIOUS
    <2>2. D \in SUBSET FingerRows /\ numbers \in [D -> Int]
      <3>1. numbers \in [D -> FreshNumbers(Cardinality(D))]
        BY <2>1 DEF planFingerprints
      <3> QED
        BY <1>9, <1>10, <1>11, <2>1, <3>1
    <2> QED
      BY <2>2
  <1>13. t \in Plans
    <2>1. cards \in SUBSET ToolCards /\ fingers \in SUBSET FingerRows
      BY <1>4, <1>9
    <2>2. [cards |-> cards, fingers |-> fingers] \in [cards : SUBSET ToolCards, fingers : SUBSET FingerRows]
      BY <2>1
    <2> QED
      BY <1>5, <1>7, <1>8, <1>9, <1>12, <2>2 DEF Plans
  <1>14. ToolTypeOK'
    BY <1>2, <1>5, <1>6, <1>9, <1>13 DEF ToolTypeOK
  <1>15. RetriesCover(t)'
    BY <1>2, <1>5 DEF RetriesCover
  <1>16. RemovalsCover(t)'
    <2>1. \A c \in ToolCards : CardOwner[c] \in removed => c \in cards \/ cardState[c] = "revoked"
      BY <1>4, <1>9 DEF Statuses
    <2>2. /\ \A f \in rows : f.person \in removed /\ Live(f) => f \in fingers
          /\ \A f \in fingers : f.person \in removed /\ f \in rows
      BY <1>4
    <2>3. /\ t.removed = removed /\ t.removal.cards = cards /\ t.removal.fingers = fingers /\ t.cycle = cycle
          /\ t.restoring = {} /\ t.step = "confirm"
      BY <1>5
    <2> QED
      BY <1>2, <1>8, <2>1, <2>2, <2>3 DEF RemovalsCover, Live
  <1>17. NumbersCover(t)'
    <2>1. t.removed = removed /\ t.numbers = numbers /\ t.readding = {} /\ t.step = "confirm"
      BY <1>5
    <2>2. Colliding(removed)' = Colliding(removed)
      BY <1>2 DEF Colliding, Live
    <2>3. \A f \in DOMAIN numbers : numbers[f] \notin UserIds /\ \A g \in rows : g.number # numbers[f]
      BY <1>10 DEF Taken
    <2>4. Colliding(t.removed)' = Colliding(removed)
      BY <2>1, <2>2
    <2> QED
      BY <1>2, <1>10, <1>11, <2>1, <2>3, <2>4 DEF NumbersCover
  <1> QED
    BY <1>6, <1>14, <1>15, <1>16, <1>17 DEF ToolInv, RetriesCover, RemovalsCover, NumbersCover

\* A run that stops, or one that somebody disturbed, has only its types to keep.
LEMMA RunStops == ASSUME ToolTypeOK', tool' = Ready \/ disturbed' PROVE ToolInv'
  BY DEF ToolInv

\* What the run had planned is still right when a step leaves the estate's side alone.
LEMMA CollisionsStay == ASSUME UNCHANGED rows PROVE \A r : Colliding(r)' = Colliding(r)
  BY DEF Colliding, Live

\* The run goes on to another task, and nothing else moves.
LEMMA PlanGoesOn ==
    ASSUME ToolInv, NEW t \in Plans, tool = t, NEW u \in Plans, tool' = u,
           UNCHANGED <<rows, cardState, failedJobs, disturbed>>,
           /\ u.retries = t.retries /\ u.removed = t.removed /\ u.cycle = t.cycle
           /\ u.restoring = t.restoring /\ u.removal = t.removal /\ u.numbers = t.numbers /\ u.readding = t.readding,
           u.step \notin {"confirm", "retry"} => t.retries = {} \/ t.step \notin {"confirm", "retry"},
           u.step \in {"fingers", "finished"} =>
              \/ t.removal.cards = {} /\ t.removal.fingers = {}
              \/ t.step \in {"fingers", "finished"},
           u.step = "finished" => DOMAIN t.numbers = {}
    PROVE  ToolInv'
  <1>1. ToolTypeOK'
    BY DEF ToolInv, ToolTypeOK
  <1>2. CASE disturbed
    BY <1>1, <1>2, RunStops
  <1>3. CASE ~disturbed
    <2>1. t # Ready
      BY DEF Plans, Ready
    <2>2. RetriesCover(t) /\ RemovalsCover(t) /\ NumbersCover(t)
      BY <1>3, <2>1 DEF ToolInv
    <2>3. RetriesCover(u)'
      BY <2>2 DEF RetriesCover
    <2>4. RemovalsCover(u)'
      BY <2>2 DEF RemovalsCover, Live
    <2>5. NumbersCover(u)'
      BY <2>2, CollisionsStay DEF NumbersCover
    <2> QED
      BY <1>1, <2>3, <2>4, <2>5 DEF ToolInv, RetriesCover, RemovalsCover, NumbersCover
  <1> QED
    BY <1>2, <1>3 DEF ToolInv, ToolTypeOK

LEMMA ConfirmKeeps == ASSUME ToolInv, NEW execute \in BOOLEAN, Confirm(execute) PROVE ToolInv'
  <1>1. tool.step = "confirm" /\ UNCHANGED <<rows, cardState, failedJobs, disturbed>>
    BY DEF Confirm
  <1>2. tool \in Plans
    BY <1>1 DEF ToolInv, ToolTypeOK, Ready
  <1>3. CASE tool' = Ready
    <2>1. ToolTypeOK'
      BY <1>1, <1>3 DEF ToolInv, ToolTypeOK, Plans, Ready
    <2> QED
      BY <1>3, <2>1, RunStops
  <1>4. CASE tool' = [tool EXCEPT !.step = "retry"]
    <2>1. PICK t, u : t = tool /\ u = [t EXCEPT !.step = "retry"]
      OBVIOUS
    <2>2. /\ u \in Plans /\ u.step = "retry" /\ u.retries = t.retries /\ u.removed = t.removed /\ u.cycle = t.cycle
          /\ u.restoring = t.restoring /\ u.removal = t.removal /\ u.numbers = t.numbers /\ u.readding = t.readding
      BY <1>2, <2>1 DEF Plans
    <2>3. tool' = u
      BY <1>4, <2>1
    <2> QED
      BY <1>1, <1>2, <2>1, <2>2, <2>3, PlanGoesOn
  <1> QED
    BY <1>3, <1>4 DEF Confirm

LEMMA NextTaskKeeps == ASSUME ToolInv, NextTask PROVE ToolInv'
  <1>1. tool' # tool /\ UNCHANGED <<rows, cardState, failedJobs, disturbed>>
    BY DEF NextTask
  <1>2. tool \in {Ready} \cup Plans
    BY DEF ToolInv, ToolTypeOK
  <1>3. PICK t : t = tool
    OBVIOUS
  <1>4. \E step \in {"cycle", "remove", "fingers", "finished"} :
          /\ tool' = [t EXCEPT !.step = step]
          /\ t.step \in {"retry", "cycle", "remove", "fingers"}
          /\ step = "cycle" => t.step = "retry" /\ t.retries = {}
          /\ step = "remove" => t.step = "cycle"
          /\ step = "fingers" => t.step = "remove" /\ t.removal.cards = {} /\ t.removal.fingers = {}
          /\ step = "finished" => t.step = "fingers" /\ DOMAIN t.numbers = {}
    <2>1. CASE t.step = "retry" /\ t.retries = {}
      BY <1>3, <2>1 DEF NextTask
    <2>2. CASE t.step = "cycle" /\ t.cycle \cup t.restoring = {}
      BY <1>3, <2>2 DEF NextTask
    <2>3. CASE t.step = "remove" /\ t.removal.cards = {} /\ t.removal.fingers = {}
      BY <1>3, <2>3 DEF NextTask
    <2>4. CASE t.step = "fingers" /\ DOMAIN t.numbers = {}
      BY <1>3, <2>4 DEF NextTask
    <2> QED
      BY <1>1, <1>3, <2>1, <2>2, <2>3, <2>4 DEF NextTask
  <1>5. PICK step \in {"cycle", "remove", "fingers", "finished"} :
          /\ tool' = [t EXCEPT !.step = step]
          /\ t.step \in {"retry", "cycle", "remove", "fingers"}
          /\ step = "cycle" => t.step = "retry" /\ t.retries = {}
          /\ step = "remove" => t.step = "cycle"
          /\ step = "fingers" => t.step = "remove" /\ t.removal.cards = {} /\ t.removal.fingers = {}
          /\ step = "finished" => t.step = "fingers" /\ DOMAIN t.numbers = {}
    BY <1>4
  <1>6. t \in Plans
    BY <1>2, <1>3, <1>5 DEF Ready
  <1>7. PICK u : u = [t EXCEPT !.step = step]
    OBVIOUS
  <1>8. /\ u \in Plans /\ u.step = step /\ u.retries = t.retries /\ u.removed = t.removed /\ u.cycle = t.cycle
        /\ u.restoring = t.restoring /\ u.removal = t.removal /\ u.numbers = t.numbers /\ u.readding = t.readding
    BY <1>6, <1>7 DEF Plans
  <1> QED
    BY <1>1, <1>3, <1>5, <1>6, <1>7, <1>8, PlanGoesOn

LEMMA RetriesKeep == ASSUME ToolInv, runRetries PROVE ToolInv'
  <1>1. tool.step = "retry" /\ UNCHANGED <<rows, cardState, disturbed>>
    BY DEF runRetries
  <1>2. PICK t : t = tool
    OBVIOUS
  <1>3. t \in Plans
    BY <1>1, <1>2 DEF ToolInv, ToolTypeOK, Ready
  <1>4. PICK j \in t.retries : Call(failedJobs' = failedJobs \ {j}, UNCHANGED failedJobs,
                                    [t EXCEPT !.retries = @ \ {j}], {})
    BY <1>2 DEF runRetries
  <1>5. failedJobs' \subseteq FailedJobs
    BY <1>4 DEF Call, ToolInv, ToolTypeOK
  <1>6. CASE tool' = Ready
    <2>1. ToolTypeOK'
      BY <1>1, <1>5, <1>6 DEF ToolInv, ToolTypeOK, Plans, Ready
    <2> QED
      BY <1>6, <2>1, RunStops
  <1>7. CASE failedJobs' = failedJobs \ {j} /\ tool' = [t EXCEPT !.retries = @ \ {j}]
    <2>1. PICK u : u = [t EXCEPT !.retries = t.retries \ {j}]
      OBVIOUS
    <2>2. /\ u \in Plans /\ u.step = t.step /\ u.retries = t.retries \ {j} /\ u.removed = t.removed /\ u.cycle = t.cycle
          /\ u.restoring = t.restoring /\ u.removal = t.removal /\ u.numbers = t.numbers /\ u.readding = t.readding
      BY <1>3, <2>1 DEF Plans
    <2>3. tool' = u
      BY <1>7, <2>1
    <2>4. ToolTypeOK'
      BY <1>1, <1>2, <1>3, <1>5, <2>2, <2>3 DEF ToolInv, ToolTypeOK
    <2>5. CASE ~disturbed
      <3>1. RetriesCover(t) /\ RemovalsCover(t) /\ NumbersCover(t)
        BY <1>2, <1>3, <2>5 DEF ToolInv, Plans, Ready
      <3>2. RetriesCover(u)'
        BY <1>2, <1>1, <1>7, <2>2, <3>1 DEF RetriesCover
      <3>3. RemovalsCover(u)'
        BY <1>1, <2>2, <3>1 DEF RemovalsCover, Live
      <3>4. NumbersCover(u)'
        BY <1>1, <2>2, <3>1, CollisionsStay DEF NumbersCover
      <3> QED
        BY <2>3, <2>4, <3>2, <3>3, <3>4 DEF ToolInv, RetriesCover, RemovalsCover, NumbersCover
    <2>6. CASE disturbed
      BY <1>1, <2>4, <2>6, RunStops
    <2> QED
      BY <2>5, <2>6 DEF ToolInv, ToolTypeOK
  <1> QED
    BY <1>4, <1>6, <1>7 DEF Call

\* A card changes as the run asks for.
LEMMA PatchTypes ==
    ASSUME ToolInv, NEW c \in ToolCards, NEW s \in Statuses, PatchCard(c, s) \/ UNCHANGED cardState
    PROVE  cardState' \in [ToolCards -> Statuses]
  BY DEF ToolInv, ToolTypeOK, PatchCard

LEMMA CycleKeeps == ASSUME ToolInv, runCycle PROVE ToolInv'
  <1>1. tool.step = "cycle" /\ UNCHANGED <<rows, failedJobs, disturbed>>
    BY DEF runCycle
  <1>2. PICK t : t = tool
    OBVIOUS
  <1>3. t \in Plans
    BY <1>1, <1>2 DEF ToolInv, ToolTypeOK, Ready
  <1>4. \E c \in t.cycle \cup t.restoring, s \in {"active", "suspended"} :
          \E u \in {[t EXCEPT !.restoring = {}], [t EXCEPT !.cycle = @ \ {c}, !.restoring = {c}]} :
             Call(PatchCard(c, s), UNCHANGED cardState, u, {<<"card", c>>})
    BY <1>2 DEF runCycle
  <1>5. PICK c \in t.cycle \cup t.restoring, s \in {"active", "suspended"} :
          \E u \in {[t EXCEPT !.restoring = {}], [t EXCEPT !.cycle = @ \ {c}, !.restoring = {c}]} :
             Call(PatchCard(c, s), UNCHANGED cardState, u, {<<"card", c>>})
    BY <1>4
  <1>6. PICK u \in {[t EXCEPT !.restoring = {}], [t EXCEPT !.cycle = @ \ {c}, !.restoring = {c}]} :
             Call(PatchCard(c, s), UNCHANGED cardState, u, {<<"card", c>>})
    BY <1>5
  <1>7. c \in ToolCards
    BY <1>3 DEF Plans
  <1>8. /\ u \in Plans /\ u.step = t.step /\ u.retries = t.retries /\ u.removed = t.removed
        /\ u.cycle \cup u.restoring \subseteq t.cycle \cup t.restoring
        /\ u.removal = t.removal /\ u.numbers = t.numbers /\ u.readding = t.readding
    <2>1. CASE u = [t EXCEPT !.restoring = {}]
      BY <1>3, <2>1 DEF Plans
    <2>2. CASE u = [t EXCEPT !.cycle = t.cycle \ {c}, !.restoring = {c}]
      <3>1. /\ u \in Plans /\ u.step = t.step /\ u.retries = t.retries /\ u.removed = t.removed
            /\ u.cycle = t.cycle \ {c} /\ u.restoring = {c}
            /\ u.removal = t.removal /\ u.numbers = t.numbers /\ u.readding = t.readding
        BY <1>3, <1>7, <2>2 DEF Plans
      <3> QED
        BY <3>1
    <2> QED
      BY <1>6, <2>1, <2>2
  <1>9. cardState' \in [ToolCards -> Statuses]
    BY <1>6, <1>7, PatchTypes DEF Call, Statuses
  <1>10. CASE tool' = Ready
    <2>1. ToolTypeOK'
      BY <1>1, <1>9, <1>10 DEF ToolInv, ToolTypeOK, Plans, Ready
    <2> QED
      BY <1>10, <2>1, RunStops
  <1>11. CASE PatchCard(c, s) /\ tool' = u
    <2>1. ToolTypeOK'
      BY <1>1, <1>2, <1>3, <1>8, <1>9, <1>11 DEF ToolInv, ToolTypeOK
    <2>2. CASE ~disturbed
      <3>1. RetriesCover(t) /\ RemovalsCover(t) /\ NumbersCover(t)
        BY <1>2, <1>3, <2>2 DEF ToolInv, Plans, Ready
      <3>2. RetriesCover(u)'
        BY <1>1, <1>8, <3>1 DEF RetriesCover
      <3>3. CardOwner[c] \notin t.removed
        BY <1>5, <3>1 DEF RemovalsCover
      <3>4. \A d \in ToolCards : d # c => cardState'[d] = cardState[d]
        BY <1>11 DEF PatchCard, ToolInv, ToolTypeOK
      <3>5. RemovalsCover(u)'
        BY <1>1, <1>8, <3>1, <3>3, <3>4 DEF RemovalsCover, Live
      <3>6. NumbersCover(u)'
        BY <1>1, <1>8, <3>1, CollisionsStay DEF NumbersCover
      <3> QED
        BY <1>11, <2>1, <3>2, <3>5, <3>6 DEF ToolInv, RetriesCover, RemovalsCover, NumbersCover
    <2>3. CASE disturbed
      BY <1>1, <2>1, <2>3, RunStops
    <2> QED
      BY <2>2, <2>3
  <1> QED
    BY <1>6, <1>10, <1>11 DEF Call

\* A deletion leaves a revoked row under the same number, and no new collision.
LEMMA DeletionRevokes ==
    ASSUME rows \subseteq FingerRows, NEW f \in FingerRows, DeleteFinger(f)
    PROVE  /\ rows' \subseteq FingerRows
           /\ \A g \in rows : g # f => g \in rows'
           /\ \A g \in rows' : Live(g) => g \in rows /\ g # f
           /\ f \in rows => \A g \in rows' : \E h \in rows : h.number = g.number /\ h.person = g.person
           /\ f \in rows => \A r : Colliding(r)' \subseteq Colliding(r) \ {f}
  <1>1. PICK revoked : revoked = [f EXCEPT !.status = "revoked"]
    OBVIOUS
  <1>2. /\ revoked \in FingerRows /\ revoked.number = f.number /\ revoked.person = f.person
        /\ revoked.status = "revoked"
    BY <1>1 DEF FingerRows, Statuses
  <1>3. rows' = (rows \ {f}) \cup {revoked}
    BY <1>1 DEF DeleteFinger
  <1>4. ~Live(revoked)
    BY <1>2 DEF Live
  <1>5. \A g \in rows' : Live(g) => g \in rows /\ g # f
    BY <1>3, <1>4
  <1>6. f \in rows => \A g \in rows' : \E h \in rows : h.number = g.number /\ h.person = g.person
    BY <1>2, <1>3
  <1>7. ASSUME f \in rows, NEW r, NEW g \in Colliding(r)' PROVE g \in Colliding(r) \ {f}
    <2>1. g \in rows' /\ Live(g) /\ g.person \notin r
      BY <1>7 DEF Colliding, Live
    <2>2. g \in rows /\ g # f
      BY <1>5, <2>1
    <2>3. g.number \in UserIds \/ \E h \in rows : h.number = g.number /\ h.person # g.person
      <3>1. g.number \in UserIds \/ \E h \in rows' : h.number = g.number /\ h.person # g.person
        BY <1>7 DEF Colliding
      <3> QED
        BY <1>6, <1>7, <3>1
    <2> QED
      BY <2>1, <2>2, <2>3 DEF Colliding
  <1> QED
    BY <1>2, <1>3, <1>5, <1>6, <1>7

LEMMA CardRemovalKeeps ==
    ASSUME ToolInv, tool.step = "remove", UNCHANGED <<rows, failedJobs, disturbed>>, NEW c \in tool.removal.cards,
           Call(PatchCard(c, "revoked"), UNCHANGED cardState, [tool EXCEPT !.removal.cards = @ \ {c}], {})
    PROVE  ToolInv'
  <1>1. PICK t : t = tool
    OBVIOUS
  <1>2. t \in Plans /\ t.step = "remove"
    BY <1>1 DEF ToolInv, ToolTypeOK, Ready
  <1>3. PICK u : u = [t EXCEPT !.removal.cards = t.removal.cards \ {c}]
    OBVIOUS
  <1>4. /\ u \in Plans /\ u.step = t.step /\ u.retries = t.retries /\ u.removed = t.removed /\ u.cycle = t.cycle
        /\ u.restoring = t.restoring /\ u.numbers = t.numbers /\ u.readding = t.readding
        /\ u.removal.cards = t.removal.cards \ {c} /\ u.removal.fingers = t.removal.fingers
    BY <1>2, <1>3 DEF Plans
  <1>5. c \in ToolCards
    BY <1>1, <1>2 DEF Plans
  <1>6. Call(PatchCard(c, "revoked"), UNCHANGED cardState, u, {})
    BY <1>1, <1>3
  <1>7. cardState' \in [ToolCards -> Statuses]
    BY <1>5, <1>6, PatchTypes DEF Call, Statuses
  <1>8. CASE tool' = Ready
    <2>1. ToolTypeOK'
      BY <1>7, <1>8 DEF ToolInv, ToolTypeOK, Plans, Ready
    <2> QED
      BY <1>8, <2>1, RunStops
  <1>9. CASE PatchCard(c, "revoked") /\ tool' = u
    <2>1. ToolTypeOK'
      BY <1>1, <1>2, <1>4, <1>7, <1>9 DEF ToolInv, ToolTypeOK
    <2>2. CASE ~disturbed
      <3>1. RetriesCover(t) /\ RemovalsCover(t) /\ NumbersCover(t)
        BY <1>1, <1>2, <2>2 DEF ToolInv, Plans, Ready
      <3>2. RetriesCover(u)'
        BY <1>4, <3>1 DEF RetriesCover
      <3>3. \A d \in ToolCards : cardState'[d] = IF d = c THEN "revoked" ELSE cardState[d]
        BY <1>5, <1>9 DEF PatchCard, ToolInv, ToolTypeOK
      <3>4. RemovalsCover(u)'
        BY <1>2, <1>4, <3>1, <3>3 DEF RemovalsCover, Live
      <3>5. NumbersCover(u)'
        BY <1>4, <3>1, CollisionsStay DEF NumbersCover
      <3> QED
        BY <1>9, <2>1, <3>2, <3>4, <3>5 DEF ToolInv, RetriesCover, RemovalsCover, NumbersCover
    <2>3. CASE disturbed
      BY <2>1, <2>3, RunStops
    <2> QED
      BY <2>2, <2>3 DEF ToolInv, ToolTypeOK
  <1> QED
    BY <1>6, <1>8, <1>9 DEF Call

LEMMA FingerRemovalKeeps ==
    ASSUME ToolInv, tool.step = "remove", UNCHANGED <<cardState, failedJobs, disturbed>>,
           NEW f \in tool.removal.fingers,
           Call(DeleteFinger(f), UNCHANGED rows, [tool EXCEPT !.removal.fingers = @ \ {f}], {})
    PROVE  ToolInv'
  <1>1. PICK t : t = tool
    OBVIOUS
  <1>2. t \in Plans /\ t.step = "remove"
    BY <1>1 DEF ToolInv, ToolTypeOK, Ready
  <1>3. PICK u : u = [t EXCEPT !.removal.fingers = t.removal.fingers \ {f}]
    OBVIOUS
  <1>4. /\ u \in Plans /\ u.step = t.step /\ u.retries = t.retries /\ u.removed = t.removed /\ u.cycle = t.cycle
        /\ u.restoring = t.restoring /\ u.numbers = t.numbers /\ u.readding = t.readding
        /\ u.removal.cards = t.removal.cards /\ u.removal.fingers = t.removal.fingers \ {f}
    BY <1>2, <1>3 DEF Plans
  <1>5. f \in FingerRows /\ rows \subseteq FingerRows
    BY <1>1, <1>2 DEF Plans, ToolInv, ToolTypeOK
  <1>6. Call(DeleteFinger(f), UNCHANGED rows, u, {})
    BY <1>1, <1>3
  <1>7. rows' \subseteq FingerRows
    BY <1>5, <1>6, DeletionRevokes DEF Call
  <1>8. CASE tool' = Ready
    <2>1. ToolTypeOK'
      BY <1>7, <1>8 DEF ToolInv, ToolTypeOK, Plans, Ready
    <2> QED
      BY <1>8, <2>1, RunStops
  <1>9. CASE DeleteFinger(f) /\ tool' = u
    <2>1. ToolTypeOK'
      BY <1>1, <1>2, <1>4, <1>7, <1>9 DEF ToolInv, ToolTypeOK
    <2>2. CASE ~disturbed
      <3>1. RetriesCover(t) /\ RemovalsCover(t) /\ NumbersCover(t)
        BY <1>1, <1>2, <2>2 DEF ToolInv, Plans, Ready
      <3>2. RetriesCover(u)'
        BY <1>4, <3>1 DEF RetriesCover
      <3>3. f \in rows /\ f.person \in t.removed
        BY <1>1, <3>1 DEF RemovalsCover
      <3>4. /\ \A g \in rows : g # f => g \in rows'
            /\ \A g \in rows' : Live(g) => g \in rows /\ g # f
            /\ \A g \in rows' : \E h \in rows : h.number = g.number /\ h.person = g.person
            /\ \A r : Colliding(r)' \subseteq Colliding(r) \ {f}
        BY <1>5, <1>9, <3>3, DeletionRevokes
      <3>5. RemovalsCover(u)'
        <4>1. \A g \in rows' : g.person \in u.removed /\ Live(g) => g \in u.removal.fingers
          BY <1>4, <3>1, <3>4 DEF RemovalsCover
        <4>2. \A g \in u.removal.fingers : g.person \in u.removed /\ g \in rows'
          BY <1>4, <3>1, <3>4 DEF RemovalsCover
        <4> QED
          BY <1>2, <1>4, <3>1, <4>1, <4>2 DEF RemovalsCover, Live
      <3>6. NumbersCover(u)'
        <4>1. Colliding(u.removed)' \subseteq DOMAIN u.numbers \ u.readding
          BY <1>4, <3>1, <3>4 DEF NumbersCover
        <4>2. DOMAIN u.numbers \ u.readding \subseteq rows'
          BY <1>4, <3>1, <3>3, <3>4 DEF NumbersCover
        <4>3. \A h \in DOMAIN u.numbers : \A g \in rows' : g.number # u.numbers[h]
          BY <1>4, <3>1, <3>4 DEF NumbersCover
        <4> QED
          BY <1>4, <3>1, <4>1, <4>2, <4>3 DEF NumbersCover
      <3> QED
        BY <1>9, <2>1, <3>2, <3>5, <3>6 DEF ToolInv, RetriesCover, RemovalsCover, NumbersCover
    <2>3. CASE disturbed
      BY <2>1, <2>3, RunStops
    <2> QED
      BY <2>2, <2>3 DEF ToolInv, ToolTypeOK
  <1> QED
    BY <1>6, <1>8, <1>9 DEF Call

LEMMA RenumberingDeletes ==
    ASSUME ToolInv, tool.step = "fingers", tool.readding = {}, UNCHANGED <<cardState, failedJobs, disturbed>>,
           NEW f \in DOMAIN tool.numbers,
           Call(DeleteFinger(f), UNCHANGED rows, [tool EXCEPT !.readding = {f}], {<<"finger", f.person, f.finger>>})
    PROVE  ToolInv'
  <1>1. PICK t : t = tool
    OBVIOUS
  <1>2. t \in Plans /\ t.step = "fingers"
    BY <1>1 DEF ToolInv, ToolTypeOK, Ready
  <1>5. f \in FingerRows /\ rows \subseteq FingerRows
    <2>1. PICK D \in SUBSET FingerRows : t.numbers \in [D -> Int]
      BY <1>2 DEF Plans
    <2> QED
      BY <1>1, <2>1 DEF ToolInv, ToolTypeOK
  <1>3. PICK u : u = [t EXCEPT !.readding = {f}]
    OBVIOUS
  <1>4. /\ u \in Plans /\ u.step = t.step /\ u.retries = t.retries /\ u.removed = t.removed /\ u.cycle = t.cycle
        /\ u.restoring = t.restoring /\ u.numbers = t.numbers /\ u.readding = {f} /\ u.removal = t.removal
    BY <1>2, <1>3, <1>5 DEF Plans
  <1>6. Call(DeleteFinger(f), UNCHANGED rows, u, {<<"finger", f.person, f.finger>>})
    BY <1>1, <1>3
  <1>7. rows' \subseteq FingerRows
    BY <1>5, <1>6, DeletionRevokes DEF Call
  <1>8. CASE tool' = Ready
    <2>1. ToolTypeOK'
      BY <1>7, <1>8 DEF ToolInv, ToolTypeOK, Plans, Ready
    <2> QED
      BY <1>8, <2>1, RunStops
  <1>9. CASE DeleteFinger(f) /\ tool' = u
    <2>1. ToolTypeOK'
      BY <1>1, <1>2, <1>4, <1>7, <1>9 DEF ToolInv, ToolTypeOK
    <2>2. CASE ~disturbed
      <3>1. RetriesCover(t) /\ RemovalsCover(t) /\ NumbersCover(t)
        BY <1>1, <1>2, <2>2 DEF ToolInv, Plans, Ready
      <3>2. RetriesCover(u)'
        BY <1>4, <3>1 DEF RetriesCover
      <3>3. f \in rows /\ f \in DOMAIN t.numbers /\ f.person \notin t.removed
        BY <1>1, <3>1 DEF NumbersCover
      <3>4. /\ \A g \in rows : g # f => g \in rows'
            /\ \A g \in rows' : Live(g) => g \in rows /\ g # f
            /\ \A g \in rows' : \E h \in rows : h.number = g.number /\ h.person = g.person
            /\ \A r : Colliding(r)' \subseteq Colliding(r) \ {f}
        BY <1>5, <1>9, <3>3, DeletionRevokes
      <3>5. RemovalsCover(u)'
        <4>1. \A g \in rows' : g.person \in u.removed /\ Live(g) => g \in u.removal.fingers
          BY <1>4, <3>1, <3>4 DEF RemovalsCover
        <4>2. u.removal.cards = {} /\ u.removal.fingers = {}
          BY <1>2, <1>4, <3>1 DEF RemovalsCover
        <4> QED
          BY <1>4, <3>1, <4>1, <4>2 DEF RemovalsCover, Live
      <3>6. NumbersCover(u)'
        <4>1. Colliding(u.removed)' \subseteq DOMAIN u.numbers \ u.readding
          BY <1>4, <3>1, <3>4 DEF NumbersCover
        <4>2. DOMAIN u.numbers \ u.readding \subseteq rows'
          BY <1>1, <1>4, <3>1, <3>4 DEF NumbersCover
        <4>3. \A h \in DOMAIN u.numbers : \A g \in rows' : g.number # u.numbers[h]
          BY <1>4, <3>1, <3>4 DEF NumbersCover
        <4> QED
          BY <1>2, <1>4, <3>1, <4>1, <4>2, <4>3 DEF NumbersCover
      <3> QED
        BY <1>9, <2>1, <3>2, <3>5, <3>6 DEF ToolInv, RetriesCover, RemovalsCover, NumbersCover
    <2>3. CASE disturbed
      BY <2>1, <2>3, RunStops
    <2> QED
      BY <2>2, <2>3 DEF ToolInv, ToolTypeOK
  <1> QED
    BY <1>6, <1>8, <1>9 DEF Call

\* A row is added under a number of its type.
LEMMA AdditionTypes ==
    ASSUME rows \subseteq FingerRows, NEW p \in ToolPeople, NEW finger \in Fingers, NEW n \in Int,
           AddFinger(p, finger, n) \/ UNCHANGED rows
    PROVE  rows' \subseteq FingerRows
  <1>1. CASE AddFinger(p, finger, n)
    <2>1. PICK new : new = [person |-> p, finger |-> finger, number |-> n, status |-> "active"]
      OBVIOUS
    <2>2. new \in FingerRows /\ rows' = rows \cup {new}
      BY <1>1, <2>1 DEF AddFinger, FingerRows, Statuses
    <2> QED
      BY <2>2
  <1> QED
    BY <1>1

LEMMA RenumberingAdds ==
    ASSUME ToolInv, tool.step = "fingers", UNCHANGED <<cardState, failedJobs, disturbed>>,
           NEW f \in tool.readding,
           Call(AddFinger(f.person, f.finger, tool.numbers[f]), UNCHANGED rows,
                [tool EXCEPT !.readding = {},
                     !.numbers = [g \in DOMAIN tool.numbers \ {f} |-> tool.numbers[g]]],
                {<<"finger", f.person, f.finger>>})
    PROVE  ToolInv'
  <1>1. PICK t : t = tool
    OBVIOUS
  <1>2. t \in Plans /\ t.step = "fingers"
    BY <1>1 DEF ToolInv, ToolTypeOK, Ready
  <1>3. PICK D \in SUBSET FingerRows : t.numbers \in [D -> Int]
    BY <1>2 DEF Plans
  <1>4. PICK rest : rest = [g \in D \ {f} |-> t.numbers[g]]
    OBVIOUS
  <1>5. /\ DOMAIN t.numbers = D /\ f \in D /\ rest \in [D \ {f} -> Int] /\ DOMAIN rest = D \ {f}
        /\ \A g \in DOMAIN rest : rest[g] = t.numbers[g]
    <2>1. t.readding \subseteq DOMAIN t.numbers
      BY <1>1, <1>2 DEF ToolInv, ToolTypeOK
    <2> QED
      BY <1>1, <1>3, <1>4, <2>1
  <1>6. rest \in UNION {[E -> Int] : E \in SUBSET FingerRows}
    BY <1>3, <1>5
  <1>7. PICK u : u = [t EXCEPT !.readding = {}, !.numbers = rest]
    OBVIOUS
  <1>8. /\ u \in Plans /\ u.step = t.step /\ u.retries = t.retries /\ u.removed = t.removed /\ u.cycle = t.cycle
        /\ u.restoring = t.restoring /\ u.numbers = rest /\ u.readding = {} /\ u.removal = t.removal
    BY <1>2, <1>6, <1>7 DEF Plans
  <1>9. PICK p, finger, n : p = f.person /\ finger = f.finger /\ n = t.numbers[f]
    OBVIOUS
  <1>10. p \in ToolPeople /\ finger \in Fingers /\ n \in Int
    BY <1>3, <1>5, <1>9 DEF FingerRows
  <1>11. Call(AddFinger(p, finger, n), UNCHANGED rows, u, {<<"finger", f.person, f.finger>>})
    BY <1>1, <1>4, <1>5, <1>7, <1>9
  <1>12. rows' \subseteq FingerRows
    BY <1>10, <1>11, AdditionTypes DEF Call, ToolInv, ToolTypeOK
  <1>13. CASE tool' = Ready
    <2>1. ToolTypeOK'
      BY <1>12, <1>13 DEF ToolInv, ToolTypeOK, Plans, Ready
    <2> QED
      BY <1>13, <2>1, RunStops
  <1>14. CASE AddFinger(p, finger, n) /\ tool' = u
    <2>1. ToolTypeOK'
      BY <1>1, <1>2, <1>8, <1>12, <1>14 DEF ToolInv, ToolTypeOK
    <2>2. CASE ~disturbed
      <3>1. RetriesCover(t) /\ RemovalsCover(t) /\ NumbersCover(t)
        BY <1>1, <1>2, <2>2 DEF ToolInv, Plans, Ready
      <3>2. RetriesCover(u)'
        BY <1>8, <3>1 DEF RetriesCover
      <3>3. PICK new : new = [person |-> p, finger |-> finger, number |-> n, status |-> "active"]
        OBVIOUS
      <3>4. rows' = rows \cup {new} /\ new.person = p /\ new.number = n
        BY <1>14, <3>3 DEF AddFinger
      <3>5. p \notin t.removed /\ n \notin UserIds /\ \A g \in rows : g.number # n
        BY <1>5, <1>9, <3>1 DEF NumbersCover
      <3>6. RemovalsCover(u)'
        <4>1. \A g \in rows' : g.person \in u.removed /\ Live(g) => g \in u.removal.fingers
          BY <1>8, <3>1, <3>4, <3>5 DEF RemovalsCover
        <4>2. \A g \in u.removal.fingers : g.person \in u.removed /\ g \in rows'
          BY <1>8, <3>1, <3>4 DEF RemovalsCover
        <4> QED
          BY <1>8, <3>1, <4>1, <4>2 DEF RemovalsCover, Live
      <3>7. Colliding(t.removed)' \subseteq Colliding(t.removed)
        <4> SUFFICES ASSUME NEW g \in Colliding(t.removed)' PROVE g \in Colliding(t.removed)
          OBVIOUS
        <4>1. g \in rows' /\ Live(g) /\ g.person \notin t.removed
          BY DEF Colliding, Live
        <4>2. g.number \in UserIds \/ \E h \in rows' : h.number = g.number /\ h.person # g.person
          BY DEF Colliding
        <4>3. g # new
          BY <3>4, <3>5, <4>2
        <4>4. g.number \in UserIds \/ \E h \in rows : h.number = g.number /\ h.person # g.person
          BY <3>4, <3>5, <4>1, <4>2, <4>3
        <4> QED
          BY <3>4, <4>1, <4>3, <4>4 DEF Colliding
      <3>8. NumbersCover(u)'
        <4>1. Colliding(u.removed)' \subseteq DOMAIN u.numbers \ u.readding
          <5>1. Colliding(t.removed) \subseteq D \ t.readding
            BY <1>5, <3>1 DEF NumbersCover
          <5>2. Colliding(t.removed)' \subseteq D \ {f}
            BY <1>1, <3>7, <5>1
          <5> QED
            BY <1>5, <1>8, <5>2
        <4>2. DOMAIN u.numbers \ u.readding \subseteq rows'
          <5>1. t.readding = {f}
            BY <1>1, <3>1 DEF NumbersCover
          <5> QED
            BY <1>5, <1>8, <3>1, <3>4, <5>1 DEF NumbersCover
        <4>3. \A h \in DOMAIN u.numbers : \A g \in rows' : g.number # u.numbers[h]
          <5> SUFFICES ASSUME NEW h \in D \ {f}, NEW g \in rows' PROVE g.number # t.numbers[h]
            BY <1>5, <1>8
          <5>1. t.numbers[h] # t.numbers[f]
            BY <1>5, <3>1 DEF NumbersCover
          <5>2. g \in rows => g.number # t.numbers[h]
            BY <1>5, <3>1 DEF NumbersCover
          <5> QED
            BY <1>9, <3>4, <5>1, <5>2
        <4>4. \A h \in DOMAIN u.numbers :
                 /\ h.person \notin u.removed /\ u.numbers[h] \notin UserIds
                 /\ \A g \in DOMAIN u.numbers : h # g => u.numbers[h] # u.numbers[g]
          BY <1>5, <1>8, <3>1 DEF NumbersCover
        <4> QED
          BY <1>2, <1>8, <4>1, <4>2, <4>3, <4>4 DEF NumbersCover
      <3> QED
        BY <1>14, <2>1, <3>2, <3>6, <3>8 DEF ToolInv, RetriesCover, RemovalsCover, NumbersCover
    <2>3. CASE disturbed
      BY <2>1, <2>3, RunStops
    <2> QED
      BY <2>2, <2>3 DEF ToolInv, ToolTypeOK
  <1> QED
    BY <1>11, <1>13, <1>14 DEF Call

LEMMA FingerprintsKeep == ASSUME ToolInv, runFingerprints PROVE ToolInv'
  <1>1. tool.step = "fingers" /\ UNCHANGED <<cardState, failedJobs, disturbed>>
    BY DEF runFingerprints
  <1>2. CASE tool.readding # {}
    <2>1. PICK f \in tool.readding :
              \/ Call(AddFinger(f.person, f.finger, tool.numbers[f]), UNCHANGED rows,
                      [tool EXCEPT !.readding = {},
                           !.numbers = [g \in DOMAIN tool.numbers \ {f} |-> tool.numbers[g]]],
                      {<<"finger", f.person, f.finger>>})
              \/ tool' = Ready /\ UNCHANGED rows
      BY <1>2 DEF runFingerprints
    <2>2. CASE tool' = Ready /\ UNCHANGED rows
      <3>1. ToolTypeOK'
        BY <1>1, <2>2 DEF ToolInv, ToolTypeOK, Plans, Ready
      <3> QED
        BY <2>2, <3>1, RunStops
    <2> QED
      BY <1>1, <2>1, <2>2, RenumberingAdds
  <1>3. CASE tool.readding = {}
    <2>1. PICK f \in DOMAIN tool.numbers :
              Call(DeleteFinger(f), UNCHANGED rows, [tool EXCEPT !.readding = {f}],
                   {<<"finger", f.person, f.finger>>})
      BY <1>3 DEF runFingerprints
    <2> QED
      BY <1>1, <1>3, <2>1, RenumberingDeletes
  <1> QED
    BY <1>2, <1>3

LEMMA RemovalsKeep == ASSUME ToolInv, runRemovals PROVE ToolInv'
  <1>1. tool.step = "remove" /\ UNCHANGED <<failedJobs, disturbed>>
    BY DEF runRemovals
  <1>2. ASSUME NEW c \in tool.removal.cards, UNCHANGED rows,
               Call(PatchCard(c, "revoked"), UNCHANGED cardState, [tool EXCEPT !.removal.cards = @ \ {c}], {})
        PROVE  ToolInv'
    BY <1>1, <1>2, CardRemovalKeeps
  <1>3. ASSUME NEW f \in tool.removal.fingers, UNCHANGED cardState,
               Call(DeleteFinger(f), UNCHANGED rows, [tool EXCEPT !.removal.fingers = @ \ {f}], {})
        PROVE  ToolInv'
    BY <1>1, <1>3, FingerRemovalKeeps
  <1> QED
    BY <1>2, <1>3 DEF runRemovals

LEMMA OthersKeep == ASSUME ToolInv, OtherAdministrator PROVE ToolInv'
  <1>1. disturbed' = TRUE /\ UNCHANGED <<failedJobs, tool>>
    BY DEF OtherAdministrator
  <1>2. rows' \subseteq FingerRows
    <2>1. CASE UNCHANGED rows
      BY <2>1 DEF ToolInv, ToolTypeOK
    <2>2. ASSUME NEW p \in ToolPeople, NEW f \in Fingers, AddFinger(p, f, NumberBase) PROVE rows' \subseteq FingerRows
      BY <2>2, AdditionTypes, ToolAssumption DEF ToolInv, ToolTypeOK
    <2> QED
      BY <2>1, <2>2 DEF OtherAdministrator
  <1>3. cardState' \in [ToolCards -> Statuses]
    BY PatchTypes DEF OtherAdministrator, Statuses, ToolInv, ToolTypeOK
  <1>4. ToolTypeOK'
    BY <1>1, <1>2, <1>3 DEF ToolInv, ToolTypeOK
  <1> QED
    BY <1>1, <1>4, RunStops

LEMMA ToolStep == ASSUME ToolInv, [ToolNext]_toolVars PROVE ToolInv'
  <1>1. CASE UNCHANGED toolVars
    <2>1. UNCHANGED <<rows, cardState, failedJobs, tool, disturbed>>
      BY <1>1 DEF toolVars
    <2> QED
      BY <2>1, CollisionsStay DEF ToolInv, ToolTypeOK, RetriesCover, RemovalsCover, NumbersCover, Live
  <1>2. ASSUME NEW q \in DOMAIN Directory, NEW removal \in SUBSET DOMAIN Directory, PlanRun(q, removal) PROVE ToolInv'
    BY <1>2, PlanRunKeeps
  <1>3. ASSUME NEW e \in BOOLEAN, Confirm(e) PROVE ToolInv'
    BY <1>3, ConfirmKeeps
  <1>4. CASE runRetries \/ runCycle \/ runRemovals \/ runFingerprints
    BY <1>4, RetriesKeep, CycleKeeps, RemovalsKeep, FingerprintsKeep
  <1>5. CASE NextTask \/ OtherAdministrator
    BY <1>5, NextTaskKeeps, OthersKeep
  <1> QED
    BY <1>1, <1>2, <1>3, <1>4, <1>5 DEF ToolNext

\* Undisturbed, the run's plan covers all that is left to do, call by call.
THEOREM ToolInvariant == ToolSpec => []ToolInv
  <1> QED
    BY ToolStarts, ToolStep, PTL DEF ToolSpec

\* A run that finishes undisturbed leaves no collision, no live credential of those it
\* removed, and no failed command, whatever the estate looked like before.
THEOREM RunsLeaveNothing == ToolSpec => []FinishedRunsLeaveNothing
  <1>1. ToolInv => FinishedRunsLeaveNothing
    <2> SUFFICES ASSUME ToolInv, tool.step = "finished", ~disturbed
                 PROVE  /\ Colliding(tool.removed) = {}
                        /\ \A f \in rows : f.person \in tool.removed => ~Live(f)
                        /\ \A c \in ToolCards : CardOwner[c] \in tool.removed => cardState[c] = "revoked"
                        /\ failedJobs = {}
      BY DEF FinishedRunsLeaveNothing
    <2>1. RetriesCover(tool) /\ RemovalsCover(tool) /\ NumbersCover(tool)
      BY DEF ToolInv, Ready
    <2> QED
      BY <2>1 DEF RetriesCover, RemovalsCover, NumbersCover
  <1> QED
    BY <1>1, ToolInvariant, PTL

=============================================================================
