-------------------------- MODULE VisitorGateProofs --------------------------
(***************************************************************************)
(* Proofs about VisitorGate, for any number of officers, scans, visits and *)
(* decisions that die half way.                                            *)
(*                                                                         *)
(* The allowance is the hard part. Visits are counted when they are        *)
(* recorded, which is after the pass was checked in, so the invariant      *)
(* follows every entry from the check of the allowance to its record: an   *)
(* uncounted entry belongs to a decision that has still to record it or to *)
(* one that died.                                                          *)
(***************************************************************************)
EXTENDS VisitorGate, FiniteSetTheorems, TLAPS

\* The entries the allowance should count, and those it does not count yet.
Spent     == entered \ {s \in entered : scan[s].decision = "accepted"}
Uncounted == {s \in Spent : scan[s].decision # "accepted_in"}

\* The officers who are letting the visitor in, before and after the pass was updated.
LettingIn(step) ==
    {o \in Officers : deciding[o].step = step /\ deciding[o].outcome \in Entries}

\* A scan stays a preview while its decision is under way.
DecidedScansArePreviews ==
    \A o \in Officers : deciding[o] # NoDecision =>
        scan[deciding[o].scan] = [decision |-> "previewed", by |-> o]

UpdatedEntriesAreNoted ==
    \A o \in LettingIn("record") : deciding[o].scan \in entered

\* An uncounted entry waits for its record, or its decision died.
UncountedAreUnderWay ==
    Cardinality(Uncounted) <= Cardinality(LettingIn("record")) + deaths

\* Entries made and entries allowed, together.
AllowanceIsShared ==
    Cardinality(Spent) + Cardinality(LettingIn("update")) + 1
        <= VisitTimes + Cardinality(Officers) + deaths

InsideIsCheckedIn == inside => status \in {"checked_in", "revoked"}

PassInv ==
    /\ PassTypeOK
    /\ DecidedScansArePreviews
    /\ UpdatedEntriesAreNoted
    /\ RecordedVisitsHappened
    /\ InsideIsCheckedIn
    /\ UncountedAreUnderWay
    /\ AllowanceIsShared

-----------------------------------------------------------------------------
(* Counting *)

LEMMA AtMostOneMore ==
    ASSUME NEW S, IsFiniteSet(S), NEW T, NEW x, T \subseteq S \cup {x}
    PROVE  IsFiniteSet(T) /\ Cardinality(T) <= Cardinality(S) + 1
  <1>0. Cardinality(S) \in Nat
    BY FS_CardinalityType
  <1>1. /\ IsFiniteSet(S \cup {x})
        /\ Cardinality(S \cup {x}) = IF x \in S THEN Cardinality(S) ELSE Cardinality(S) + 1
    BY FS_AddElement
  <1>2. IsFiniteSet(T) /\ Cardinality(T) <= Cardinality(S \cup {x}) /\ Cardinality(T) \in Nat
    <2>1. T \in SUBSET (S \cup {x})
      OBVIOUS
    <2>2. IsFiniteSet(T) /\ Cardinality(T) <= Cardinality(S \cup {x})
      BY <1>1, <2>1, FS_Subset
    <2> QED
      BY <2>2, FS_CardinalityType
  <1> QED
    BY <1>0, <1>1, <1>2

LEMMA OneLess ==
    ASSUME NEW S, IsFiniteSet(S), NEW T, NEW x \in S, T \subseteq S \ {x}
    PROVE  IsFiniteSet(T) /\ Cardinality(T) + 1 <= Cardinality(S)
  <1>0. Cardinality(S) \in Nat
    BY FS_CardinalityType
  <1>1. IsFiniteSet(S \ {x}) /\ Cardinality(S \ {x}) = Cardinality(S) - 1
    BY FS_RemoveElement
  <1>2. IsFiniteSet(T) /\ Cardinality(T) <= Cardinality(S \ {x}) /\ Cardinality(T) \in Nat
    <2>1. T \in SUBSET (S \ {x})
      OBVIOUS
    <2>2. IsFiniteSet(T) /\ Cardinality(T) <= Cardinality(S \ {x})
      BY <1>1, <2>1, FS_Subset
    <2> QED
      BY <2>2, FS_CardinalityType
  <1> QED
    BY <1>0, <1>1, <1>2

LEMMA OneMore ==
    ASSUME NEW S, IsFiniteSet(S), NEW T, IsFiniteSet(T), NEW x, x \notin S, S \cup {x} \subseteq T
    PROVE  Cardinality(S) + 1 <= Cardinality(T)
  <1>1. IsFiniteSet(S \cup {x}) /\ Cardinality(S \cup {x}) = Cardinality(S) + 1
    BY FS_AddElement
  <1>2. Cardinality(S \cup {x}) <= Cardinality(T)
    <2>1. S \cup {x} \in SUBSET T
      OBVIOUS
    <2> QED
      BY <2>1, FS_Subset
  <1> QED
    BY <1>1, <1>2

\* The sets that are counted are finite.
LEMMA CountedAreFinite ==
    ASSUME PassTypeOK
    PROVE  /\ IsFiniteSet(Spent) /\ IsFiniteSet(Uncounted) /\ IsFiniteSet(LettingIn("update"))
           /\ IsFiniteSet(LettingIn("record")) /\ IsFiniteSet({s \in Scans : scan[s].decision = "accepted_in"})
           /\ Cardinality(Spent) \in Nat /\ Cardinality(Uncounted) \in Nat
           /\ Cardinality(LettingIn("update")) \in Nat /\ Cardinality(LettingIn("record")) \in Nat
           /\ visits_used \in Nat /\ Cardinality(Officers) \in Nat
  <1>1. /\ Spent \subseteq Scans /\ Uncounted \subseteq Scans
        /\ {s \in Scans : scan[s].decision = "accepted_in"} \subseteq Scans
    BY DEF PassTypeOK, Spent, Uncounted
  <1>2. LettingIn("update") \subseteq Officers /\ LettingIn("record") \subseteq Officers
    BY DEF LettingIn
  <1> QED
    BY <1>1, <1>2, FS_Subset, FS_CardinalityType, PassAssumption DEF visits_used

\* The deciding officers are each at one step.
LEMMA StepsAreShared ==
    ASSUME PassTypeOK, NEW o \in Officers, o \notin LettingIn("update"), o \notin LettingIn("record")
    PROVE  Cardinality(LettingIn("update")) + Cardinality(LettingIn("record")) + 1
             <= Cardinality(Officers)
  <1> DEFINE U == LettingIn("update")
             R == LettingIn("record")
  <1>1. IsFiniteSet(U) /\ IsFiniteSet(R)
    BY CountedAreFinite
  <1>2. U \cap R = {} /\ U \cup R \subseteq Officers
    BY DEF LettingIn
  <1>3. IsFiniteSet(U \cup R) /\ Cardinality(U \cup R) = Cardinality(U) + Cardinality(R)
    <2>1. /\ IsFiniteSet(U \cup R)
          /\ Cardinality(U \cup R) = Cardinality(U) + Cardinality(R) - Cardinality(U \cap R)
      BY <1>1, FS_Union
    <2>2. Cardinality(U \cap R) = 0
      BY <1>2, FS_EmptySet
    <2>3. Cardinality(U) \in Nat /\ Cardinality(R) \in Nat
      BY <1>1, FS_CardinalityType
    <2> QED
      BY <2>1, <2>2, <2>3
  <1>4. Cardinality(U \cup R) + 1 <= Cardinality(Officers)
    BY <1>2, <1>3, OneMore, PassAssumption
  <1> QED
    BY <1>3, <1>4

-----------------------------------------------------------------------------
(* Types *)

LEMMA PassTypesHold == PassInv /\ [PassNext]_passVars => PassTypeOK'
  <1> SUFFICES ASSUME PassInv, [PassNext]_passVars PROVE PassTypeOK'
    OBVIOUS
  <1> USE DEF PassTypeOK
  <1>t. PassTypeOK
    BY DEF PassInv
  <1>1. CASE TimePasses \/ Expire \/ RevokeReads \/ RevokeWrites \/ UNCHANGED passVars
    BY <1>t, <1>1 DEF TimePasses, Expire, RevokeReads, RevokeWrites, passVars
  <1>2. ASSUME NEW o \in Officers, NEW s \in Scans, Preview(o, s) PROVE PassTypeOK'
    BY <1>t, <1>2 DEF Preview, Scan, Outcomes
  <1>3. ASSUME NEW o \in Officers, NEW s \in Scans, NEW outcome \in Decided,
               DecisionReads(o, s, outcome)
        PROVE  PassTypeOK'
    BY <1>t, <1>3 DEF DecisionReads, DecisionRequest
  <1>4. ASSUME NEW o \in Officers, DecisionUpdatesPass(o) PROVE PassTypeOK'
    <2>1. deciding[o] \in DecisionRequest /\ deciding[o].scan \in Scans /\ deciding[o].outcome \in Decided
      BY <1>t, <1>4 DEF DecisionUpdatesPass, NoDecision, DecisionRequest
    <2>2. deciding' \in [Officers -> DecisionRequest \cup {NoDecision}]
      BY <1>t, <1>4, <2>1 DEF DecisionUpdatesPass, DecisionRequest
    <2>3. status' \in {"active", "checked_in", "checked_out", "expired", "revoked"}
      BY <1>t, <1>4, <2>1 DEF DecisionUpdatesPass, UpdatedStatus, Decided, Entries
    <2>4. entered' \subseteq Scans
      BY <1>t, <1>4, <2>1 DEF DecisionUpdatesPass
    <2>5. inside' \in BOOLEAN
      <3>1. inside' = IF deciding[o].outcome = "rejected" THEN inside ELSE deciding[o].outcome \in Entries
        BY <1>4 DEF DecisionUpdatesPass
      <3>2. (deciding[o].outcome \in Entries) \in BOOLEAN
        BY DEF Entries
      <3> QED
        BY <1>t, <3>1, <3>2
    <2> QED
      BY <1>t, <1>4, <2>2, <2>3, <2>4, <2>5 DEF DecisionUpdatesPass
  <1>5. ASSUME NEW o \in Officers, DecisionRecordsScan(o) PROVE PassTypeOK'
    <2>1. deciding[o] \in DecisionRequest /\ deciding[o].scan \in Scans /\ deciding[o].outcome \in Decided
      BY <1>t, <1>5 DEF DecisionRecordsScan, NoDecision, DecisionRequest
    <2>2. scan[deciding[o].scan] = [decision |-> "previewed", by |-> o]
      BY <1>5 DEF PassInv, DecidedScansArePreviews, DecisionRecordsScan, NoDecision
    <2>3. scan' \in [Scans -> Scan \cup {NoScan}]
      BY <1>t, <1>5, <2>1, <2>2 DEF DecisionRecordsScan, Scan, Outcomes, Decided
    <2> QED
      BY <1>t, <1>5, <2>3 DEF DecisionRecordsScan
  <1>6. ASSUME NEW o \in Officers, DecisionAborts(o) PROVE PassTypeOK'
    BY <1>t, <1>6, PassAssumption DEF DecisionAborts
  <1> QED
    BY <1>1, <1>2, <1>3, <1>4, <1>5, <1>6 DEF PassNext

-----------------------------------------------------------------------------
(* What a decision under way may rely on *)

LEMMA RequestsHold ==
    PassInv /\ [PassNext]_passVars =>
        DecidedScansArePreviews' /\ UpdatedEntriesAreNoted' /\ RecordedVisitsHappened'
  <1> SUFFICES ASSUME PassInv, [PassNext]_passVars
               PROVE  DecidedScansArePreviews' /\ UpdatedEntriesAreNoted' /\ RecordedVisitsHappened'
    OBVIOUS
  <1> USE DEF DecidedScansArePreviews, UpdatedEntriesAreNoted, RecordedVisitsHappened, LettingIn,
          PassInv, PassTypeOK
  <1>1. CASE TimePasses \/ Expire \/ RevokeReads \/ RevokeWrites \/ UNCHANGED passVars
    BY <1>1 DEF TimePasses, Expire, RevokeReads, RevokeWrites, passVars
  <1>2. ASSUME NEW o \in Officers, NEW s \in Scans, Preview(o, s)
        PROVE  DecidedScansArePreviews' /\ UpdatedEntriesAreNoted' /\ RecordedVisitsHappened'
    <2>1. \A u \in Scans : u # s => scan'[u] = scan[u]
      BY <1>2 DEF Preview
    <2>2. scan'[s].decision \in {"previewed", "invalid"}
      BY <1>2 DEF Preview
    <2>3. \A q \in Officers : deciding[q] # NoDecision => deciding[q].scan \in Scans /\ deciding[q].scan # s
      <3> SUFFICES ASSUME NEW q \in Officers, deciding[q] # NoDecision
                   PROVE  deciding[q].scan \in Scans /\ deciding[q].scan # s
        OBVIOUS
      <3>1. deciding[q].scan \in Scans
        BY DEF DecisionRequest
      <3>2. scan[s].decision = "none"
        BY <1>2 DEF Preview, NoScan
      <3>3. scan[deciding[q].scan].decision = "previewed"
        <4>1. scan[deciding[q].scan] = [decision |-> "previewed", by |-> q]
          OBVIOUS
        <4> QED
          BY ONLY <4>1
      <3> QED
        BY <3>1, <3>2, <3>3
    <2>4. UNCHANGED <<deciding, entered>>
      BY <1>2 DEF Preview
    <2> QED
      BY <2>1, <2>2, <2>3, <2>4 DEF Entries
  <1>3. ASSUME NEW o \in Officers, NEW s \in Scans, NEW outcome \in Decided,
               DecisionReads(o, s, outcome)
        PROVE  DecidedScansArePreviews' /\ UpdatedEntriesAreNoted' /\ RecordedVisitsHappened'
    BY <1>3 DEF DecisionReads
  <1>4. ASSUME NEW o \in Officers, DecisionUpdatesPass(o)
        PROVE  DecidedScansArePreviews' /\ UpdatedEntriesAreNoted' /\ RecordedVisitsHappened'
    <2>1. deciding[o] \in DecisionRequest /\ deciding[o] # NoDecision
      BY <1>4 DEF DecisionUpdatesPass, NoDecision
    <2>2. /\ deciding'[o].scan = deciding[o].scan /\ deciding'[o].outcome = deciding[o].outcome
          /\ \A q \in Officers : q # o => deciding'[q] = deciding[q]
          /\ UNCHANGED scan /\ entered \subseteq entered'
          /\ deciding[o].outcome \in Entries => deciding[o].scan \in entered'
      BY <1>4, <2>1 DEF DecisionUpdatesPass, DecisionRequest
    <2> QED
      BY <2>1, <2>2
  <1>5. ASSUME NEW o \in Officers, DecisionRecordsScan(o)
        PROVE  DecidedScansArePreviews' /\ UpdatedEntriesAreNoted' /\ RecordedVisitsHappened'
    <2>1. /\ deciding[o] \in DecisionRequest /\ deciding[o] # NoDecision /\ deciding[o].step = "record"
          /\ deciding[o].scan \in Scans
      BY <1>5 DEF DecisionRecordsScan, NoDecision, DecisionRequest
    <2>2. /\ \A u \in Scans : u # deciding[o].scan => scan'[u] = scan[u]
          /\ scan'[deciding[o].scan].decision = deciding[o].outcome
      BY <1>5, <2>1 DEF DecisionRecordsScan
    <2>3. \A q \in Officers : q # o /\ deciding[q] # NoDecision =>
              deciding[q].scan \in Scans /\ deciding[q].scan # deciding[o].scan
      <3> SUFFICES ASSUME NEW q \in Officers, q # o, deciding[q] # NoDecision
                   PROVE  deciding[q].scan \in Scans /\ deciding[q].scan # deciding[o].scan
        OBVIOUS
      <3>1. deciding[q].scan \in Scans
        BY DEF DecisionRequest
      <3>2. scan[deciding[q].scan].by = q /\ scan[deciding[o].scan].by = o
        <4>1. /\ scan[deciding[q].scan] = [decision |-> "previewed", by |-> q]
              /\ scan[deciding[o].scan] = [decision |-> "previewed", by |-> o]
          BY <2>1
        <4> QED
          BY ONLY <4>1
      <3> QED
        BY <3>1, <3>2
    <2>4. /\ deciding'[o] = NoDecision /\ \A q \in Officers : q # o => deciding'[q] = deciding[q]
          /\ UNCHANGED entered
      BY <1>5 DEF DecisionRecordsScan
    <2> QED
      BY <2>1, <2>2, <2>3, <2>4 DEF NoDecision
  <1>6. ASSUME NEW o \in Officers, DecisionAborts(o)
        PROVE  DecidedScansArePreviews' /\ UpdatedEntriesAreNoted' /\ RecordedVisitsHappened'
    BY <1>6 DEF DecisionAborts, NoDecision
  <1> QED
    BY <1>1, <1>2, <1>3, <1>4, <1>5, <1>6 DEF PassNext

LEMMA InsideStaysCheckedIn == PassInv /\ [PassNext]_passVars => InsideIsCheckedIn'
  <1> SUFFICES ASSUME PassInv, [PassNext]_passVars PROVE InsideIsCheckedIn'
    OBVIOUS
  <1>i. InsideIsCheckedIn
    BY DEF PassInv
  <1> USE DEF InsideIsCheckedIn
  <1>1. CASE TimePasses \/ Expire \/ RevokeReads \/ RevokeWrites \/ UNCHANGED passVars
    BY <1>i, <1>1 DEF TimePasses, Expire, RevokeReads, RevokeWrites, passVars
  <1>2. ASSUME NEW o \in Officers, NEW s \in Scans, Preview(o, s) PROVE InsideIsCheckedIn'
    BY <1>i, <1>2 DEF Preview
  <1>3. ASSUME NEW o \in Officers, NEW s \in Scans, NEW outcome \in Decided,
               DecisionReads(o, s, outcome)
        PROVE  InsideIsCheckedIn'
    BY <1>i, <1>3 DEF DecisionReads
  <1>4. ASSUME NEW o \in Officers, DecisionUpdatesPass(o) PROVE InsideIsCheckedIn'
    <2>1. deciding[o].outcome \in Decided
      BY <1>4 DEF PassInv, PassTypeOK, DecisionUpdatesPass, NoDecision, DecisionRequest
    <2> QED
      BY <1>i, <1>4, <2>1 DEF DecisionUpdatesPass, UpdatedStatus, Decided, Entries
  <1>5. ASSUME NEW o \in Officers, DecisionRecordsScan(o) \/ DecisionAborts(o)
        PROVE  InsideIsCheckedIn'
    BY <1>i, <1>5 DEF DecisionRecordsScan, DecisionAborts
  <1> QED
    BY <1>1, <1>2, <1>3, <1>4, <1>5 DEF PassNext

-----------------------------------------------------------------------------
(* What each step does to the counted sets *)

\* Set inclusion, as the counts need it.
LEMMA NoMore ==
    ASSUME NEW S, IsFiniteSet(S), NEW T, T \subseteq S
    PROVE  IsFiniteSet(T) /\ Cardinality(T) <= Cardinality(S)
  <1>1. T \in SUBSET S
    OBVIOUS
  <1> QED
    BY <1>1, FS_Subset

\* Steps that neither let anybody in nor record a decision.
LEMMA QuietSteps ==
    ASSUME PassInv,
           \/ TimePasses \/ Expire \/ RevokeReads \/ RevokeWrites \/ UNCHANGED passVars
           \/ \E o \in Officers, s \in Scans : Preview(o, s)
    PROVE  /\ Spent' = Spent /\ Uncounted' = Uncounted
           /\ UNCHANGED <<deciding, deaths>>
  <1> USE DEF Spent, Uncounted
  <1>1. CASE TimePasses \/ Expire \/ RevokeReads \/ RevokeWrites \/ UNCHANGED passVars
    BY <1>1 DEF TimePasses, Expire, RevokeReads, RevokeWrites, passVars
  <1>2. ASSUME NEW o \in Officers, NEW s \in Scans, Preview(o, s)
        PROVE  /\ Spent' = Spent /\ Uncounted' = Uncounted
               /\ UNCHANGED <<deciding, deaths>>
    <2>1. scan \in [Scans -> Scan \cup {NoScan}] /\ entered \subseteq Scans
      BY DEF PassInv, PassTypeOK
    <2>2. scan[s].decision = "none"
      BY <1>2 DEF Preview, NoScan
    <2>3. scan'[s].decision \in {"previewed", "invalid"} /\ \A u \in Scans : u # s => scan'[u] = scan[u]
      BY <1>2, <2>1 DEF Preview
    <2>4. UNCHANGED <<entered, deciding, deaths>>
      BY <1>2 DEF Preview
    <2> QED
      BY <2>1, <2>2, <2>3, <2>4
  <1> QED
    BY <1>1, <1>2

\* A decision that reads joins the officers letting the visitor in, at most.
LEMMA ReadStep ==
    ASSUME PassInv, NEW o \in Officers, NEW s \in Scans, NEW outcome \in Decided,
           DecisionReads(o, s, outcome)
    PROVE  /\ Spent' = Spent /\ Uncounted' = Uncounted /\ UNCHANGED deaths
           /\ LettingIn("record")' = LettingIn("record")
           /\ LettingIn("update")' \subseteq LettingIn("update") \cup {o}
           /\ outcome \notin Entries => LettingIn("update")' = LettingIn("update")
           /\ o \notin LettingIn("update") /\ o \notin LettingIn("record")
  <1>1. deciding \in [Officers -> DecisionRequest \cup {NoDecision}]
    BY DEF PassInv, PassTypeOK
  <1>2. /\ deciding[o].step = "ready"
        /\ deciding'[o].step = "update" /\ deciding'[o].outcome = outcome
        /\ \A q \in Officers : q # o => deciding'[q] = deciding[q]
    BY <1>1 DEF DecisionReads, NoDecision
  <1>3. Spent' = Spent /\ Uncounted' = Uncounted /\ UNCHANGED deaths
    BY DEF DecisionReads, Spent, Uncounted
  <1> QED
    BY <1>2, <1>3 DEF LettingIn

\* A decision that updates the pass moves on to its record; an entry is spent.
LEMMA UpdateStep ==
    ASSUME PassInv, NEW o \in Officers, DecisionUpdatesPass(o)
    PROVE  LET r == deciding[o]
           IN /\ UNCHANGED deaths
              /\ r.outcome \in Entries =>
                    /\ o \in LettingIn("update") /\ LettingIn("update")' \subseteq LettingIn("update") \ {o}
                    /\ o \notin LettingIn("record") /\ LettingIn("record") \cup {o} \subseteq LettingIn("record")'
                    /\ Spent' \subseteq Spent \cup {r.scan} /\ Uncounted' \subseteq Uncounted \cup {r.scan}
              /\ r.outcome \notin Entries =>
                    /\ LettingIn("update")' = LettingIn("update") /\ LettingIn("record")' = LettingIn("record")
                    /\ Spent' = Spent /\ Uncounted' = Uncounted
  <1>1. deciding \in [Officers -> DecisionRequest \cup {NoDecision}]
    BY DEF PassInv, PassTypeOK
  <1>2. deciding[o].step = "update" /\ deciding[o] \in DecisionRequest
    BY <1>1 DEF DecisionUpdatesPass, NoDecision
  <1>3. /\ deciding'[o].step = "record" /\ deciding'[o].outcome = deciding[o].outcome
        /\ \A q \in Officers : q # o => deciding'[q] = deciding[q]
    BY <1>1, <1>2 DEF DecisionUpdatesPass, DecisionRequest
  <1>4. /\ UNCHANGED <<scan, deaths>>
        /\ entered' = IF deciding[o].outcome \in Entries THEN entered \cup {deciding[o].scan} ELSE entered
    BY DEF DecisionUpdatesPass
  <1>5. /\ Spent' \subseteq Spent \cup {deciding[o].scan}
        /\ Uncounted' \subseteq Uncounted \cup {deciding[o].scan}
        /\ deciding[o].outcome \notin Entries => Spent' = Spent /\ Uncounted' = Uncounted
    BY <1>4 DEF Spent, Uncounted
  <1>6. /\ deciding[o].outcome \in Entries =>
              /\ o \in LettingIn("update") /\ LettingIn("update")' \subseteq LettingIn("update") \ {o}
              /\ o \notin LettingIn("record") /\ LettingIn("record") \cup {o} \subseteq LettingIn("record")'
        /\ deciding[o].outcome \notin Entries =>
              LettingIn("update")' = LettingIn("update") /\ LettingIn("record")' = LettingIn("record")
    BY <1>2, <1>3 DEF LettingIn
  <1> QED
    BY <1>4, <1>5, <1>6

\* A recorded entry was uncounted, and its officer is done.
LEMMA RecordStep ==
    ASSUME PassInv, NEW o \in Officers, DecisionRecordsScan(o)
    PROVE  LET r == deciding[o]
           IN /\ UNCHANGED deaths /\ LettingIn("update")' = LettingIn("update")
              /\ Spent' \subseteq Spent /\ Uncounted' \subseteq Uncounted
              /\ LettingIn("record") \subseteq LettingIn("record")' \cup {o}
              /\ r.outcome \in Entries => r.scan \in Uncounted /\ Uncounted' \subseteq Uncounted \ {r.scan}
              /\ r.outcome \notin Entries => LettingIn("record") \subseteq LettingIn("record")'
  <1>1. deciding \in [Officers -> DecisionRequest \cup {NoDecision}] /\ entered \subseteq Scans
        /\ scan \in [Scans -> Scan \cup {NoScan}]
    BY DEF PassInv, PassTypeOK
  <1>2. deciding[o].step = "record" /\ deciding[o] \in DecisionRequest /\ deciding[o] # NoDecision
    BY <1>1 DEF DecisionRecordsScan, NoDecision
  <1>3. deciding[o].scan \in Scans /\ deciding[o].outcome \in Decided
    BY <1>2 DEF DecisionRequest
  <1>4. scan[deciding[o].scan].decision = "previewed"
    <2>1. scan[deciding[o].scan] = [decision |-> "previewed", by |-> o]
      BY <1>2 DEF PassInv, DecidedScansArePreviews
    <2> QED
      BY ONLY <2>1
  <1>5. /\ deciding'[o].step = "ready" /\ \A q \in Officers : q # o => deciding'[q] = deciding[q]
        /\ UNCHANGED <<entered, deaths>>
    BY <1>1 DEF DecisionRecordsScan, NoDecision
  <1>6. /\ scan'[deciding[o].scan].decision = deciding[o].outcome
        /\ \A s \in Scans : s # deciding[o].scan => scan'[s] = scan[s]
    <2>1. scan[deciding[o].scan] = [decision |-> "previewed", by |-> o]
      BY <1>2 DEF PassInv, DecidedScansArePreviews
    <2>2. scan' = [scan EXCEPT ![deciding[o].scan].decision = deciding[o].outcome]
      BY DEF DecisionRecordsScan
    <2> QED
      BY <1>1, <1>3, <2>1, <2>2
  <1>7. /\ LettingIn("update")' = LettingIn("update")
        /\ LettingIn("record") \subseteq LettingIn("record")' \cup {o}
        /\ deciding[o].outcome \notin Entries => LettingIn("record") \subseteq LettingIn("record")'
    BY <1>2, <1>5 DEF LettingIn
  <1>8. Spent' \subseteq Spent /\ Uncounted' \subseteq Uncounted
    BY <1>1, <1>4, <1>5, <1>6 DEF Spent, Uncounted
  <1>9. deciding[o].outcome \in Entries =>
            deciding[o].scan \in Uncounted /\ Uncounted' \subseteq Uncounted \ {deciding[o].scan}
    <2> SUFFICES ASSUME deciding[o].outcome \in Entries
                 PROVE  deciding[o].scan \in Uncounted /\ deciding[o].scan \notin Uncounted'
      BY <1>8
    <2>1. deciding[o].scan \in entered
      BY <1>2 DEF PassInv, UpdatedEntriesAreNoted, LettingIn
    <2> QED
      <3>1. deciding[o].scan \in Uncounted
        BY <1>4, <2>1 DEF Spent, Uncounted
      <3>2. scan'[deciding[o].scan].decision \in {"accepted_in", "accepted"}
        BY <1>6 DEF Entries
      <3>3. deciding[o].scan \notin Uncounted'
        BY <3>2 DEF Spent, Uncounted
      <3> QED
        BY <3>1, <3>3
  <1>10. UNCHANGED deaths
    BY <1>5
  <1> QED
    BY <1>7, <1>8, <1>9, <1>10

\* A decision that dies leaves the pass and its scan as they are.
LEMMA AbortStep ==
    ASSUME PassInv, NEW o \in Officers, DecisionAborts(o)
    PROVE  /\ Spent' = Spent /\ Uncounted' = Uncounted /\ deaths' = deaths + 1
           /\ LettingIn("update")' \subseteq LettingIn("update")
           /\ LettingIn("record") \subseteq LettingIn("record")' \cup {o}
  <1>1. deciding \in [Officers -> DecisionRequest \cup {NoDecision}]
    BY DEF PassInv, PassTypeOK
  <1>2. /\ deciding'[o].step = "ready" /\ \A q \in Officers : q # o => deciding'[q] = deciding[q]
    BY <1>1 DEF DecisionAborts, NoDecision
  <1> QED
    BY <1>2 DEF DecisionAborts, Spent, Uncounted, LettingIn

-----------------------------------------------------------------------------
(* The allowance *)

LEMMA EntriesGetRecorded == PassInv /\ [PassNext]_passVars => UncountedAreUnderWay'
  <1> SUFFICES ASSUME PassInv, [PassNext]_passVars PROVE UncountedAreUnderWay'
    OBVIOUS
  <1> DEFINE R == LettingIn("record")
  <1>t. PassTypeOK /\ PassTypeOK' /\ deaths \in Nat
    BY PassTypesHold DEF PassInv, PassTypeOK
  <1>f. /\ IsFiniteSet(Uncounted) /\ IsFiniteSet(R) /\ Cardinality(Uncounted) \in Nat /\ Cardinality(R) \in Nat
    BY <1>t, CountedAreFinite
  <1>g. /\ IsFiniteSet(Uncounted') /\ IsFiniteSet(R')
    <2>1. Uncounted' \subseteq Scans /\ R' \subseteq Officers
      BY <1>t DEF PassTypeOK, Uncounted, Spent, LettingIn
    <2> QED
      BY <2>1, NoMore, PassAssumption
  <1>h. Cardinality(Uncounted') \in Nat /\ Cardinality(R') \in Nat
    BY <1>g, FS_CardinalityType
  <1>i. Cardinality(Uncounted) <= Cardinality(R) + deaths
    BY DEF PassInv, UncountedAreUnderWay
  <1> SUFFICES Cardinality(Uncounted') <= Cardinality(R') + deaths'
    BY DEF UncountedAreUnderWay
  <1>1. CASE \/ TimePasses \/ Expire \/ RevokeReads \/ RevokeWrites \/ UNCHANGED passVars
             \/ \E o \in Officers, s \in Scans : Preview(o, s)
    <2>1. R' = R
      BY <1>1, QuietSteps DEF LettingIn
    <2> QED
      BY <1>1, <1>i, <2>1, QuietSteps
  <1>2. ASSUME NEW o \in Officers, NEW s \in Scans, NEW outcome \in Decided,
               DecisionReads(o, s, outcome)
        PROVE  Cardinality(Uncounted') <= Cardinality(R') + deaths'
    BY <1>2, <1>i, ReadStep
  <1>3. ASSUME NEW o \in Officers, DecisionUpdatesPass(o)
        PROVE  Cardinality(Uncounted') <= Cardinality(R') + deaths'
    <2>1. CASE deciding[o].outcome \in Entries
      <3>1. /\ o \notin R /\ R \cup {o} \subseteq R' /\ Uncounted' \subseteq Uncounted \cup {deciding[o].scan}
            /\ deaths' = deaths
        BY <1>3, <2>1, UpdateStep
      <3>2. Cardinality(R) + 1 <= Cardinality(R')
        BY <1>f, <1>g, <3>1, OneMore
      <3>3. Cardinality(Uncounted') <= Cardinality(Uncounted) + 1
        BY <1>f, <3>1, AtMostOneMore
      <3> QED
        BY <1>t, <1>f, <1>h, <1>i, <3>1, <3>2, <3>3
    <2>2. CASE deciding[o].outcome \notin Entries
      BY <1>3, <1>i, <2>2, UpdateStep
    <2> QED
      BY <2>1, <2>2
  <1>4. ASSUME NEW o \in Officers, DecisionRecordsScan(o)
        PROVE  Cardinality(Uncounted') <= Cardinality(R') + deaths'
    <2>1. CASE deciding[o].outcome \in Entries
      <3>1. /\ R \subseteq R' \cup {o} /\ deaths' = deaths
            /\ deciding[o].scan \in Uncounted /\ Uncounted' \subseteq Uncounted \ {deciding[o].scan}
        BY <1>4, <2>1, RecordStep
      <3>2. Cardinality(R) <= Cardinality(R') + 1
        BY <1>g, <3>1, AtMostOneMore
      <3>3. Cardinality(Uncounted') + 1 <= Cardinality(Uncounted)
        BY <1>f, <3>1, OneLess
      <3> QED
        BY <1>t, <1>f, <1>h, <1>i, <3>1, <3>2, <3>3
    <2>2. CASE deciding[o].outcome \notin Entries
      <3>1. R \subseteq R' /\ Uncounted' \subseteq Uncounted /\ deaths' = deaths
        BY <1>4, <2>2, RecordStep
      <3>2. Cardinality(R) <= Cardinality(R') /\ Cardinality(Uncounted') <= Cardinality(Uncounted)
        BY <1>f, <1>g, <3>1, NoMore
      <3> QED
        BY <1>t, <1>f, <1>h, <1>i, <3>1, <3>2
    <2> QED
      BY <2>1, <2>2
  <1>5. ASSUME NEW o \in Officers, DecisionAborts(o)
        PROVE  Cardinality(Uncounted') <= Cardinality(R') + deaths'
    <2>1. R \subseteq R' \cup {o} /\ Uncounted' = Uncounted /\ deaths' = deaths + 1
      BY <1>5, AbortStep
    <2>2. Cardinality(R) <= Cardinality(R') + 1
      BY <1>g, <2>1, AtMostOneMore
    <2> QED
      BY <1>t, <1>f, <1>h, <1>i, <2>1, <2>2
  <1> QED
    BY <1>1, <1>2, <1>3, <1>4, <1>5 DEF PassNext

LEMMA AllowanceStaysShared == PassInv /\ [PassNext]_passVars => AllowanceIsShared'
  <1> SUFFICES ASSUME PassInv, [PassNext]_passVars PROVE AllowanceIsShared'
    OBVIOUS
  <1> DEFINE U == LettingIn("update")
             R == LettingIn("record")
             Counted == {s \in Scans : scan[s].decision = "accepted_in"}
             Goal == Cardinality(Spent') + Cardinality(U') + 1
                       <= VisitTimes + Cardinality(Officers) + deaths'
  <1>t. PassTypeOK /\ PassTypeOK' /\ deaths \in Nat /\ VisitTimes \in Nat
    BY PassTypesHold, PassAssumption DEF PassInv, PassTypeOK
  <1>f. /\ IsFiniteSet(Spent) /\ IsFiniteSet(U) /\ Cardinality(Spent) \in Nat /\ Cardinality(U) \in Nat
        /\ IsFiniteSet(Uncounted) /\ IsFiniteSet(Counted) /\ Cardinality(Uncounted) \in Nat
        /\ Cardinality(R) \in Nat /\ visits_used \in Nat /\ Cardinality(Officers) \in Nat
    BY <1>t, CountedAreFinite
  <1>g. /\ IsFiniteSet(Spent') /\ IsFiniteSet(U')
    <2>1. Spent' \subseteq Scans /\ U' \subseteq Officers
      BY <1>t DEF PassTypeOK, Spent, LettingIn
    <2> QED
      BY <2>1, NoMore, PassAssumption
  <1>h. Cardinality(Spent') \in Nat /\ Cardinality(U') \in Nat
    BY <1>g, FS_CardinalityType
  <1>i. Cardinality(Spent) + Cardinality(U) + 1 <= VisitTimes + Cardinality(Officers) + deaths
    BY DEF PassInv, AllowanceIsShared
  <1> SUFFICES Goal
    BY DEF AllowanceIsShared
  <1>1. CASE \/ TimePasses \/ Expire \/ RevokeReads \/ RevokeWrites \/ UNCHANGED passVars
             \/ \E o \in Officers, s \in Scans : Preview(o, s)
    <2>1. U' = U
      BY <1>1, QuietSteps DEF LettingIn
    <2> QED
      BY <1>1, <1>i, <2>1, QuietSteps
  <1>2. ASSUME NEW o \in Officers, NEW s \in Scans, NEW outcome \in Decided,
               DecisionReads(o, s, outcome)
        PROVE  Goal
    <2>1. CASE outcome \notin Entries
      BY <1>2, <1>i, <2>1, ReadStep
    <2>2. CASE outcome \in Entries
      <3>1. /\ Spent' = Spent /\ deaths' = deaths /\ U' \subseteq U \cup {o}
            /\ o \notin U /\ o \notin R
        BY <1>2, ReadStep
      <3>2. visits_used + 1 <= VisitTimes
        <4>1. visits_used < VisitTimes
          <5>1. AcceptableFor(outcome)
            BY <1>2 DEF DecisionReads
          <5>2. AcceptableFor(outcome) = evaluateVisitorPass
            BY <2>2 DEF AcceptableFor, Entries
          <5> QED
            BY <5>1, <5>2 DEF evaluateVisitorPass
        <4> QED
          BY <1>t, <1>f, <4>1
      <3>3. Cardinality(Spent) <= visits_used + Cardinality(Uncounted)
        <4>1. Spent \subseteq Counted \cup Uncounted
          BY <1>t DEF PassTypeOK, Spent, Uncounted
        <4>2. /\ IsFiniteSet(Counted \cup Uncounted)
              /\ Cardinality(Counted \cup Uncounted)
                   = Cardinality(Counted) + Cardinality(Uncounted) - Cardinality(Counted \cap Uncounted)
          BY <1>f, FS_Union
        <4>3. Counted \cap Uncounted = {}
          BY DEF Uncounted
        <4>4. Cardinality(Counted \cap Uncounted) = 0
          BY <4>3, FS_EmptySet
        <4>5. Cardinality(Spent) <= Cardinality(Counted \cup Uncounted)
          BY <4>1, <4>2, NoMore
        <4>6. Cardinality(Counted) = visits_used
          BY DEF visits_used
        <4> QED
          BY <1>f, <4>2, <4>4, <4>5, <4>6
      <3>4. Cardinality(Uncounted) <= Cardinality(R) + deaths
        BY DEF PassInv, UncountedAreUnderWay
      <3>5. Cardinality(U) + Cardinality(R) + 1 <= Cardinality(Officers)
        BY <1>t, <3>1, StepsAreShared
      <3>6. Cardinality(U') <= Cardinality(U) + 1
        BY <1>f, <3>1, AtMostOneMore
      <3>7. Cardinality(Spent') = Cardinality(Spent)
        BY <3>1
      <3> HIDE DEF U, R, Counted
      <3> QED
        BY <1>t, <1>f, <1>h, <3>1, <3>2, <3>3, <3>4, <3>5, <3>6, <3>7
    <2> QED
      BY <2>1, <2>2
  <1>3. ASSUME NEW o \in Officers, DecisionUpdatesPass(o) PROVE Goal
    <2>1. CASE deciding[o].outcome \in Entries
      <3>1. /\ o \in U /\ U' \subseteq U \ {o} /\ Spent' \subseteq Spent \cup {deciding[o].scan}
            /\ deaths' = deaths
        BY <1>3, <2>1, UpdateStep
      <3>2. Cardinality(U') + 1 <= Cardinality(U)
        BY <1>f, <3>1, OneLess
      <3>3. Cardinality(Spent') <= Cardinality(Spent) + 1
        BY <1>f, <3>1, AtMostOneMore
      <3> HIDE DEF U
      <3> QED
        BY <1>t, <1>f, <1>h, <1>i, <3>1, <3>2, <3>3
    <2>2. CASE deciding[o].outcome \notin Entries
      BY <1>3, <1>i, <2>2, UpdateStep
    <2> QED
      BY <2>1, <2>2
  <1>4. ASSUME NEW o \in Officers, DecisionRecordsScan(o) \/ DecisionAborts(o) PROVE Goal
    <2>1. /\ Spent' \subseteq Spent /\ U' \subseteq U
          /\ deaths' = deaths \/ deaths' = deaths + 1
      BY <1>4, RecordStep, AbortStep
    <2>2. Cardinality(Spent') <= Cardinality(Spent) /\ Cardinality(U') <= Cardinality(U)
      BY <1>f, <2>1, NoMore
    <2> HIDE DEF U
    <2> QED
      BY <1>t, <1>f, <1>h, <1>i, <2>1, <2>2
  <1> QED
    BY <1>1, <1>2, <1>3, <1>4 DEF PassNext

-----------------------------------------------------------------------------
(* The theorems *)

LEMMA PassStarts == PassInit => PassInv
  <1> SUFFICES ASSUME PassInit PROVE PassInv
    OBVIOUS
  <1> USE DEF PassInit
  <1>1. PassTypeOK
    <2>1. scan \in [Scans -> Scan \cup {NoScan}] /\ deciding \in [Officers -> DecisionRequest \cup {NoDecision}]
      OBVIOUS
    <2>2. deaths \in 0..MaxDeaths
      BY PassAssumption
    <2> QED
      BY <2>1, <2>2 DEF PassTypeOK
  <1>2. LettingIn("update") = {} /\ LettingIn("record") = {} /\ Spent = {} /\ Uncounted = {}
    BY DEF LettingIn, Spent, Uncounted, NoDecision
  <1>3. DecidedScansArePreviews /\ UpdatedEntriesAreNoted /\ InsideIsCheckedIn
    BY <1>2 DEF DecidedScansArePreviews, UpdatedEntriesAreNoted, InsideIsCheckedIn
  <1>4. RecordedVisitsHappened
    BY DEF RecordedVisitsHappened, NoScan, Entries
  <1>5. UncountedAreUnderWay /\ AllowanceIsShared
    <2>1. Cardinality({}) = 0 /\ Cardinality(Officers) \in Nat
      BY FS_EmptySet, FS_CardinalityType, PassAssumption
    <2>2. deaths = 0 /\ VisitTimes \in 1..10
      BY PassAssumption
    <2> QED
      BY <1>2, <2>1, <2>2 DEF UncountedAreUnderWay, AllowanceIsShared
  <1> QED
    BY <1>1, <1>3, <1>4, <1>5 DEF PassInv

\* The invariant that carries the allowance from its check to its record is
\* kept by every statement of every officer, the estate and the sweep.
THEOREM PassInvariant == PassSpec => []PassInv
  <1>1. PassInv /\ [PassNext]_passVars => PassInv'
    BY PassTypesHold, RequestsHold, InsideStaysCheckedIn, EntriesGetRecorded, AllowanceStaysShared
       DEF PassInv
  <1> QED
    BY <1>1, PassStarts, PTL DEF PassSpec

\* What the gate's records say of a pass is what happened at the gate, for any
\* number of officers: entries exceed visit_times by no more than the decisions
\* under way or dead, recorded visits took place, and who is inside can leave.
THEOREM VisitsAreRecordedTruly == PassSpec => []VisitsAreTrue
  <1>1. PassInv => VisitsAreTrue
    <2> SUFFICES ASSUME PassInv PROVE VisitsAreTrue
      OBVIOUS
    <2>1. OverrunIsBounded
      <3>1. /\ Cardinality(Spent) \in Nat /\ Cardinality(LettingIn("update")) \in Nat
            /\ Cardinality(Officers) \in Nat
        BY CountedAreFinite DEF PassInv
      <3>2. deaths \in Nat /\ VisitTimes \in Nat
        BY PassAssumption DEF PassInv, PassTypeOK
      <3>3. Cardinality(Spent) + Cardinality(LettingIn("update")) + 1
               <= VisitTimes + Cardinality(Officers) + deaths
        BY DEF PassInv, AllowanceIsShared
      <3>4. Cardinality(Spent) + 1 <= VisitTimes + Cardinality(Officers) + deaths
        BY <3>1, <3>2, <3>3
      <3> QED
        BY <3>4 DEF OverrunIsBounded, Spent
    <2>2. InsideCanLeave
      BY DEF PassInv, InsideIsCheckedIn, InsideCanLeave, CanLeave
    <2> QED
      BY <2>1, <2>2 DEF VisitsAreTrue, PassInv
  <1> QED
    BY <1>1, PassInvariant, PTL
=============================================================================
