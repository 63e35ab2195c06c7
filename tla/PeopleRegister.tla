--------------------------- MODULE PeopleRegister ---------------------------
(***************************************************************************)
(* The register of people: accounts and household dependants, each with    *)
(* one Employee ID by which every terminal knows it, the files that create *)
(* and edit people in bulk, bulk deletion, and the resynchronisation that  *)
(* queues every card again.                                                *)
(*                                                                         *)
(* An Employee ID must be unique over two tables, which no index spans:    *)
(* a request looks for it and writes later.  Numbers that differ in the    *)
(* case of their letters are one number; the indexes, and the look that    *)
(* the two files take, tell their spellings apart.  A file is the set of   *)
(* its rows (a file's duplicates are found while it is read).  Names,      *)
(* contact data and the rules on roles are left out; a property given to   *)
(* an imported account is Residency's AssignOwner.                         *)
(***************************************************************************)
EXTENDS Integers, Sequences, FiniteSets

CONSTANTS
    AccountIds, DependantIds,   \* people, in the register or still to come
    EmployeeIds,                \* numbers a file or a form may supply
    Own,                        \* no number supplied: a new person's own UUID gives one
    Spellings, Lower,           \* ways to write a number, and the one in lower case
    RegisterDesks,              \* requests in progress
    MaxFileRows,                \* bound: rows of a file
    MaxRegisterEvents           \* bound: requests, files, and requests cut off

ASSUME RegisterAssumption ==
    /\ AccountIds \cap DependantIds = {} /\ Own \notin EmployeeIds /\ Lower \in Spellings
    /\ {MaxFileRows, MaxRegisterEvents} \subseteq Nat

People == AccountIds \cup DependantIds
TableOf(p) == IF p \in AccountIds THEN AccountIds ELSE DependantIds

VARIABLES
    person,       \* person[p]: status ("absent" until created), Employee ID and its spelling
    badge,        \* badge[p]: access_cards.status of the person's card
    badgeOps,     \* badgeOps[p]: open card commands, oldest first
    counter,      \* counter[d]: a request in progress
    racedIds,     \* history: numbers taken between a request's look and its write
    overlooked,   \* history: numbers that a file did not find as they are spelt
    registerEvents

history == <<racedIds, overlooked>>
registerVars == <<person, badge, badgeOps, counter, racedIds, overlooked, registerEvents>>

Free == [step |-> "free"]

RegisterInit ==
    /\ person = [p \in People |-> [status |-> "absent", number |-> Own, spelt |-> Lower]]
    /\ badge = [p \in People |-> "none"]
    /\ badgeOps = [p \in People |-> <<>>]
    /\ counter = [d \in RegisterDesks |-> Free]
    /\ racedIds = {} /\ overlooked = {}
    /\ registerEvents = 0

RegisterEvent == registerEvents < MaxRegisterEvents /\ registerEvents' = registerEvents + 1
Serving(d, step) == counter[d].step = step
Serve(d, r) == counter' = [counter EXCEPT ![d] = r]

-----------------------------------------------------------------------------
(* Employee IDs. *)

\* Mutant: only the accounts are looked through.
InUseMutant(n, but) == \E p \in AccountIds \ {but} : n # Own /\ person[p].number = n
\* employeeIdInUse: in either table, by another person, whatever the spelling.
employeeIdInUse(n, but) == \E p \in People \ {but} : n # Own /\ person[p].number = n

\* The two unique indexes: one number, as it is spelt, per table.
Fits(p, n, s) == \A q \in TableOf(p) \ {p} : n # Own /\ person[q].number = n => person[q].spelt # s

\* history: a number nobody else had when the request looked is somebody else's by now.
NoteRaced(d, written) == racedIds' = racedIds \cup
    {r.number : r \in {r \in written : /\ r.number # Own /\ r.number \notin counter[d].taken
                                      /\ \E q \in People \ {r.who} : person[q].number = r.number}}
TakenBy(others) == {person[p].number : p \in others} \ {Own}

\* An empty number gives a new person its own; a known person's stays as it is.
resolveNewEmployeeId(p, n) == person[p].status = "absent" /\ ~employeeIdInUse(n, p)
resolveUpdatedEmployeeId(p, n) == person[p].status # "absent" /\ n # Own /\ ~employeeIdInUse(n, p)

LooksUp(d, p, n, s) ==
    /\ RegisterEvent /\ Serving(d, "free")
    /\ Serve(d, [step |-> "number", who |-> p, number |-> n, spelt |-> s, was |-> person[p].status,
                 taken |-> TakenBy(People \ {p})])
    /\ UNCHANGED <<person, badge, badgeOps, history>>

\* POST and PATCH of an account or a household member.
CreatePerson(d, p, n, s) == resolveNewEmployeeId(p, n) /\ LooksUp(d, p, n, s)
EditPerson(d, p, n, s) == resolveUpdatedEmployeeId(p, n) /\ LooksUp(d, p, n, s)

\* A row that is in the table already is not inserted again.
WriteNumber(d) ==
    LET p == counter[d].who
        n == counter[d].number
        s == counter[d].spelt IN
    /\ Serving(d, "number")
    /\ IF Fits(p, n, s) /\ (counter[d].was = "absent" => person[p].status = "absent")
       THEN /\ person' = [person EXCEPT ![p] =
                    [status |-> IF @.status = "absent" THEN "active" ELSE @.status,
                     number |-> IF n = Own THEN @.number ELSE n,
                     spelt |-> IF n = Own THEN @.spelt ELSE s]]
            /\ NoteRaced(d, {[who |-> p, number |-> n]})
       ELSE UNCHANGED <<person, racedIds>>
    /\ Serve(d, Free)
    /\ UNCHANGED <<badge, badgeOps, overlooked, registerEvents>>

-----------------------------------------------------------------------------
(* Files. *)

\* The numbers of a file are looked for with IN over a column of binary collation: a
\* number is found where it is spelt as it is sought.
Sought(r, lowered) == IF lowered THEN Lower ELSE r.spelt
HeldAs(n, s) == \E q \in People : n # Own /\ person[q].number = n /\ person[q].spelt = s

\* A file is read row by row; rows that cannot be satisfied are reported and left out.
Satisfied(rows, lowered) ==
    {r \in rows : person[r.who].status = "absent" /\ ~HeldAs(r.number, Sought(r, lowered))}
Distinct(rows) == \A r, s \in rows : r # s => r.who # s.who /\ (r.number = s.number => r.number = Own)

\* history: somebody has the number in another spelling than the one sought.
NoteOverlooked(rows, lowered) == overlooked' = overlooked \cup
    {r.number : r \in {r \in rows : \E q \in People : /\ r.number # Own /\ person[q].number = r.number
                                                     /\ person[q].spelt # Sought(r, lowered)}}

FileReads(d, rows, lowered) ==
    /\ RegisterEvent /\ Serving(d, "free")
    /\ Serve(d, [step |-> "accounts", rows |-> Satisfied(rows, lowered), taken |-> TakenBy(People)])
    /\ NoteOverlooked(Satisfied(rows, lowered), lowered)
    /\ UNCHANGED <<person, badge, badgeOps, racedIds>>

\* POST /api/people/bulk-upload up to its first write; it looks for numbers in lower case.
BulkUploadReads(d, rows) == FileReads(d, rows, TRUE)

\* POST /api/imports/users: accounts only, their numbers sought as the file spells them.
ImportUsersReads(d, rows) == (\A r \in rows : r.who \in AccountIds) /\ FileReads(d, rows, FALSE)

RowsOf(d, T) == {r \in counter[d].rows : r.who \in T}
\* A batch inserts every row or none.
BatchRows(d, T) ==
    IF \A r \in RowsOf(d, T) : person[r.who].status = "absent" /\ Fits(r.who, r.number, r.spelt)
    THEN RowsOf(d, T) ELSE {}

InsertBatch(d, T) ==
    /\ person' = [p \in People |->
            IF \E r \in BatchRows(d, T) : r.who = p
            THEN LET r == CHOOSE r \in BatchRows(d, T) : r.who = p
                 IN  [status |-> "active", number |-> r.number, spelt |-> r.spelt]
            ELSE person[p]]
    /\ NoteRaced(d, BatchRows(d, T))
    /\ UNCHANGED overlooked

UploadAccounts(d) ==
    /\ Serving(d, "accounts")
    /\ InsertBatch(d, AccountIds)
    /\ Serve(d, [counter[d] EXCEPT !.step = "dependants"])
    /\ UNCHANGED <<badge, badgeOps, registerEvents>>

UploadDependants(d) ==
    /\ Serving(d, "dependants")
    /\ InsertBatch(d, DependantIds)
    /\ Serve(d, Free)
    /\ UNCHANGED <<badge, badgeOps, registerEvents>>

\* One row of POST /api/people/bulk-edit: the person is found by its number, the new
\* number is looked for ...
BulkEditReads(d, p, n, s, status) ==
    /\ RegisterEvent /\ Serving(d, "free")
    /\ person[p].status # "absent"
    /\ ~employeeIdInUse(n, p)
    /\ Serve(d, [step |-> "edit", who |-> p, number |-> n, spelt |-> s, status |-> status,
                 was |-> person[p].status, taken |-> TakenBy(People \ {p})])
    /\ UNCHANGED <<person, badge, badgeOps, history>>

\* ... and the row is written; a clash with the index ends the request.
BulkEditWrites(d) ==
    LET r == counter[d] IN
    /\ Serving(d, "edit")
    /\ IF Fits(r.who, r.number, r.spelt)
       THEN /\ person' = [person EXCEPT ![r.who] =
                    [status |-> r.status, number |-> IF r.number = Own THEN @.number ELSE r.number,
                     spelt |-> IF r.number = Own THEN @.spelt ELSE r.spelt]]
            /\ NoteRaced(d, {[who |-> r.who, number |-> r.number]})
            /\ Serve(d, IF r.status = "inactive" /\ r.was = "active"
                        THEN [step |-> "suspend", who |-> r.who] ELSE Free)
       ELSE Serve(d, Free) /\ UNCHANGED <<person, racedIds>>
    /\ UNCHANGED <<badge, badgeOps, overlooked, registerEvents>>

\* One person of POST /api/people/bulk-delete.
BulkDelete(d, p) ==
    /\ RegisterEvent /\ Serving(d, "free")
    /\ person[p].status # "absent"
    /\ person' = [person EXCEPT ![p].status = "inactive"]
    /\ Serve(d, [step |-> "suspend", who |-> p])
    /\ UNCHANGED <<badge, badgeOps, history>>

\* suspendUserCards, suspendDependantCredentials: the active card, and its command.
SuspendCards(d) ==
    LET p == counter[d].who IN
    /\ Serving(d, "suspend")
    /\ IF badge[p] = "active"
       THEN /\ badge' = [badge EXCEPT ![p] = "suspended"]
            /\ badgeOps' = [badgeOps EXCEPT ![p] = Append(@, "disable_card")]
       ELSE UNCHANGED <<badge, badgeOps>>
    /\ Serve(d, Free)
    /\ UNCHANGED <<person, history, registerEvents>>

-----------------------------------------------------------------------------
(* Cards and their commands. *)

\* One row of POST /api/imports/cards: an active person and a card nobody has ...
ImportCardReads(d, p) ==
    /\ RegisterEvent /\ Serving(d, "free")
    /\ person[p].status = "active" /\ badge[p] = "none"
    /\ Serve(d, [step |-> "card", who |-> p])
    /\ UNCHANGED <<person, badge, badgeOps, history>>

\* ... whose row and command follow; the card's number is unique.
ImportCardWrites(d) ==
    LET p == counter[d].who IN
    /\ Serving(d, "card")
    /\ IF badge[p] = "none"
       THEN /\ badge' = [badge EXCEPT ![p] = "active"]
            /\ badgeOps' = [badgeOps EXCEPT ![p] = Append(@, "upsert_card")]
       ELSE UNCHANGED <<badge, badgeOps>>
    /\ Serve(d, Free)
    /\ UNCHANGED <<person, history, registerEvents>>

\* The person's cards, every terminal's open commands, and the person's number if it
\* has none yet.
ResyncReads(d, p) ==
    /\ RegisterEvent /\ Serving(d, "free")
    /\ badge[p] # "none"
    /\ Serve(d, [step |-> "resync", who |-> p, card |-> badge[p],
                 open |-> {badgeOps[p][i] : i \in DOMAIN badgeOps[p]}])
    /\ UNCHANGED <<person, badge, badgeOps, history>>

Wanted(status) == IF status = "active" THEN "upsert_card" ELSE "disable_card"
\* A command that is open already is not queued twice.
AlreadyQueued(r) == Wanted(r.card) \in r.open

ResyncQueues(d) ==
    LET r == counter[d] IN
    /\ Serving(d, "resync")
    /\ badgeOps' = IF AlreadyQueued(r) THEN badgeOps
                   ELSE [badgeOps EXCEPT ![r.who] = Append(@, Wanted(r.card))]
    /\ Serve(d, Free)
    /\ UNCHANGED <<person, badge, history, registerEvents>>

\* The bridge applies the oldest command.
TerminalApplies(p) ==
    /\ badgeOps[p] # <<>>
    /\ badgeOps' = [badgeOps EXCEPT ![p] = Tail(@)]
    /\ UNCHANGED <<person, badge, counter, history, registerEvents>>

\* A request is cut off between two of its writes.
RegisterRequestDies(d) ==
    /\ ~Serving(d, "free") /\ RegisterEvent
    /\ Serve(d, Free)
    /\ UNCHANGED <<person, badge, badgeOps, history>>

Rows == {r \in [who : People, number : EmployeeIds \cup {Own}, spelt : Spellings] :
            r.number = Own => r.spelt = Lower}
Files == {rows \in SUBSET Rows : Distinct(rows) /\ Cardinality(rows) \in 1..MaxFileRows}

RegisterNext ==
    \/ \E d \in RegisterDesks :
        \/ \E r \in Rows :
            \/ CreatePerson(d, r.who, r.number, r.spelt) \/ EditPerson(d, r.who, r.number, r.spelt)
            \/ \E status \in {"active", "inactive"} : BulkEditReads(d, r.who, r.number, r.spelt, status)
        \/ WriteNumber(d)
        \/ \E rows \in Files : BulkUploadReads(d, rows) \/ ImportUsersReads(d, rows)
        \/ UploadAccounts(d) \/ UploadDependants(d)
        \/ BulkEditWrites(d)
        \/ \E p \in People : BulkDelete(d, p) \/ ResyncReads(d, p) \/ ImportCardReads(d, p)
        \/ SuspendCards(d) \/ ImportCardWrites(d) \/ ResyncQueues(d) \/ RegisterRequestDies(d)
    \/ \E p \in People : TerminalApplies(p)

RegisterSpec == RegisterInit /\ [][RegisterNext]_registerVars

-----------------------------------------------------------------------------
(* Properties. *)

\* People, cards and commands have their types.
RegisterTypeOK ==
    /\ \A p \in People :
        /\ person[p].status \in {"absent", "active", "inactive"}
        /\ person[p].number \in EmployeeIds \cup {Own} /\ person[p].spelt \in Spellings
        /\ badge[p] \in {"none", "active", "suspended"}
        /\ \A i \in DOMAIN badgeOps[p] : badgeOps[p][i] \in {"upsert_card", "disable_card"}

\* "The number resolves to exactly one person": two people share an Employee ID only
\* if it was taken between one request's look and its write, or if a file did not find
\* it because somebody has it in another spelling than the one the file sought.
SharedNumbersAreRaces ==
    \A p, q \in People :
        p # q /\ person[p].number = person[q].number =>
            person[p].number \in racedIds \cup overlooked \cup {Own}
=============================================================================
