-------------------------- MODULE AccessOperations --------------------------
(***************************************************************************)
(* scripts/access-operations.mjs: an operator's run that retries failed    *)
(* commands, suspends and restores a person's cards, takes people off the  *)
(* terminals, and registers fingerprints with a colliding employee number  *)
(* again under a fresh one.                                                *)
(*                                                                         *)
(* The run reads everything first, prints a plan, and carries the plan out *)
(* one API call at a time, stopping at the first call that fails; other    *)
(* administrators work meanwhile.  A fingerprint is a row (person, finger, *)
(* employee number, status); revoked rows stay.                            *)
(***************************************************************************)
EXTENDS Naturals, FiniteSets

CONSTANTS
    ToolPeople, ToolCards, CardOwner, Fingers,
    UserIds,          \* the employee numbers that are some account's id
    NumberBase,       \* --number-base
    Directory,        \* Directory[q]: who matches a query by id, e-mail, name and unit
    FailedJobs,       \* commands that have failed before the run
    FirstRows,        \* the fingerprint rows to begin with: a set of such sets
    MaxToolRuns, MaxToolEvents   \* bounds: runs; failed calls and other administrators' steps

ASSUME ToolAssumption ==
    /\ CardOwner \in [ToolCards -> ToolPeople]
    /\ \A r \in FirstRows : r \subseteq [person : ToolPeople, finger : Fingers, number : Nat,
                                         status : {"active", "suspended", "revoked"}]
    /\ UserIds \subseteq Nat /\ NumberBase \in Nat
    /\ \A q \in DOMAIN Directory, n \in 1 .. 4 : Directory[q][n] \subseteq ToolPeople
    /\ MaxToolRuns \in Nat /\ MaxToolEvents \in Nat

VARIABLES
    rows,          \* fingerprint_credentials
    cardState,     \* access_cards.status
    failedJobs,    \* device_operations that are failed
    tool,          \* the run in progress: its step and what is left of its plan
    leftOver,      \* history: what a stopped run has done one half of
    disturbed,     \* history: another administrator changed something during the run
    toolRuns, toolEvents

toolVars == <<rows, cardState, failedJobs, tool, leftOver, disturbed, toolRuns, toolEvents>>

Ready == [step |-> "ready"]
Live(f) == f.status \in {"active", "suspended"}

ToolInit ==
    /\ rows \in FirstRows
    /\ cardState \in [ToolCards -> {"active", "suspended"}]
    /\ failedJobs \in SUBSET FailedJobs
    /\ tool = Ready
    /\ leftOver = {}
    /\ disturbed = FALSE
    /\ toolRuns = 0 /\ toolEvents = 0

ToolEvent == toolEvents < MaxToolEvents /\ toolEvents' = toolEvents + 1

-----------------------------------------------------------------------------
(* The plan *)

\* The single match of the first way of matching that has any; ambiguous or
\* unknown queries end the run before it begins.
resolvePerson(q) ==
    LET levels == {n \in 1 .. 4 : Directory[q][n] # {}}
        first  == CHOOSE n \in levels : \A m \in levels : n <= m
    IN  IF levels # {} /\ Cardinality(Directory[q][first]) = 1 THEN Directory[q][first] ELSE {}

planCycle(person) == {c \in ToolCards : CardOwner[c] = person /\ cardState[c] = "active"}

planRemovals(people) ==
    [cards   |-> {c \in ToolCards : CardOwner[c] \in people /\ cardState[c] \in {"active", "suspended"}},
     fingers |-> {f \in rows : f.person \in people /\ Live(f)}]

\* A live fingerprint of someone who stays, under an account's id or a number
\* that a row of someone else, of any status, carries too.
Colliding(removed) ==
    {f \in rows : /\ Live(f) /\ f.person \notin removed
                  /\ \/ f.number \in UserIds
                     \/ \E g \in rows : g.number = f.number /\ g.person # f.person}

\* Mutant: only the numbers of live fingerprints are taken.
TakenMutant == {f.number : f \in {g \in rows : Live(g)}} \cup UserIds
Taken == {f.number : f \in rows} \cup UserIds

\* The first k numbers from the base on that nobody has.
FreshNumbers(k) ==
    {n \in NumberBase .. (NumberBase + Cardinality(Taken) + k) :
        /\ n \notin Taken
        /\ Cardinality({m \in NumberBase .. (n - 1) : m \notin Taken}) < k}

\* The fingerprints are numbered in the order of their creation, which may be any.
planFingerprints(removed) ==
    LET colliding == Colliding(removed)
        fresh == FreshNumbers(Cardinality(colliding))
    IN  {a \in [colliding -> fresh] : \A f, g \in colliding : f # g => a[f] # a[g]}

\* main up to the confirmation.  A person who is to be removed is not cycled.
\* A run without --execute ends here, having changed nothing.
PlanRun(person, removal) ==
    /\ tool.step \in {"ready", "finished"} /\ toolRuns < MaxToolRuns
    /\ toolRuns' = toolRuns + 1
    /\ LET who == resolvePerson(person)
           removed == UNION {resolvePerson(q) : q \in removal}
       IN  /\ who # {} /\ \A q \in removal : resolvePerson(q) # {}
           /\ \E numbers \in planFingerprints(removed) :
                tool' = [step |-> "confirm", retries |-> failedJobs, removed |-> removed,
                         cycle |-> UNION {planCycle(p) : p \in who \ removed}, restoring |-> {},
                         removal |-> planRemovals(removed),
                         numbers |-> numbers, readding |-> {}]
    /\ disturbed' = FALSE
    /\ UNCHANGED <<rows, cardState, failedJobs, leftOver, toolEvents>>

\* EXECUTE is typed, or anything else.
Confirm(execute) ==
    /\ tool.step = "confirm"
    /\ tool' = IF execute THEN [tool EXCEPT !.step = "retry"] ELSE Ready
    /\ UNCHANGED <<rows, cardState, failedJobs, leftOver, disturbed, toolRuns, toolEvents>>

-----------------------------------------------------------------------------
(* The calls, one after the other *)

\* A call of the API changes the estate and the rest of the plan; or it fails,
\* with or without its effect, and the run stops.  half: what is then half done.
Call(effect, unchanged, rest, half) ==
    \/ /\ effect /\ tool' = rest
       /\ UNCHANGED <<leftOver, toolEvents>>
    \/ /\ ToolEvent /\ (effect \/ unchanged)
       /\ tool' = Ready
       /\ leftOver' = leftOver \cup half

runRetries ==
    /\ tool.step = "retry" /\ tool.retries # {}
    /\ \E j \in tool.retries :
          Call(failedJobs' = failedJobs \ {j}, UNCHANGED failedJobs,
               [tool EXCEPT !.retries = @ \ {j}], {})
    /\ UNCHANGED <<rows, cardState, disturbed, toolRuns>>

PatchCard(c, s) == cardState' = [cardState EXCEPT ![c] = s]

\* Suspended, then active again, whatever the card was meanwhile.
runCycle ==
    /\ tool.step = "cycle"
    /\ IF tool.restoring # {}
       THEN \E c \in tool.restoring :
              Call(PatchCard(c, "active"), UNCHANGED cardState,
                   [tool EXCEPT !.restoring = {}], {<<"card", c>>})
       ELSE \E c \in tool.cycle :
              Call(PatchCard(c, "suspended"), UNCHANGED cardState,
                   [tool EXCEPT !.cycle = @ \ {c}, !.restoring = {c}], {<<"card", c>>})
    /\ UNCHANGED <<rows, failedJobs, disturbed, toolRuns>>

DeleteFinger(f) == rows' = (rows \ {f}) \cup {[f EXCEPT !.status = "revoked"]}

runRemovals ==
    /\ tool.step = "remove"
    /\ \/ \E c \in tool.removal.cards :
            /\ Call(PatchCard(c, "revoked"), UNCHANGED cardState,
                    [tool EXCEPT !.removal.cards = @ \ {c}], {})
            /\ UNCHANGED rows
       \/ /\ tool.removal.cards = {}
          /\ \E f \in tool.removal.fingers :
               Call(DeleteFinger(f), UNCHANGED rows, [tool EXCEPT !.removal.fingers = @ \ {f}], {})
          /\ UNCHANGED cardState
    /\ UNCHANGED <<failedJobs, disturbed, toolRuns>>

\* POST /api/access/fingerprints refuses a finger that is live already.
AddFinger(person, finger, number) ==
    /\ \A g \in rows : Live(g) => <<g.person, g.finger>> # <<person, finger>>
    /\ rows' = rows \cup {[person |-> person, finger |-> finger, number |-> number, status |-> "active"]}

\* Deleted, then added under the planned number.
runFingerprints ==
    /\ tool.step = "fingers"
    /\ IF tool.readding # {}
       THEN \E f \in tool.readding :
              \/ Call(AddFinger(f.person, f.finger, tool.numbers[f]), UNCHANGED rows,
                      [tool EXCEPT !.readding = {},
                           !.numbers = [g \in DOMAIN tool.numbers \ {f} |-> tool.numbers[g]]],
                      {<<"finger", f.person, f.finger>>})
              \/ /\ \E g \in rows : Live(g) /\ <<g.person, g.finger>> = <<f.person, f.finger>>
                 /\ tool' = Ready
                 /\ UNCHANGED <<rows, leftOver, toolEvents>>
       ELSE \E f \in DOMAIN tool.numbers :
              Call(DeleteFinger(f), UNCHANGED rows, [tool EXCEPT !.readding = {f}],
                   {<<"finger", f.person, f.finger>>})
    /\ UNCHANGED <<cardState, failedJobs, disturbed, toolRuns>>

\* One task is done, and the next begins.
NextTask ==
    /\ tool' = CASE tool.step = "retry" /\ tool.retries = {} -> [tool EXCEPT !.step = "cycle"]
                 [] tool.step = "cycle" /\ tool.cycle \cup tool.restoring = {} ->
                        [tool EXCEPT !.step = "remove"]
                 [] tool.step = "remove" /\ tool.removal.cards = {} /\ tool.removal.fingers = {} ->
                        [tool EXCEPT !.step = "fingers"]
                 [] tool.step = "fingers" /\ DOMAIN tool.numbers = {} ->
                        [tool EXCEPT !.step = "finished"]
                 [] OTHER -> tool
    /\ tool' # tool
    /\ UNCHANGED <<rows, cardState, failedJobs, leftOver, disturbed, toolRuns, toolEvents>>

\* Another administrator adds a fingerprint under a typed number, or changes a card.
OtherAdministrator ==
    /\ ToolEvent
    /\ \/ /\ \E p \in ToolPeople, f \in Fingers, n \in {NumberBase} : AddFinger(p, f, n)
          /\ UNCHANGED cardState
       \/ /\ \E c \in ToolCards, s \in {"active", "suspended", "revoked"} : PatchCard(c, s)
          /\ UNCHANGED rows
    /\ disturbed' = TRUE
    /\ UNCHANGED <<failedJobs, tool, leftOver, toolRuns>>

ToolNext ==
    \/ \E q \in DOMAIN Directory, removal \in SUBSET DOMAIN Directory : PlanRun(q, removal)
    \/ \E e \in BOOLEAN : Confirm(e)
    \/ runRetries
    \/ runCycle
    \/ runRemovals
    \/ runFingerprints
    \/ NextTask
    \/ OtherAdministrator

ToolSpec == ToolInit /\ [][ToolNext]_toolVars

-----------------------------------------------------------------------------
(* Properties. *)

\* A run that finishes undisturbed leaves nothing to do: nobody shares a number
\* with another person or uses an account's id, the people it removed hold no
\* live credential, and every failed command it was given is open again.
FinishedRunsLeaveNothing ==
    tool.step = "finished" /\ ~disturbed =>
        /\ Colliding(tool.removed) = {}
        /\ \A f \in rows : f.person \in tool.removed => ~Live(f)
        /\ \A c \in ToolCards : CardOwner[c] \in tool.removed => cardState[c] = "revoked"
        /\ failedJobs = {}
=============================================================================
