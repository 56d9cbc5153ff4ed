------------------------------ MODULE Disclosure ------------------------------
(***************************************************************************)
(* The disclosure desk (disclosure.ts, store.ts 3698-4810, the routes under *)
(* /api/internal/prospects in app.ts): one case per prospect, kept by       *)
(* several operators at once, and the prospect's outreach status.           *)
(*                                                                         *)
(* A request reads the case in one query and writes it in another; an       *)
(* update or a preview writes back every column it read.                    *)
(***************************************************************************)
EXTENDS Naturals

CONSTANTS
    Prospects,   \* leads; each has at most one case
    Kin,         \* Kin[p]: prospects that match p for good: the same owner or
                 \* package, or a common fingerprint
    Checks,      \* the verification checklist
    Operators    \* operators; each has one request under way

ASSUME DisclosureAssumption ==
    /\ Prospects # {}
    /\ Kin \in [Prospects -> SUBSET Prospects]
    /\ \A p, q \in Prospects : q \in Kin[p] => p # q /\ p \in Kin[q]
    /\ "reproduced" \in Checks

VARIABLES
    status,    \* status[p]: outreach status; "new" stands for ignored and fixed
    hash,      \* prospects whose artifact hash a scan has recorded
    case,      \* case[p]: the row of disclosure_cases
    links,     \* confirmed duplicates, as unordered pairs
    request    \* request[o]: what the operator's request has read

vars == <<status, hash, case, links, request>>

\* "signal" stands for verifying too, "dismissed" for false_positive and
\* duplicate, and a case that is not approved is unreviewed, pending or rejected.
States == {"signal", "verified", "dismissed"}
Case == [open : BOOLEAN, state : States, checklist : SUBSET Checks, steps : BOOLEAN,
         approved : BOOLEAN]

NoCase == [open |-> FALSE, state |-> "signal", checklist |-> {}, steps |-> FALSE,
           approved |-> FALSE]

\* A request about to write: row is what it has read of the case, matches the
\* cases it took for duplicates.
Stages == {"create", "edit", "assign", "gated", "confirmed", "linked"}
Request == [at : Stages \cup {"idle"}, of : Prospects, row : Case, matches : SUBSET Prospects]

Idle(o) == request[o].at = "idle"

Ask(o, stage, p, row, matches) ==
    request' = [request EXCEPT ![o] = [at |-> stage, of |-> p, row |-> row, matches |-> matches]]

\* An answered request leaves nothing behind.
AnswerTo(o) == Ask(o, "idle", CHOOSE p \in Prospects : TRUE, NoCase, {})

-----------------------------------------------------------------------------
(* Opening a case.                                                          *)

\* Mutant: a case matches itself.
MatchSelf(p) ==
    LET cases == {q \in Prospects : case[q].open} IN
    {matches \in SUBSET cases : Kin[p] \cap cases \subseteq matches}

\* What findDuplicateMatches may return: of the cases of other prospects, all
\* kin of p and whichever share a host with p.  Policies, contacts and stored
\* hosts change with every update and view of a case, so a match by host at one
\* look need not be one at another.
DuplicateMatches(p) ==
    LET others == {q \in Prospects \ {p} : case[q].open} IN
    {matches \in SUBSET others : Kin[p] \cap others \subseteq matches}

\* Matches need the operator's confirmation.
AskCreate(o, p) ==
    /\ Idle(o) /\ ~case[p].open
    /\ \E matches \in DuplicateMatches(p) : Ask(o, "create", p, NoCase, matches)
    /\ UNCHANGED <<status, hash, case, links>>

\* prospect_id is unique: of two inserts the second fails.
CreateDisclosureCase(o) ==
    LET p == request[o].of IN
    /\ request[o].at = "create" /\ ~case[p].open
    /\ case' = [case EXCEPT ![p] = [NoCase EXCEPT !.open = TRUE]]
    /\ links' = links \cup {{p, q} : q \in request[o].matches}
    /\ AnswerTo(o)
    /\ UNCHANGED <<status, hash>>

-----------------------------------------------------------------------------
(* Keeping a case.                                                          *)

\* An update and a preview read the columns they write back.
AskEdit(o, p) ==
    /\ Idle(o) /\ case[p].open
    /\ Ask(o, "edit", p, [case[p] EXCEPT !.steps = FALSE, !.approved = FALSE], {})
    /\ UNCHANGED <<status, hash, case, links>>

AskAssign(o, p) ==
    /\ Idle(o) /\ case[p].open
    /\ Ask(o, "assign", p, [NoCase EXCEPT !.approved = case[p].approved], {})
    /\ UNCHANGED <<status, hash, case, links>>

\* Mutant: an artifact needs no hash.
AllowHashless(p, row, checklist, steps, state) ==
    /\ ("reproduced" \in checklist) => (steps \/ "reproduced" \in row.checklist)
    /\ (state = "verified" /\ row.state # "verified") => steps

\* assertChecklistAllowed, assertVerifiedArtifactHash and
\* assertVerifiedReproducibilitySteps: the last two only look at a case that
\* was not verified when it was read.
Allowed(p, row, checklist, steps, state) ==
    /\ ("reproduced" \in checklist) => (steps \/ "reproduced" \in row.checklist)
    /\ (state = "verified" /\ row.state # "verified") => (p \in hash /\ steps)

\* resolveDisclosureState: a complete checklist verifies the case unless the
\* request names a state, and an empty one leaves the state as it was.
Resolved(row, checklist, explicit) ==
    CASE explicit # "unset" -> explicit
      [] explicit = "unset" /\ checklist = Checks -> "verified"
      [] explicit = "unset" /\ checklist # Checks /\ checklist # {} -> "signal"
      [] OTHER -> row.state

UpdateDisclosureCase(o) ==
    LET p == request[o].of
        row == request[o].row IN
    /\ request[o].at = "edit"
    /\ \E checklist \in SUBSET Checks, steps \in BOOLEAN, explicit \in States \cup {"unset"} :
         LET state == Resolved(row, checklist, explicit) IN
         /\ explicit = "verified" => checklist = Checks
         /\ Allowed(p, row, checklist, steps, state)
         /\ case' = [case EXCEPT ![p].state = state, ![p].checklist = checklist,
                                 ![p].steps = steps]
    /\ AnswerTo(o)
    /\ UNCHANGED <<status, hash, links>>

\* Rendering a draft saves it, with the columns read before; the steps stay.
PreviewDisclosureCase(o) ==
    LET row == request[o].row IN
    /\ request[o].at = "edit"
    /\ case' = [case EXCEPT ![request[o].of].state = row.state,
                            ![request[o].of].checklist = row.checklist]
    /\ AnswerTo(o)
    /\ UNCHANGED <<status, hash, links>>

\* An assignment writes back the review state it read.
AssignDisclosureCase(o) ==
    /\ request[o].at = "assign"
    /\ case' = [case EXCEPT ![request[o].of].approved = request[o].row.approved]
    /\ AnswerTo(o)
    /\ UNCHANGED <<status, hash, links>>

ReviewDisclosureCase(p) ==
    /\ case[p].open
    /\ \E approved \in BOOLEAN : case' = [case EXCEPT ![p].approved = approved]
    /\ UNCHANGED <<status, hash, links, request>>

\* completeProspectScan keeps the hash of a scan that reports none.
CompleteProspectScan(p) ==
    /\ p \notin hash
    /\ hash' = hash \cup {p}
    /\ UNCHANGED <<status, case, links, request>>

-----------------------------------------------------------------------------
(* Outreach: PATCH of the prospect's status.                                *)

\* outreachBlocked and the review; both look at the row read first.
Gate(row) == row.state = "verified" /\ row.approved

AskContact(o, p) ==
    /\ Idle(o) /\ case[p].open /\ Gate(case[p])
    /\ Ask(o, "gated", p, NoCase, {})
    /\ UNCHANGED <<status, hash, case, links>>

\* Mutant: only cases that were contacted count as duplicates.
ConfirmContacted(o) ==
    LET p == request[o].of IN
    /\ request[o].at = "gated"
    /\ \E matches \in DuplicateMatches(p) :
         Ask(o, "confirmed", p, NoCase, {q \in matches : status[q] = "contacted"})
    /\ UNCHANGED <<status, hash, case, links>>

\* findDuplicateMatches: matches need the operator's confirmation.
ConfirmContact(o) ==
    LET p == request[o].of IN
    /\ request[o].at = "gated"
    /\ \E matches \in DuplicateMatches(p) : Ask(o, "confirmed", p, NoCase, matches)
    /\ UNCHANGED <<status, hash, case, links>>

RecordDuplicateLinks(o) ==
    LET p == request[o].of IN
    /\ request[o].at = "confirmed"
    /\ links' = links \cup {{p, q} : q \in request[o].matches}
    /\ Ask(o, "linked", p, NoCase, {})
    /\ UNCHANGED <<status, hash, case>>

\* The prospect is contacted, whatever has become of its case since.
ContactProspect(o) ==
    /\ request[o].at = "linked"
    /\ status' = [status EXCEPT ![request[o].of] = "contacted"]
    /\ AnswerTo(o)
    /\ UNCHANGED <<hash, case, links>>

ResetProspect(p) ==
    /\ status[p] = "contacted"
    /\ status' = [status EXCEPT ![p] = "new"]
    /\ UNCHANGED <<hash, case, links, request>>

\* A check refuses the request (a do-not-contact entry matches, a duplicate is
\* not confirmed, the case exists), or the connection or the process goes away.
Abandon(o) ==
    /\ ~Idle(o) /\ AnswerTo(o)
    /\ UNCHANGED <<status, hash, case, links>>

-----------------------------------------------------------------------------
Init ==
    /\ status = [p \in Prospects |-> "new"] /\ hash = {}
    /\ case = [p \in Prospects |-> NoCase] /\ links = {}
    /\ request = [o \in Operators |-> [at |-> "idle", of |-> CHOOSE p \in Prospects : TRUE,
                                       row |-> NoCase, matches |-> {}]]

Next ==
    \/ \E o \in Operators, p \in Prospects :
         AskCreate(o, p) \/ AskEdit(o, p) \/ AskAssign(o, p) \/ AskContact(o, p)
    \/ \E o \in Operators :
         \/ CreateDisclosureCase(o) \/ UpdateDisclosureCase(o)
         \/ PreviewDisclosureCase(o) \/ AssignDisclosureCase(o)
         \/ ConfirmContact(o) \/ RecordDuplicateLinks(o) \/ ContactProspect(o)
         \/ Abandon(o)
    \/ \E p \in Prospects :
         ReviewDisclosureCase(p) \/ CompleteProspectScan(p) \/ ResetProspect(p)

Spec == Init /\ [][Next]_vars

-----------------------------------------------------------------------------
(* Properties.                                                             *)

\* Every variable has its type: a link joins two prospects, never one with
\* itself.
DeskTypeOK ==
    /\ status \in [Prospects -> {"new", "contacted"}] /\ hash \subseteq Prospects
    /\ case \in [Prospects -> Case]
    /\ \A l \in links : \E p \in Prospects : \E q \in Prospects \ {p} : l = {p, q}
    /\ request \in [Operators -> Request]

\* "A lead cannot be marked verified without a repeatable artifact hash",
\* whichever stale columns an update or a preview writes back.
VerifiedHasHash == \A p \in Prospects : case[p].state = "verified" => p \in hash

\* Two prospects of one owner or package, or with a common fingerprint, are never
\* both contacted without a confirmed duplicate link, also when two operators
\* contact them at the same time and when neither case saw the other as it was
\* opened.  Nothing of the kind holds of prospects that only share a host: the
\* host may be stored after both were contacted.
KinOutreachLinked ==
    \A p \in Prospects : \A q \in Kin[p] :
        status[p] = "contacted" /\ status[q] = "contacted" => {p, q} \in links

\* "A signal cannot enter outreach state without verification evidence": a case
\* that passes the gate has its checklist and its steps.  This does not hold: see
\* the README, "What does not hold".
GateHasEvidence ==
    \A p \in Prospects :
        case[p].open /\ Gate(case[p]) => case[p].checklist = Checks /\ case[p].steps
=============================================================================
