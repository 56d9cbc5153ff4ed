--------------------------- MODULE DisclosureProofs ---------------------------
(* Theorems about Disclosure, for every set of prospects, operators and      *)
(* checks, whichever prospects are kin, and whichever match by a host.                            *)
EXTENDS Disclosure, TLAPS

-----------------------------------------------------------------------------
(* The invariant.                                                           *)

\* What a request r has read: a case that was verified has its hash, a case that
\* passed the gate is open, and it does not match itself.
RequestFine(r) ==
    /\ r.matches \subseteq Prospects \ {r.of}
    /\ r.at = "edit" /\ r.row.state = "verified" => r.of \in hash
    /\ r.at \in {"gated", "confirmed", "linked"} => case[r.of].open

RequestsTrue == \A o \in Operators : RequestFine(request[o])

ContactedOpen == \A p \in Prospects : status[p] = "contacted" => case[p].open

\* p is contacted, or is about to be with its links recorded.
Passed(p) ==
    \/ status[p] = "contacted"
    \/ \E o \in Operators : request[o].at = "linked" /\ request[o].of = p

\* Of two kin whose outreach was confirmed, the one confirmed later
\* has matched the other: their link is recorded, or is about to be.
PassedLinked ==
    \A p \in Prospects : \A q \in Kin[p] : Passed(p) /\ Passed(q) => {p, q} \in links

ConfirmedSees ==
    \A o \in Operators : request[o].at = "confirmed" =>
        \A q \in Kin[request[o].of] :
            Passed(q) => q \in request[o].matches \/ {request[o].of, q} \in links

ConfirmedMeet ==
    \A o, v \in Operators :
        /\ request[o].at = "confirmed" /\ request[v].at = "confirmed"
        /\ request[v].of \in Kin[request[o].of]
        => request[v].of \in request[o].matches \/ request[o].of \in request[v].matches

Pairs == PassedLinked /\ ConfirmedSees /\ ConfirmedMeet

DeskIInv == DeskTypeOK /\ RequestsTrue /\ VerifiedHasHash /\ ContactedOpen /\ Pairs

-----------------------------------------------------------------------------
LEMMA KinFacts ==
    /\ Kin \in [Prospects -> SUBSET Prospects]
    /\ \A p \in Prospects : \A q \in Kin[p] : q \in Prospects /\ p # q /\ p \in Kin[q]
  BY DisclosureAssumption

NoRequest == [at |-> "idle", of |-> CHOOSE p \in Prospects : TRUE, row |-> NoCase, matches |-> {}]

LEMMA NoRequestFine ==
    NoCase \in Case /\ NoRequest \in Request /\ RequestFine(NoRequest) /\ NoRequest.at = "idle"
  BY DisclosureAssumption DEF NoRequest, NoCase, Case, States, Request, Stages, RequestFine

LEMMA DeskInit == Init => DeskIInv
  <1> SUFFICES ASSUME Init PROVE DeskIInv
    OBVIOUS
  <1>1. /\ request = [o \in Operators |-> NoRequest] /\ case = [p \in Prospects |-> NoCase]
        /\ status = [p \in Prospects |-> "new"] /\ hash = {} /\ links = {}
    BY DEF Init, NoRequest
  <1>2. DeskTypeOK /\ RequestsTrue
    BY <1>1, NoRequestFine DEF DeskTypeOK, RequestsTrue
  <1>3. VerifiedHasHash /\ ContactedOpen
    BY <1>1 DEF VerifiedHasHash, ContactedOpen, NoCase
  <1>4. Pairs
    BY <1>1, NoRequestFine, KinFacts DEF Pairs, PassedLinked, ConfirmedSees, ConfirmedMeet, Passed
  <1> QED BY <1>2, <1>3, <1>4 DEF DeskIInv

\* What is there before a step.
LEMMA DeskFacts ==
    ASSUME DeskIInv
    PROVE  /\ status \in [Prospects -> {"new", "contacted"}] /\ hash \subseteq Prospects
           /\ case \in [Prospects -> Case] /\ request \in [Operators -> Request]
           /\ \A o \in Operators : /\ request[o].of \in Prospects /\ request[o].row \in Case
                                   /\ request[o].matches \subseteq Prospects \ {request[o].of}
                                   /\ RequestFine(request[o])
  BY DEF DeskIInv, DeskTypeOK, RequestsTrue, RequestFine, Request

\* A step after which the requests that were confirmed or linked are as they
\* were and links are kept says nothing new of pairs.
LEMMA PairsKept ==
    ASSUME DeskIInv, links \subseteq links',
           \A p \in Prospects : status'[p] = "contacted" => Passed(p),
           \A o \in Operators :
              request'[o].at \in {"confirmed", "linked"} => request'[o] = request[o]
    PROVE  Pairs'
  <1>1. \A p \in Prospects : Passed(p)' => Passed(p)
    BY DEF Passed
  <1>2. PassedLinked'
    BY <1>1, KinFacts DEF DeskIInv, Pairs, PassedLinked
  <1>3. ConfirmedSees'
    BY <1>1, DeskFacts, KinFacts DEF DeskIInv, Pairs, ConfirmedSees
  <1>4. ConfirmedMeet'
    BY DEF DeskIInv, Pairs, ConfirmedMeet
  <1> QED BY <1>2, <1>3, <1>4 DEF Pairs

\* A step of a request that reads, or ends with nothing written.
LEMMA AskKept ==
    ASSUME DeskIInv, NEW o \in Operators, NEW r \in Request, RequestFine(r),
           r.at \notin {"confirmed", "linked"}, request' = [request EXCEPT ![o] = r],
           UNCHANGED <<status, hash, case, links>>
    PROVE  DeskIInv'
  <1>1. DeskTypeOK'
    BY DEF DeskIInv, DeskTypeOK
  <1>2. RequestsTrue'
    <2> SUFFICES ASSUME NEW v \in Operators PROVE RequestFine(request[v])'
      BY DEF RequestsTrue
    <2>1. request'[v] = IF v = o THEN r ELSE request[v]
      BY DeskFacts
    <2> QED BY <2>1, DeskFacts DEF RequestFine
  <1>3. VerifiedHasHash' /\ ContactedOpen'
    BY DEF DeskIInv, VerifiedHasHash, ContactedOpen
  <1>4. Pairs'
    BY DeskFacts, PairsKept DEF Passed
  <1> QED BY <1>1, <1>2, <1>3, <1>4 DEF DeskIInv

LEMMA AskStep ==
    ASSUME DeskIInv, NEW o \in Operators,
           \/ \E p \in Prospects : AskCreate(o, p) \/ AskEdit(o, p) \/ AskAssign(o, p)
                                   \/ AskContact(o, p)
           \/ Abandon(o)
    PROVE  DeskIInv'
  <1>1. ASSUME NEW p \in Prospects, AskCreate(o, p) PROVE DeskIInv'
    <2>0. PICK matches \in DuplicateMatches(p) : Ask(o, "create", p, NoCase, matches)
      BY <1>1 DEF AskCreate
    <2> DEFINE r == [at |-> "create", of |-> p, row |-> NoCase, matches |-> matches]
    <2>1. matches \subseteq Prospects \ {p} /\ matches \subseteq Prospects
      BY DEF DuplicateMatches
    <2>2. r \in Request /\ RequestFine(r)
      BY <2>1, NoRequestFine DEF Request, Stages, RequestFine
    <2> QED BY <1>1, <2>0, <2>2, AskKept DEF AskCreate, Ask
  <1>2. ASSUME NEW p \in Prospects, AskEdit(o, p) PROVE DeskIInv'
    <2> DEFINE row == [case[p] EXCEPT !.steps = FALSE, !.approved = FALSE]
               r == [at |-> "edit", of |-> p, row |-> row, matches |-> {}]
    <2>1. row \in Case /\ row.state = case[p].state
      BY DeskFacts DEF Case
    <2>2. r \in Request /\ RequestFine(r)
      BY <2>1 DEF Request, Stages, RequestFine, DeskIInv, VerifiedHasHash
    <2> QED BY <1>2, <2>2, AskKept DEF AskEdit, Ask
  <1>3. ASSUME NEW p \in Prospects, AskAssign(o, p) PROVE DeskIInv'
    <2> DEFINE row == [NoCase EXCEPT !.approved = case[p].approved]
               r == [at |-> "assign", of |-> p, row |-> row, matches |-> {}]
    <2>1. row \in Case
      BY NoRequestFine, DeskFacts DEF Case
    <2>2. r \in Request /\ RequestFine(r)
      BY <2>1 DEF Request, Stages, RequestFine
    <2> QED BY <1>3, <2>2, AskKept DEF AskAssign, Ask
  <1>4. ASSUME NEW p \in Prospects, AskContact(o, p) PROVE DeskIInv'
    <2> DEFINE r == [at |-> "gated", of |-> p, row |-> NoCase, matches |-> {}]
    <2>1. r \in Request /\ RequestFine(r)
      BY <1>4, NoRequestFine DEF Request, Stages, RequestFine, AskContact
    <2> QED BY <1>4, <2>1, AskKept DEF AskContact, Ask
  <1>5. CASE Abandon(o)
    BY <1>5, NoRequestFine, AskKept DEF Abandon, AnswerTo, Ask, NoRequest
  <1> QED BY <1>1, <1>2, <1>3, <1>4, <1>5

-----------------------------------------------------------------------------
(* Steps that write.                                                        *)

LinksTyped(set) == \A l \in set : \E p \in Prospects : \E q \in Prospects \ {p} : l = {p, q}

\* A step that writes cases, statuses, hashes and links, none of which is taken
\* back but a status, and ends the request or is none.
LEMMA WriteKept ==
    ASSUME DeskIInv, NEW o,
           request' = [request EXCEPT ![o] = NoRequest] \/ request' = request,
           status' \in [Prospects -> {"new", "contacted"}],
           \A p \in Prospects : status'[p] = "contacted" => Passed(p) /\ case[p].open,
           hash \subseteq hash', hash' \subseteq Prospects,
           case' \in [Prospects -> Case],
           \A p \in Prospects : case[p].open => case'[p].open,
           \A p \in Prospects : case'[p].state = "verified" => p \in hash',
           links \subseteq links', LinksTyped(links')
    PROVE  DeskIInv'
  <1>1. \A v \in Operators : request'[v] = request[v] \/ request'[v] = NoRequest
    BY DeskFacts
  <1>2. request' \in [Operators -> Request]
    BY DeskFacts, NoRequestFine
  <1>3. DeskTypeOK'
    BY <1>2 DEF DeskTypeOK, LinksTyped
  <1>4. RequestsTrue'
    <2> SUFFICES ASSUME NEW v \in Operators PROVE RequestFine(request[v])'
      BY DEF RequestsTrue
    <2>1. CASE request'[v] = request[v]
      BY <2>1, DeskFacts DEF RequestFine
    <2>2. CASE request'[v] = NoRequest
      <3>1. NoRequest.matches = {} /\ NoRequest.at = "idle"
        BY DEF NoRequest
      <3> QED BY <2>2, <3>1 DEF RequestFine
    <2> QED BY <1>1, <2>1, <2>2
  <1>5. VerifiedHasHash' /\ ContactedOpen'
    BY DEF VerifiedHasHash, ContactedOpen
  <1>6. Pairs'
    BY <1>1, NoRequestFine, PairsKept
  <1> QED BY <1>3, <1>4, <1>5, <1>6 DEF DeskIInv

\* What a step may leave as it is.
LEMMA LeftAlone ==
    ASSUME DeskIInv
    PROVE  /\ \A p \in Prospects :
                status[p] = "contacted" => Passed(p) /\ case[p].open
           /\ \A p \in Prospects : case[p].state = "verified" => p \in hash
           /\ LinksTyped(links)
  BY DEF DeskIInv, ContactedOpen, Passed, VerifiedHasHash, LinksTyped, DeskTypeOK

LEMMA LinkMatches ==
    ASSUME DeskIInv, NEW o \in Operators
    PROVE  LinksTyped(links \cup {{request[o].of, q} : q \in request[o].matches})
  BY DeskFacts, LeftAlone DEF LinksTyped

LEMMA WriteStep ==
    ASSUME DeskIInv, NEW o \in Operators,
           \/ CreateDisclosureCase(o) \/ UpdateDisclosureCase(o) \/ PreviewDisclosureCase(o)
           \/ AssignDisclosureCase(o) \/ ContactProspect(o)
    PROVE  DeskIInv'
  <1> DEFINE p == request[o].of
             row == request[o].row
  <1>1. p \in Prospects /\ row \in Case /\ case[p] \in Case /\ request[o] \in Request
    BY DeskFacts
  <1>2. request[o].at \in {"gated", "confirmed", "linked"} => case[p].open
    BY DeskFacts DEF RequestFine
  <1>3. request[o].at = "edit" /\ row.state = "verified" => p \in hash
    BY DeskFacts DEF RequestFine
  <1>4. AnswerTo(o) => request' = [request EXCEPT ![o] = NoRequest]
    BY DEF AnswerTo, Ask, NoRequest
  <1>5. CASE CreateDisclosureCase(o)
    <2>1. /\ case' = [case EXCEPT ![p] = [NoCase EXCEPT !.open = TRUE]] /\ AnswerTo(o)
          /\ links' = links \cup {{p, q} : q \in request[o].matches}
          /\ status' = status /\ hash' = hash
      BY <1>5 DEF CreateDisclosureCase
    <2>2. /\ [NoCase EXCEPT !.open = TRUE] \in Case
          /\ [NoCase EXCEPT !.open = TRUE].open = TRUE
          /\ [NoCase EXCEPT !.open = TRUE].state = "signal"
      BY DEF NoCase, Case, States
    <2>3. /\ case' \in [Prospects -> Case] /\ \A q \in Prospects : case[q].open => case'[q].open
          /\ \A q \in Prospects : case'[q].state = "verified" => q \in hash'
      BY <2>1, <2>2, DeskFacts, LeftAlone
    <2> QED BY <1>4, <2>1, <2>3, DeskFacts, LeftAlone, LinkMatches, WriteKept
  <1>6. CASE UpdateDisclosureCase(o)
    <2>1. PICK checklist \in SUBSET Checks, steps \in BOOLEAN, explicit \in States \cup {"unset"} :
             /\ explicit = "verified" => checklist = Checks
             /\ Allowed(p, row, checklist, steps, Resolved(row, checklist, explicit))
             /\ case' = [case EXCEPT ![p].state = Resolved(row, checklist, explicit),
                                     ![p].checklist = checklist, ![p].steps = steps]
      BY <1>6, Zenon DEF UpdateDisclosureCase
    <2> DEFINE state == Resolved(row, checklist, explicit)
    <2>2. request[o].at = "edit" /\ AnswerTo(o) /\ status' = status /\ hash' = hash /\ links' = links
      BY <1>6 DEF UpdateDisclosureCase
    <2>3. state \in States
      BY SMTT(40), <1>1 DEF Resolved, States, Case
    <2>4. state = "verified" => p \in hash
      BY SMTT(40), <1>3, <2>1, <2>2 DEF Allowed
    <2> HIDE DEF state
    <2>5. /\ case' \in [Prospects -> Case] /\ case'[p].open = case[p].open
          /\ case'[p].state = state /\ \A q \in Prospects : q # p => case'[q] = case[q]
      BY SMTT(40), <1>1, <2>1, <2>3, DeskFacts DEF Case, state
    <2>6. /\ \A q \in Prospects : case[q].open => case'[q].open
          /\ \A q \in Prospects : case'[q].state = "verified" => q \in hash'
      BY <2>2, <2>4, <2>5, LeftAlone
    <2> QED BY <1>4, <2>2, <2>5, <2>6, DeskFacts, LeftAlone, WriteKept
  <1>7. CASE PreviewDisclosureCase(o)
    <2>1. /\ request[o].at = "edit" /\ AnswerTo(o) /\ status' = status /\ hash' = hash
          /\ links' = links
          /\ case' = [case EXCEPT ![p].state = row.state, ![p].checklist = row.checklist]
      BY <1>7 DEF PreviewDisclosureCase
    <2>2. /\ case' \in [Prospects -> Case] /\ case'[p].open = case[p].open
          /\ case'[p].state = row.state /\ \A q \in Prospects : q # p => case'[q] = case[q]
      BY <1>1, <2>1, DeskFacts DEF Case
    <2>3. /\ \A q \in Prospects : case[q].open => case'[q].open
          /\ \A q \in Prospects : case'[q].state = "verified" => q \in hash'
      BY <1>3, <2>1, <2>2, LeftAlone
    <2> QED BY <1>4, <2>1, <2>2, <2>3, DeskFacts, LeftAlone, WriteKept
  <1>8. CASE AssignDisclosureCase(o)
    <2>1. /\ AnswerTo(o) /\ status' = status /\ hash' = hash /\ links' = links
          /\ case' = [case EXCEPT ![p].approved = row.approved]
      BY <1>8 DEF AssignDisclosureCase
    <2>2. /\ case' \in [Prospects -> Case] /\ case'[p].open = case[p].open
          /\ case'[p].state = case[p].state /\ \A q \in Prospects : q # p => case'[q] = case[q]
      BY <1>1, <2>1, DeskFacts DEF Case
    <2> QED BY <1>4, <2>1, <2>2, DeskFacts, LeftAlone, WriteKept
  <1>9. CASE ContactProspect(o)
    <2>1. /\ request[o].at = "linked" /\ AnswerTo(o) /\ hash' = hash /\ case' = case
          /\ links' = links /\ status' = [status EXCEPT ![p] = "contacted"]
      BY <1>9 DEF ContactProspect
    <2>2. Passed(p) /\ case[p].open
      BY <1>1, <1>2, <2>1 DEF Passed
    <2>3. \A q \in Prospects : status'[q] = "contacted" => Passed(q) /\ case[q].open
      BY <2>1, <2>2, DeskFacts, LeftAlone
    <2> QED BY <1>4, <2>1, <2>3, DeskFacts, LeftAlone, WriteKept
  <1> QED BY <1>5, <1>6, <1>7, <1>8, <1>9

LEMMA ProspectStep ==
    ASSUME DeskIInv, NEW p \in Prospects,
           ReviewDisclosureCase(p) \/ CompleteProspectScan(p) \/ ResetProspect(p)
    PROVE  DeskIInv'
  <1>1. CASE ReviewDisclosureCase(p)
    <2>1. PICK approved \in BOOLEAN : case' = [case EXCEPT ![p].approved = approved]
      BY <1>1 DEF ReviewDisclosureCase
    <2>2. /\ case' \in [Prospects -> Case] /\ case'[p].open = case[p].open
          /\ case'[p].state = case[p].state /\ \A q \in Prospects : q # p => case'[q] = case[q]
      BY ZenonT(60), <2>1, DeskFacts DEF Case
    <2> QED BY <1>1, <2>2, DeskFacts, LeftAlone, WriteKept DEF ReviewDisclosureCase
  <1>2. CASE CompleteProspectScan(p)
    BY <1>2, DeskFacts, LeftAlone, WriteKept DEF CompleteProspectScan
  <1>3. CASE ResetProspect(p)
    <2>1. /\ status' \in [Prospects -> {"new", "contacted"}]
          /\ \A q \in Prospects : status'[q] = "contacted" => Passed(q) /\ case[q].open
      BY <1>3, DeskFacts, LeftAlone DEF ResetProspect
    <2> QED BY <1>3, <2>1, DeskFacts, LeftAlone, WriteKept DEF ResetProspect
  <1> QED BY <1>1, <1>2, <1>3

-----------------------------------------------------------------------------
(* Confirming outreach and recording its links.                             *)

\* The match is read after the gate: whatever was confirmed before has an open
\* case, and is matched.
LEMMA ConfirmStep ==
    ASSUME DeskIInv, NEW o \in Operators, ConfirmContact(o)
    PROVE  DeskIInv'
  <1> DEFINE p == request[o].of
  <1>0. PICK matches \in DuplicateMatches(p) : Ask(o, "confirmed", p, NoCase, matches)
    BY DEF ConfirmContact
  <1> DEFINE r == [at |-> "confirmed", of |-> p, row |-> NoCase, matches |-> matches]
  <1>1. /\ request[o].at = "gated" /\ request' = [request EXCEPT ![o] = r]
        /\ UNCHANGED <<status, hash, case, links>>
    BY <1>0 DEF ConfirmContact, Ask
  <1>2. p \in Prospects /\ case[p].open
    BY <1>1, DeskFacts DEF RequestFine
  <1>3. /\ matches \subseteq Prospects \ {p} /\ matches \subseteq Prospects
        /\ \A q \in Kin[p] : case[q].open => q \in matches
    BY <1>0, <1>2, KinFacts DEF DuplicateMatches
  <1>4. r \in Request /\ RequestFine(r)
    BY <1>2, <1>3, NoRequestFine DEF Request, Stages, RequestFine
  <1>5. /\ r.at = "confirmed" /\ r.of = p /\ r.matches = matches
    OBVIOUS
  <1> HIDE DEF r
  <1>6. \A v \in Operators : request'[v] = IF v = o THEN r ELSE request[v]
    BY <1>1, DeskFacts
  <1>7. DeskTypeOK'
    BY <1>1, <1>4 DEF DeskIInv, DeskTypeOK
  <1>8. RequestsTrue'
    BY <1>1, <1>4, <1>6, DeskFacts DEF RequestsTrue, RequestFine
  <1>9. VerifiedHasHash' /\ ContactedOpen'
    BY <1>1 DEF DeskIInv, VerifiedHasHash, ContactedOpen
  <1>10. \A q \in Prospects : Passed(q)' => Passed(q) /\ case[q].open
    <2>1. \A q \in Prospects : Passed(q)' => Passed(q)
      BY <1>1, <1>5, <1>6 DEF Passed
    <2>2. \A q \in Prospects : Passed(q) => case[q].open
      BY DeskFacts DEF DeskIInv, ContactedOpen, Passed, RequestFine
    <2> QED BY <2>1, <2>2
  <1>11. PassedLinked'
    BY <1>1, <1>10, KinFacts DEF DeskIInv, Pairs, PassedLinked
  <1>12. ConfirmedSees'
    <2> SUFFICES ASSUME NEW v \in Operators, request'[v].at = "confirmed",
                        NEW q \in Kin[request'[v].of], Passed(q)'
                 PROVE  q \in request'[v].matches \/ {request'[v].of, q} \in links'
      BY DEF ConfirmedSees
    <2>1. CASE v = o
      BY <1>2, <1>3, <1>5, <1>6, <1>10, <2>1, KinFacts
    <2>2. CASE v # o
      <3>1. request'[v] = request[v] /\ request[v].of \in Prospects
        BY <1>6, <2>2, DeskFacts
      <3>2. Passed(q)
        BY <1>10, <3>1, KinFacts
      <3> QED BY <1>1, <3>1, <3>2 DEF DeskIInv, Pairs, ConfirmedSees
    <2> QED BY <2>1, <2>2
  <1>13. ConfirmedMeet'
    <2> SUFFICES ASSUME NEW v \in Operators, NEW w \in Operators, request'[v].at = "confirmed",
                        request'[w].at = "confirmed", request'[w].of \in Kin[request'[v].of]
                 PROVE  \/ request'[w].of \in request'[v].matches
                        \/ request'[v].of \in request'[w].matches
      BY DEF ConfirmedMeet
    <2>1. request'[v].of \in Prospects /\ request'[w].of \in Prospects
      BY <1>2, <1>5, <1>6, DeskFacts
    <2>2. case[request'[v].of].open /\ case[request'[w].of].open
      BY <1>2, <1>5, <1>6, DeskFacts DEF RequestFine
    <2>3. CASE v = o
      BY <1>3, <1>5, <1>6, <2>2, <2>3
    <2>4. CASE w = o
      BY <1>3, <1>5, <1>6, <2>1, <2>2, <2>4, KinFacts
    <2>5. CASE v # o /\ w # o
      BY <1>6, <2>5 DEF DeskIInv, Pairs, ConfirmedMeet
    <2> QED BY <2>3, <2>4, <2>5
  <1> QED BY <1>7, <1>8, <1>9, <1>11, <1>12, <1>13 DEF DeskIInv, Pairs

\* The links are there before the prospect counts as passed.
LEMMA RecordStep ==
    ASSUME DeskIInv, NEW o \in Operators, RecordDuplicateLinks(o)
    PROVE  DeskIInv'
  <1> DEFINE p == request[o].of
             r == [at |-> "linked", of |-> p, row |-> NoCase, matches |-> {}]
  <1>1. /\ request[o].at = "confirmed" /\ request' = [request EXCEPT ![o] = r]
        /\ links' = links \cup {{p, q} : q \in request[o].matches}
        /\ UNCHANGED <<status, hash, case>>
    BY DEF RecordDuplicateLinks, Ask
  <1>2. p \in Prospects /\ case[p].open
    BY <1>1, DeskFacts DEF RequestFine
  <1>3. r \in Request /\ RequestFine(r)
    BY <1>2, NoRequestFine DEF Request, Stages, RequestFine
  <1>4. r.at = "linked" /\ r.of = p
    OBVIOUS
  <1> HIDE DEF r
  <1>5. \A v \in Operators : request'[v] = IF v = o THEN r ELSE request[v]
    BY <1>1, DeskFacts
  <1>6. links \subseteq links' /\ \A q \in request[o].matches : {p, q} \in links'
    BY <1>1
  <1>7. DeskTypeOK'
    <2>1. LinksTyped(links')
      BY <1>1, LinkMatches
    <2> QED BY <1>1, <1>3, <2>1 DEF DeskIInv, DeskTypeOK, LinksTyped
  <1>8. RequestsTrue'
    BY <1>1, <1>3, <1>5, DeskFacts DEF RequestsTrue, RequestFine
  <1>9. VerifiedHasHash' /\ ContactedOpen'
    BY <1>1 DEF DeskIInv, VerifiedHasHash, ContactedOpen
  <1>10. \A q \in Prospects : Passed(q)' => Passed(q) \/ q = p
    BY <1>1, <1>4, <1>5 DEF Passed
  <1>11. \A q \in Kin[p] : Passed(q) => {p, q} \in links' /\ {q, p} \in links'
    <2>1. ASSUME NEW q \in Kin[p], Passed(q) PROVE {p, q} \in links'
      BY <1>1, <1>6, <2>1 DEF DeskIInv, Pairs, ConfirmedSees
    <2>2. \A q : {p, q} = {q, p}
      OBVIOUS
    <2> QED BY <2>1, <2>2
  <1>12. PassedLinked'
    <2> SUFFICES ASSUME NEW a \in Prospects, NEW b \in Kin[a], Passed(a)', Passed(b)'
                 PROVE  {a, b} \in links'
      BY DEF PassedLinked
    <2>1. b \in Prospects /\ a # b /\ a \in Kin[b]
      BY KinFacts
    <2>2. CASE Passed(a) /\ Passed(b)
      BY <1>6, <2>2 DEF DeskIInv, Pairs, PassedLinked
    <2>3. CASE a = p
      BY <1>10, <1>11, <2>1, <2>3
    <2>4. CASE b = p
      BY <1>10, <1>11, <2>1, <2>4
    <2> QED BY <1>10, <2>1, <2>2, <2>3, <2>4
  <1>13. ConfirmedSees'
    <2> SUFFICES ASSUME NEW v \in Operators, request'[v].at = "confirmed",
                        NEW q \in Kin[request'[v].of], Passed(q)'
                 PROVE  q \in request'[v].matches \/ {request'[v].of, q} \in links'
      BY DEF ConfirmedSees
    <2>1. v # o /\ request'[v] = request[v] /\ request[v].of \in Prospects
      BY <1>4, <1>5, DeskFacts
    <2>2. q \in Prospects /\ request[v].of \in Kin[q]
      BY <2>1, KinFacts
    <2>3. CASE Passed(q)
      BY <1>6, <2>1, <2>3 DEF DeskIInv, Pairs, ConfirmedSees
    <2>4. CASE q = p
      <3>1. q \in request[v].matches \/ request[v].of \in request[o].matches
        BY <1>1, <2>1, <2>4 DEF DeskIInv, Pairs, ConfirmedMeet
      <3>2. {p, request[v].of} = {request[v].of, p}
        OBVIOUS
      <3> QED BY <1>6, <2>1, <2>4, <3>1, <3>2
    <2> QED BY <1>10, <2>2, <2>3, <2>4
  <1>14. ConfirmedMeet'
    BY <1>4, <1>5 DEF DeskIInv, Pairs, ConfirmedMeet
  <1> QED BY <1>7, <1>8, <1>9, <1>12, <1>13, <1>14 DEF DeskIInv, Pairs

-----------------------------------------------------------------------------
LEMMA DeskStep == DeskIInv /\ [Next]_vars => DeskIInv'
  <1> SUFFICES ASSUME DeskIInv, [Next]_vars PROVE DeskIInv'
    OBVIOUS
  <1>1. CASE UNCHANGED vars
    BY <1>1 DEF vars, DeskIInv, DeskTypeOK, RequestsTrue, RequestFine, VerifiedHasHash,
       ContactedOpen, Pairs, PassedLinked, ConfirmedSees, ConfirmedMeet, Passed
  <1>2. CASE Next
    BY <1>2, AskStep, WriteStep, ProspectStep, ConfirmStep, RecordStep DEF Next
  <1> QED BY <1>1, <1>2

LEMMA DeskInvariant == Spec => []DeskIInv
  BY DeskInit, DeskStep, PTL DEF Spec

\* Every variable keeps its type, and a link joins two prospects.
THEOREM DeskTypeCorrect == Spec => []DeskTypeOK
  <1>1. DeskIInv => DeskTypeOK
    BY DEF DeskIInv
  <1> QED BY <1>1, DeskInvariant, PTL

\* A case is verified only with an artifact hash, although updates and previews
\* write back what they read.
THEOREM VerifiedKeepsHash == Spec => []VerifiedHasHash
  <1>1. DeskIInv => VerifiedHasHash
    BY DEF DeskIInv
  <1> QED BY <1>1, DeskInvariant, PTL

\* Prospects of one owner or package, or with a common fingerprint, are not both
\* contacted without a confirmed link, however many operators contact them at the
\* same time and whatever else matches by a host.
THEOREM KinStayLinked == Spec => []KinOutreachLinked
  <1>1. DeskIInv => KinOutreachLinked
    BY KinFacts DEF DeskIInv, Pairs, PassedLinked, Passed, KinOutreachLinked
  <1> QED BY <1>1, DeskInvariant, PTL
=============================================================================
