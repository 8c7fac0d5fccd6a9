------------------------------ MODULE Viewings ------------------------------
(***************************************************************************)
(* Viewings of properties with the agent who represents them: the slots of *)
(* one day, request, respond and setAvailability (viewings.service.ts,     *)
(* viewing-slots.ts).                                                      *)
(*                                                                         *)
(* A request reads the agent, then the slots, then, in a Read Committed    *)
(* transaction, looks for a clash and inserts its row: four steps, between *)
(* which anything may happen.  An answer reads the viewing and updates it  *)
(* later; the update waits for the row and does not look at it again.      *)
(* Minutes are cut to a grid of half slots.                                *)
(***************************************************************************)
EXTENDS Integers, Sequences, FiniteSets, FiniteSetsExt, SequencesExt

CONSTANTS
    Agents,        \* profiles of agents
    Listings,      \* published listings, each represented by an agent
    FirstAgent,    \* the agent who represents them at first
    Calls,         \* requests and answers in progress, each slot used again
    Starts, Ends,  \* startMinute and endMinute a window may have
    Duration,      \* VIEWING_DURATION_MINUTES
    Step,          \* VIEWING_SLOT_STEP_MINUTES
    Lead,          \* VIEWING_MIN_LEAD_MINUTES
    Editors,       \* bound: the agents who change their schedule
    Instants,      \* bound: the times at which something happens
    MaxViewings    \* bound: rows and requests in progress together

ASSUME ViewingsAssumption ==
    /\ FirstAgent \in Agents
    /\ Starts \subseteq Nat /\ Ends \subseteq Nat
    /\ IsFiniteSet(Starts) /\ IsFiniteSet(Ends)
    /\ Duration \in Nat \ {0}
    /\ Step \in Nat /\ Step >= Duration /\ Lead \in Nat /\ Lead >= Duration
    /\ Instants \subseteq Nat /\ 0 \in Instants
    /\ Editors \subseteq Agents /\ MaxViewings \in Nat

VARIABLES
    clock,
    windows,   \* rows of table AgentAvailabilityWindow of each agent
    accepted,  \* agents with an ACCEPTED assignment of the listing
    published, \* the listings that are PUBLISHED
    viewings,  \* rows of table ViewingRequest, oldest first
    notices,   \* what each viewing's buyer was told last
    call       \* where each call stands

viewingVars == <<clock, windows, accepted, published, viewings, notices, call>>

Window == {w \in [start : Starts, end : Ends] : w.start < w.end}

ViewingStatus == {"REQUESTED", "CONFIRMED", "CANCELLED"}

BLOCKING_STATUSES == {"REQUESTED", "CONFIRMED"}

\* known and checked are history: how many rows there were when the slots were
\* derived and when the clash was looked for; offeredBy is the agent whose
\* slots they were; declined, whether it was ever declined.
Viewing == [listing : Listings, agent : Agents, at : Nat, status : ViewingStatus,
            known : Nat, checked : Nat, offeredBy : Agents,
            declined : BOOLEAN]

NoViewingCall == [pc |-> "idle"]

ViewingsInit ==
    /\ clock = 0
    /\ windows \in [Agents -> {{w} : w \in Window}]
    /\ accepted = [l \in Listings |-> {FirstAgent}]
    /\ published = Listings
    /\ viewings = << >>
    /\ notices = << >>
    /\ call = [c \in Calls |-> NoViewingCall]

----------------------------------------------------------------------------
(* Slots. *)

\* The last window in the order of their starts, which are unique.
Latest(ws) == CHOOSE w \in ws : \A v \in ws : v.start <= w.start

MergeInto(w, merged) ==
    IF merged # << >> /\ w.start <= Last(merged).end
    THEN [merged EXCEPT ![Len(merged)].end = Max({@, w.end})]
    ELSE Append(merged, w)

\* The windows, sorted, each merged into those before it.
mergeWindows(ws) == MapThenFoldSet(MergeInto, << >>, LAMBDA w : w, Latest, ws)

\* The times a schedule can offer; a request for another one is refused.
Times == {s \in 0..Max({0} \union Ends) : \E w \in Window :
             w.start <= s /\ s + Duration <= w.end}

Overlap(s, t) == s < t + Duration /\ t < s + Duration

Blocking(a) == {i \in DOMAIN viewings : /\ viewings[i].agent = a
                                        /\ viewings[i].status \in BLOCKING_STATUSES}

\* Mutant: only what was confirmed counts as taken.
BusyConfirmed(a) == {viewings[i].at : i \in {j \in Blocking(a) :
                        viewings[j].status = "CONFIRMED" /\ viewings[j].at >= clock}}

\* What is still ahead on the agent's calendar.
Busy(a) == {viewings[i].at : i \in {j \in Blocking(a) : viewings[j].at >= clock}}

\* Mutant: no notice is owed.
EarliestAtOnce == clock

Earliest == clock + Lead

\* Each window is cut from its start.
buildSlots(a) ==
    LET merged == mergeWindows(windows[a])
    IN  {s \in Times :
            /\ \E i \in DOMAIN merged :
                 /\ merged[i].start <= s /\ s <= merged[i].end - Duration
                 /\ (s - merged[i].start) % Step = 0
            /\ s >= Earliest
            /\ \A t \in Busy(a) : ~Overlap(s, t)}

----------------------------------------------------------------------------
(* request. *)

Requesting == {c \in Calls : call[c].pc \in {"agent", "offered", "free"}}

\* The listing is found, and an agent who represents it.
ReceiveRequest(c) ==
    /\ call[c].pc = "idle"
    /\ Len(viewings) + Cardinality(Requesting) < MaxViewings
    /\ \E l \in published, s \in Times :
         \E a \in accepted[l] :
           call' = [call EXCEPT ![c] = [pc |-> "agent", listing |-> l,
                                        agent |-> a, at |-> s]]
    /\ UNCHANGED <<clock, windows, accepted, published, viewings, notices>>

\* The slots are derived anew, of the agent who represents the listing now; a
\* time that is not among them is refused.
DeriveSlots(c) ==
    /\ call[c].pc = "agent"
    /\ call[c].listing \in published
    /\ \E a \in accepted[call[c].listing] :
         /\ call[c].at \in buildSlots(a)
         /\ call' = [call EXCEPT ![c] =
                       [pc |-> "offered", listing |-> @.listing, agent |-> @.agent,
                        at |-> @.at, known |-> Len(viewings), offeredBy |-> a]]
    /\ UNCHANGED <<clock, windows, accepted, published, viewings, notices>>

Clash(a, s) == \E i \in Blocking(a) : viewings[i].at = s

\* Inside the transaction: nobody has taken this very time.
LookForClash(c) ==
    /\ call[c].pc = "offered"
    /\ ~Clash(call[c].agent, call[c].at)
    /\ call' = [call EXCEPT ![c] =
                  [pc |-> "free", listing |-> @.listing, agent |-> @.agent,
                   at |-> @.at, known |-> @.known, offeredBy |-> @.offeredBy,
                   checked |-> Len(viewings)]]
    /\ UNCHANGED <<clock, windows, accepted, published, viewings, notices>>

\* The row is inserted and the agent notified; no constraint stands against it.
Book(c) ==
    /\ call[c].pc = "free"
    /\ viewings' = Append(viewings,
         [listing |-> call[c].listing, agent |-> call[c].agent, at |-> call[c].at,
          status |-> "REQUESTED", known |-> call[c].known,
          checked |-> call[c].checked, offeredBy |-> call[c].offeredBy,
          declined |-> FALSE])
    /\ notices' = Append(notices, "REQUESTED")
    /\ call' = [call EXCEPT ![c] = NoViewingCall]
    /\ UNCHANGED <<clock, windows, accepted, published>>

----------------------------------------------------------------------------
(* respond and setAvailability. *)

\* Mutant: the buyer is told before the row is written.
ReadRespondTelling(c) ==
    /\ call[c].pc = "idle"
    /\ \E i \in DOMAIN viewings, answer \in {"CONFIRMED", "CANCELLED"} :
         /\ viewings[i].status = "REQUESTED"
         /\ call' = [call EXCEPT ![c] = [pc |-> "answer", viewing |-> i,
                                         answer |-> answer]]
         /\ notices' = [notices EXCEPT ![i] = answer]
    /\ UNCHANGED <<clock, windows, accepted, published, viewings>>

\* The agent of the viewing sees it unanswered.
ReadRespond(c) ==
    /\ call[c].pc = "idle"
    /\ \E i \in DOMAIN viewings, answer \in {"CONFIRMED", "CANCELLED"} :
         /\ viewings[i].status = "REQUESTED"
         /\ call' = [call EXCEPT ![c] = [pc |-> "answer", viewing |-> i,
                                         answer |-> answer]]
    /\ UNCHANGED <<clock, windows, accepted, published, viewings, notices>>

\* The update names the row, not the status it was read with.
Respond(c) ==
    LET i == call[c].viewing
        answer == call[c].answer
    IN  /\ call[c].pc = "answer"
        /\ viewings' = [viewings EXCEPT ![i].status = answer,
                                        ![i].declined = @ \/ answer = "CANCELLED"]
        /\ notices' = [notices EXCEPT ![i] = answer]
        /\ call' = [call EXCEPT ![c] = NoViewingCall]
        /\ UNCHANGED <<clock, windows, accepted, published>>

\* A check that fails, an exception or the death of the process: rolled back.
Refuse(c) ==
    /\ call[c].pc # "idle"
    /\ call' = [call EXCEPT ![c] = NoViewingCall]
    /\ UNCHANGED <<clock, windows, accepted, published, viewings, notices>>

\* The whole schedule is replaced; no two windows start together.  Two calls that
\* overlap leave the union of their schedules, which is one more such set.
SetAvailability(a) ==
    /\ \E ws \in SUBSET Window :
         /\ \A v, w \in ws : v.start = w.start => v = w
         /\ ws # windows[a]
         /\ windows' = [windows EXCEPT ![a] = ws]
    /\ UNCHANGED <<clock, accepted, published, viewings, notices, call>>

----------------------------------------------------------------------------
(* The listing pipeline, and time. *)

\* A listing that was put back to AWAITING_AGENT is accepted once more: nothing
\* ends the first assignment.
AcceptAssignment(l, a) ==
    /\ a \notin accepted[l]
    /\ accepted' = [accepted EXCEPT ![l] = @ \union {a}]
    /\ UNCHANGED <<clock, windows, published, viewings, notices, call>>

Withdraw(l) ==
    /\ l \in published
    /\ published' = published \ {l}
    /\ UNCHANGED <<clock, windows, accepted, viewings, notices, call>>

Tick ==
    /\ \E t \in Instants : t > clock /\ clock' = t
    /\ UNCHANGED <<windows, accepted, published, viewings, notices, call>>

ViewingStep(c) ==
    \/ ReceiveRequest(c) \/ DeriveSlots(c) \/ LookForClash(c) \/ Book(c)
    \/ ReadRespond(c) \/ Respond(c) \/ Refuse(c)

ViewingsNext ==
    \/ Tick
    \/ \E c \in Calls : ViewingStep(c)
    \/ \E a \in Editors : SetAvailability(a)
    \/ \E l \in Listings : Withdraw(l) \/ \E a \in Agents : AcceptAssignment(l, a)

ViewingsSpec == ViewingsInit /\ [][ViewingsNext]_viewingVars

----------------------------------------------------------------------------
(* Properties. *)

ViewingsTypeOK ==
    /\ clock \in Instants
    /\ windows \in [Agents -> SUBSET Window]
    /\ accepted \in [Listings -> SUBSET Agents]
    /\ published \subseteq Listings
    /\ \A i \in DOMAIN viewings : viewings[i] \in Viewing
    /\ Len(notices) = Len(viewings) /\ notices \in Seq(ViewingStatus)
    /\ DOMAIN call = Calls

\* The slots on offer lie within the agent's hours, however the windows overlap,
\* and never overlap one another nor a viewing that occupies the agent, although
\* a viewing that has begun is not looked at (buildSlots with the busy rows of
\* slots(): the notice owed is at least as long as a viewing).
OffersFit ==
    \A a \in Agents : \A s \in buildSlots(a) :
        /\ \A m \in s..(s + Duration - 1) : \E w \in windows[a] : w.start <= m /\ m < w.end
        /\ \A t \in buildSlots(a) : s # t => ~Overlap(s, t)
        /\ \A i \in Blocking(a) : ~Overlap(s, viewings[i].at)

\* A viewing that was given away and then taken back by an overlapping answer.
TakenBack(v) == v.declined /\ v.status = "CONFIRMED"

\* An agent's viewings overlap only when one was booked while the call for the
\* other was already past its slots, or the slots were another agent's, or an
\* overlapping answer took a declined time back; and the very same time is
\* given twice only by transactions that overlapped, the second looking for a
\* clash before the first had its row (request: the re-derived slots, the
\* look-up in the transaction).
OverlapsWereRaces ==
    \A i, j \in DOMAIN viewings :
        /\ i < j /\ viewings[i].agent = viewings[j].agent
        /\ {viewings[i].status, viewings[j].status} \subseteq BLOCKING_STATUSES
        /\ Overlap(viewings[i].at, viewings[j].at)
        => \/ TakenBack(viewings[i])
           \/ /\ \/ viewings[j].known < i
                 \/ viewings[j].offeredBy # viewings[j].agent
              /\ viewings[i].at = viewings[j].at => viewings[j].checked < i

\* However many answers overlap, the last thing the buyer was told of a viewing
\* is what its row says (respond: update and notification in one transaction).
LastNoticeIsTrue == \A i \in DOMAIN viewings : notices[i] = viewings[i].status

\* The comment at viewings.service.ts:181 of the look-up: "The unique guard the
\* slot re-derivation cannot give us: two buyers hitting the same free slot at
\* once".  It gives none: the look-up reads, and no index is unique.
NeverDoubleBooked ==
    \A i, j \in DOMAIN viewings :
        /\ i # j /\ viewings[i].agent = viewings[j].agent
        /\ {viewings[i].status, viewings[j].status} \subseteq BLOCKING_STATUSES
        => viewings[i].at # viewings[j].at

=============================================================================
