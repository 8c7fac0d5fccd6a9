------------------------------ MODULE Accounts ------------------------------
(***************************************************************************)
(* The life of an account: active, suspended by staff, waiting for its     *)
(* deletion, deleted.                                                      *)
(*                                                                         *)
(*   - AccountService (apps/api): requestDeletion and cancelDeletion, each *)
(*     a check outside the transaction that then writes without condition; *)
(*   - AdminUsersService: setAccountType, ban and unban;                   *)
(*   - AgentGovernanceService: createAgent and setStatus;                  *)
(*   - AccountLifecycleReconciler (apps/worker): one pass restores expired *)
(*     bans and anonymizes the accounts whose grace period is over.        *)
(*                                                                         *)
(* The transactions of staff and of anonymize are Serializable and re-read *)
(* what they check, so each is one action. Time moves in units of the      *)
(* grace period, and a call or a pass, which take seconds, do not outlast  *)
(* a unit.                                                                 *)
(***************************************************************************)
EXTENDS Integers, FiniteSets, Sequences

CONSTANTS
    Users,
    Owner,       \* the account that owns the platform at the start
    Staff,       \* the accounts that are staff, all of them with every permission
    Calls,       \* calls of account holders that can be in progress at once
    Workers,     \* worker processes, each with its own reconciler
    Grace,       \* ACCOUNT_DELETION_GRACE_DAYS
    BanLengths,  \* lengths of temporary suspensions
    Holders,     \* bound: accounts whose holder calls the account service
    Debtors,     \* bound: those of them who take part in auctions
    Recruits,    \* bound: accounts that staff makes agents
    MaxTime,     \* bound on the clock
    MaxFaults    \* bound: passes that throw or die with their worker

ASSUME AccountsAssumption ==
    /\ Owner \in Users /\ Staff \subseteq Users \ {Owner}
    /\ Holders \subseteq Users /\ Debtors \subseteq Holders /\ Recruits \subseteq Users
    /\ IsFiniteSet(Users)
    /\ Grace \in Nat \ {0} /\ BanLengths \subseteq Nat \ {0}
    /\ MaxTime \in Nat /\ MaxFaults \in Nat

VARIABLES
    now,
    row,       \* the User rows
    signed,    \* accounts with a Session row
    cookie,    \* accounts whose browser shows a session that is not looked up yet
    profile,   \* AgentProfile rows: their status, or "none"
    assigned,  \* accounts whose agent profile a ListingAssignment row names
    owes,      \* accounts with an active auction, registration, payment or settlement
    call,      \* calls between their check and their write
    pass,      \* what each worker's reconciler is doing
    barred,    \* until when the last word of staff keeps the account out
    faults

vars == <<now, row, signed, cookie, profile, assigned, owes, call, pass, barred, faults>>

Never == MaxTime + 1     \* a time that does not come: no expiry, no request
Times == 0..Never
Statuses == {"ACTIVE", "SUSPENDED", "PENDING_DELETION", "DELETED"}

User == [role : {"OWNER", "STAFF", "AGENT", "USER"}, status : Statuses,
         banned : BOOLEAN, until : Times, requested : Times]

Call == [op : {"idle", "request", "cancel", "register"}, user : Users]

\* expired: accounts the pass has found to restore; due: those to anonymize, oldest first.
Pass == [step : {"idle", "restore", "erase"}, expired : SUBSET Users, due : Seq(Users)]

NoCall == [op |-> "idle", user |-> Owner]
NoPass == [step |-> "idle", expired |-> {}, due |-> << >>]

TypeOK ==
    /\ now \in 0..MaxTime
    /\ row \in [Users -> User]
    /\ signed \subseteq Users /\ cookie \subseteq Users
    /\ profile \in [Users -> {"none", "PENDING", "ACTIVE", "SUSPENDED", "RETIRED"}]
    /\ assigned \subseteq Users
    /\ owes \subseteq Users
    /\ call \in [Calls -> Call]
    /\ pass \in [Workers -> Pass]
    /\ barred \in [Users -> Times]
    /\ faults \in 0..MaxFaults

FirstRole(u) == IF u = Owner THEN "OWNER" ELSE IF u \in Staff THEN "STAFF" ELSE "USER"

Init ==
    /\ now = 0
    /\ row = [u \in Users |-> [role |-> FirstRole(u), status |-> "ACTIVE", banned |-> FALSE,
                               until |-> Never, requested |-> Never]]
    /\ signed = {} /\ cookie = {}
    /\ profile = [u \in Users |-> "none"]
    /\ assigned = {} /\ owes = {}
    /\ call = [c \in Calls |-> NoCall]
    /\ pass = [w \in Workers |-> NoPass]
    /\ barred = [u \in Users |-> 0]
    /\ faults = 0

Usable(u) == row[u].status = "ACTIVE" /\ ~row[u].banned
Administers(u) == Usable(u) /\ row[u].role \in {"OWNER", "STAFF"}
Gone(u) == row[u].status = "DELETED"
Leaving(u) == row[u].status = "PENDING_DELETION"

\* Calls and passes take seconds and a cookie is taken at its word for five
\* minutes (cookieCache), while the clock moves in days.
Tick ==
    /\ now < MaxTime
    /\ \A c \in Calls : call[c].op = "idle"
    /\ \A w \in Workers : pass[w].step = "idle"
    /\ now' = now + 1
    /\ cookie' = cookie \intersect signed
    /\ UNCHANGED <<row, signed, profile, assigned, owes, call, pass, barred, faults>>

----------------------------------------------------------------------------
(* The account holder. *)

\* Sessions are Better Auth's: it opens none for a banned account, and a
\* deleted one has no credentials left. The cookie outlives a deleted session.
SignIn(u) ==
    /\ ~row[u].banned /\ ~Gone(u)
    /\ signed' = signed \union {u}
    /\ cookie' = cookie \union {u}
    /\ UNCHANGED <<now, row, profile, assigned, owes, call, pass, barred, faults>>

RevokeSession(u) ==
    /\ u \in signed
    /\ signed' = signed \ {u}
    /\ UNCHANGED <<now, row, cookie, profile, assigned, owes, call, pass, barred, faults>>

\* requestDeletion reads the status, the session and the obligations ...
BeginRequest(c, u) ==
    /\ call[c].op = "idle" /\ u \in signed
    /\ row[u].status = "ACTIVE" /\ u \notin owes
    /\ call' = [call EXCEPT ![c] = [op |-> "request", user |-> u]]
    /\ UNCHANGED <<now, row, signed, cookie, profile, assigned, owes, pass, barred, faults>>

\* ... and then sets the row, whatever has become of it. The session of the
\* call is kept, the other ones are dropped.
CommitRequest(c) ==
    /\ call[c].op = "request"
    /\ row' = [row EXCEPT ![call[c].user].status = "PENDING_DELETION",
                          ![call[c].user].requested = now]
    /\ call' = [call EXCEPT ![c] = NoCall]
    /\ UNCHANGED <<now, signed, cookie, profile, assigned, owes, pass, barred, faults>>

BeginCancel(c, u) ==
    /\ call[c].op = "idle" /\ u \in cookie
    /\ Leaving(u)
    /\ call' = [call EXCEPT ![c] = [op |-> "cancel", user |-> u]]
    /\ UNCHANGED <<now, row, signed, cookie, profile, assigned, owes, pass, barred, faults>>

CommitCancel(c) ==
    /\ call[c].op = "cancel"
    /\ row' = [row EXCEPT ![call[c].user].status = "ACTIVE",
                          ![call[c].user].requested = Never]
    /\ call' = [call EXCEPT ![c] = NoCall]
    /\ UNCHANGED <<now, signed, cookie, profile, assigned, owes, pass, barred, faults>>

\* Any call that leaves an obligation behind, such as the registration for an
\* auction: it checks the account, and writes later.
BeginRegister(c, u) ==
    /\ call[c].op = "idle" /\ u \in cookie \ owes
    /\ Usable(u)
    /\ call' = [call EXCEPT ![c] = [op |-> "register", user |-> u]]
    /\ UNCHANGED <<now, row, signed, cookie, profile, assigned, owes, pass, barred, faults>>

CommitRegister(c) ==
    /\ call[c].op = "register"
    /\ owes' = owes \union {call[c].user}
    /\ call' = [call EXCEPT ![c] = NoCall]
    /\ UNCHANGED <<now, row, signed, cookie, profile, assigned, pass, barred, faults>>

\* The auction ends, the payment is settled.
Settle(u) ==
    /\ u \in owes
    /\ owes' = owes \ {u}
    /\ UNCHANGED <<now, row, signed, cookie, profile, assigned, call, pass, barred, faults>>

----------------------------------------------------------------------------
(* Staff. *)

SetAccountType(s, u, type) ==
    /\ s \in cookie /\ Administers(s)
    /\ s # u \/ type = row[u].role
    /\ ~Gone(u) /\ row[u].role = "USER"
    /\ row' = [row EXCEPT ![u].role = type]
    /\ profile' = IF type = "AGENT" THEN [profile EXCEPT ![u] = "PENDING"] ELSE profile
    /\ signed' = signed \ {u}
    /\ UNCHANGED <<now, cookie, assigned, owes, call, pass, barred, faults>>

Ban(s, u, until) ==
    /\ s \in cookie /\ s # u /\ Administers(s)
    /\ row[u].status \in {"ACTIVE", "SUSPENDED"}
    /\ row[u].role # "OWNER"
    /\ row[u].role = "STAFF" => row[s].role = "OWNER"
    /\ row' = [row EXCEPT ![u].banned = TRUE, ![u].until = until, ![u].status = "SUSPENDED"]
    /\ signed' = signed \ {u}
    /\ barred' = [barred EXCEPT ![u] = until]
    /\ UNCHANGED <<now, cookie, profile, assigned, owes, call, pass, faults>>

Restored(u) ==
    [row EXCEPT ![u].banned = FALSE, ![u].until = Never, ![u].status = "ACTIVE"]

Suspended(u) == row[u].banned /\ row[u].status = "SUSPENDED"

Unban(s, u) ==
    /\ s \in cookie /\ Administers(s)
    /\ row[u].role # "OWNER"
    /\ row[u].role = "STAFF" => row[s].role = "OWNER"
    /\ Suspended(u)
    /\ row' = Restored(u)
    /\ barred' = [barred EXCEPT ![u] = 0]
    /\ UNCHANGED <<now, signed, cookie, profile, assigned, owes, call, pass, faults>>

CreateAgent(s, u) ==
    /\ s \in cookie /\ s # u /\ Administers(s)
    /\ row[u].role = "USER" /\ Usable(u)
    /\ row' = [row EXCEPT ![u].role = "AGENT"]
    /\ profile' = [profile EXCEPT ![u] = "PENDING"]
    /\ signed' = signed \ {u}
    /\ UNCHANGED <<now, cookie, assigned, owes, call, pass, barred, faults>>

SetAgentStatus(s, u, status) ==
    /\ s \in cookie /\ Administers(s)
    /\ profile[u] \notin {"none", "RETIRED"} /\ row[u].role = "AGENT"
    /\ status = "ACTIVE" => Usable(u)
    /\ profile' = [profile EXCEPT ![u] = status]
    /\ row' = IF status = "RETIRED" THEN [row EXCEPT ![u].role = "USER"] ELSE row
    /\ signed' = IF status \in {"SUSPENDED", "RETIRED"} THEN signed \ {u} ELSE signed
    /\ UNCHANGED <<now, cookie, assigned, owes, call, pass, barred, faults>>

\* ListingPaymentsService.assign offers a listing to an active agent. The row
\* stays when the case is closed.
Assign(u) ==
    /\ profile[u] = "ACTIVE" /\ u \notin assigned
    /\ assigned' = assigned \union {u}
    /\ UNCHANGED <<now, row, signed, cookie, profile, owes, call, pass, barred, faults>>

----------------------------------------------------------------------------
(* AccountLifecycleReconciler.runOnce. *)

\* Mutant: the sweep also waits for the minute after the expiry.
ExpiredLater(u) == Suspended(u) /\ row[u].until < now

Expired(u) == Suspended(u) /\ row[u].until <= now

BeginPass(w) ==
    /\ pass[w].step = "idle"
    /\ pass' = [pass EXCEPT ![w] = [step |-> "restore", expired |-> {u \in Users : Expired(u)},
                                    due |-> << >>]]
    /\ UNCHANGED <<now, row, signed, cookie, profile, assigned, owes, call, barred, faults>>

\* Mutant: the update repeats nothing of what the sweep has read.
RestoreUnchecked(w, u) ==
    /\ u \in pass[w].expired
    /\ pass' = [pass EXCEPT ![w].expired = @ \ {u}]
    /\ row' = Restored(u)
    /\ UNCHANGED <<now, signed, cookie, profile, assigned, owes, call, barred, faults>>

Restore(w, u) ==
    /\ u \in pass[w].expired
    /\ pass' = [pass EXCEPT ![w].expired = @ \ {u}]
    /\ row' = IF Expired(u) THEN Restored(u) ELSE row
    /\ UNCHANGED <<now, signed, cookie, profile, assigned, owes, call, barred, faults>>

Due(u) == Leaving(u) /\ row[u].requested + Grace <= now

\* The due accounts, the oldest request first.
Queues ==
    LET due == {u \in Users : Due(u)} IN
    {q \in [1..Cardinality(due) -> due] :
        \A i, j \in 1..Cardinality(due) :
            i < j => q[i] # q[j] /\ row[q[i]].requested <= row[q[j]].requested}

ScanDue(w) ==
    /\ pass[w].step = "restore" /\ pass[w].expired = {}
    /\ \E q \in Queues :
        pass' = [pass EXCEPT ![w] = IF q = << >> THEN NoPass
                                    ELSE [step |-> "erase", expired |-> {}, due |-> q]]
    /\ UNCHANGED <<now, row, signed, cookie, profile, assigned, owes, call, barred, faults>>

Rest(w) ==
    IF Len(pass[w].due) = 1 THEN NoPass ELSE [pass[w] EXCEPT !.due = Tail(@)]

\* The foreign key of ListingAssignment (ON DELETE RESTRICT) refuses the
\* deletion of a profile that has a row.
Refused(u) == profile[u] # "none" /\ u \in assigned

\* Mutant: the row is only locked, not asked for its status again.
ErasableScanned(u) == u \notin owes

\* Mutant: a banned account is passed over, as a deleted one is.
ErasableUnbanned(u) == Leaving(u) /\ u \notin owes /\ ~row[u].banned

Erasable(u) == Leaving(u) /\ u \notin owes

Erase(w) ==
    LET u == Head(pass[w].due) IN
    /\ pass[w].step = "erase"
    /\ Erasable(u) /\ ~Refused(u)
    /\ row' = [row EXCEPT ![u].role = "USER", ![u].banned = TRUE, ![u].until = Never,
                          ![u].status = "DELETED"]
    /\ signed' = signed \ {u}
    /\ profile' = [profile EXCEPT ![u] = "none"]
    /\ pass' = [pass EXCEPT ![w] = Rest(w)]
    /\ UNCHANGED <<now, cookie, assigned, owes, call, barred, faults>>

\* The account has been kept, it owes, or a transaction of its holder has the
\* row locked (SKIP LOCKED).
Skip(w) ==
    LET u == Head(pass[w].due) IN
    /\ pass[w].step = "erase"
    /\ ~Erasable(u) \/ \E c \in Calls : call[c].op \in {"request", "cancel"} /\ call[c].user = u
    /\ pass' = [pass EXCEPT ![w] = Rest(w)]
    /\ UNCHANGED <<now, row, signed, cookie, profile, assigned, owes, call, barred, faults>>

\* An exception ends the pass: the foreign key, ...
EraseRefused(w) ==
    /\ pass[w].step = "erase"
    /\ Erasable(Head(pass[w].due)) /\ Refused(Head(pass[w].due))
    /\ pass' = [pass EXCEPT ![w] = NoPass]
    /\ UNCHANGED <<now, row, signed, cookie, profile, assigned, owes, call, barred, faults>>

\* ... a conflict between transactions, a lost connection, or the end of the worker.
PassFails(w) ==
    /\ pass[w].step # "idle" /\ faults < MaxFaults
    /\ faults' = faults + 1
    /\ pass' = [pass EXCEPT ![w] = NoPass]
    /\ UNCHANGED <<now, row, signed, cookie, profile, assigned, owes, call, barred>>

----------------------------------------------------------------------------
HolderStep ==
    \/ \E u \in Users : SignIn(u) \/ Settle(u)
    \/ \E u \in Holders : RevokeSession(u)
    \/ \E c \in Calls, u \in Holders : BeginRequest(c, u) \/ BeginCancel(c, u)
    \/ \E c \in Calls, u \in Debtors : BeginRegister(c, u)
    \/ \E c \in Calls : CommitRequest(c) \/ CommitCancel(c) \/ CommitRegister(c)

BanEnds == {t \in 0..MaxTime : t - now \in BanLengths} \union {Never}

StaffStep ==
    \/ \E s, u \in Users :
        \/ SetAccountType(s, u, "USER")
        \/ \E until \in BanEnds : Ban(s, u, until)
        \/ Unban(s, u)
    \/ \E s \in Users, u \in Recruits :
        \/ SetAccountType(s, u, "AGENT") \/ CreateAgent(s, u)
        \/ \E status \in {"PENDING", "ACTIVE", "SUSPENDED", "RETIRED"} : SetAgentStatus(s, u, status)
    \/ \E u \in Users : Assign(u)

PassStep(w) ==
    \/ BeginPass(w) \/ \E u \in Users : Restore(w, u)
    \/ ScanDue(w) \/ Erase(w) \/ Skip(w) \/ EraseRefused(w)

Next ==
    \/ Tick \/ HolderStep \/ StaffStep
    \/ \E w \in Workers : PassStep(w) \/ PassFails(w)

Spec == Init /\ [][Next]_vars

\* The timer starts a pass every minute and a started call is answered; an
\* obligation is settled in the end, an auction by its reconciler, a payment
\* or settlement by staff.
Fairness ==
    /\ \A w \in Workers : WF_vars(PassStep(w))
    /\ \A c \in Calls : WF_vars(CommitRequest(c) \/ CommitCancel(c) \/ CommitRegister(c))
    /\ \A u \in Users : WF_vars(Settle(u))

FairSpec == Spec /\ Fairness

----------------------------------------------------------------------------
(* Properties *)

(***************************************************************************)
(* What staff decided last holds, whatever calls of the account holder and *)
(* passes of the reconciler overlap with it: until a suspension has run    *)
(* out or was lifted, the account is banned and has no session. Restoring  *)
(* an expired ban must not lift the longer one that replaced it            *)
(* (account-lifecycle.reconciler.ts:126).                                  *)
(***************************************************************************)
RulingHolds ==
    \A u \in Users : barred[u] > now => row[u].banned /\ u \notin signed

(***************************************************************************)
(* An account is erased only while its holder wants it, by his last word   *)
(* and not by what the pass has scanned, and while it owes nothing; it     *)
(* then has no session left (account-lifecycle.reconciler.ts:155-192).     *)
(***************************************************************************)
ErasedOnlyIfWanted ==
    [][\A u \in Users :
        ~Gone(u) /\ Gone(u)' => Leaving(u) /\ u \notin owes /\ u \notin signed']_vars

(***************************************************************************)
(* A suspension with an end does end: every account that is SUSPENDED past *)
(* its time is restored, or staff has decided anew. Passes that fail and   *)
(* accounts that cannot be erased do not hold it up, as restoring comes    *)
(* first in a pass (account-lifecycle.reconciler.ts:42).                   *)
(***************************************************************************)
SuspensionEnds ==
    \A u \in Users :
        (Suspended(u) /\ row[u].until <= now) ~> ~(Suspended(u) /\ row[u].until <= now)

(***************************************************************************)
(* Who asked for the deletion of his account is erased after the grace     *)
(* period, or has kept the account; unless the account of an agent with an *)
(* assignment is due, which ends every pass.                               *)
(***************************************************************************)
ErasedInTheEnd ==
    \A u \in Users :
        Due(u) ~> ~Due(u) \/ \E a \in Users : Due(a) /\ Refused(a)

(***************************************************************************)
(* docs/security.md:31: after the grace period "authentication/profile     *)
(* data is removed or anonymized". The code breaks it for agents: the      *)
(* deletion of the profile violates the foreign key of their assignments,  *)
(* and the exception ends the pass for everybody after them.               *)
(***************************************************************************)
EveryoneErasedInTheEnd ==
    \A u \in Users : Due(u) ~> ~Due(u)

=============================================================================
