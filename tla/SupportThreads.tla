--------------------------- MODULE SupportThreads ---------------------------
(***************************************************************************)
(* Support chat: the threads of visitors, signed in or not, the replies of *)
(* staff, and the sweep that erases the threads of guests who fell silent  *)
(* (support.service.ts, support-retention.reconciler.ts).                  *)
(*                                                                         *)
(* Each call is a chain of statements between which others run: the look-  *)
(* up of a thread, its adoption or creation, and a Read Committed          *)
(* transaction that inserts the message and then updates the row.  That    *)
(* transaction shows its effect in one step, its commit: the foreign key   *)
(* of the message holds off a deletion from the insertion on.  The check   *)
(* of an attachment and the pages of messages are left out.                *)
(***************************************************************************)
EXTENDS Integers

CONSTANTS
    MaxThreads,  \* bound: threads are numbered as they are created
    Browsers,    \* visitor keys, kept in a cookie
    Accounts,    \* users who may be signed in
    Staff,       \* active members of staff who may reply
    Assignees,   \* bound: whom a thread is handed to, or None
    Calls,       \* calls in progress, each slot used again
    None,        \* a null column, or no session
    TTL,         \* ANONYMOUS_THREAD_TTL_MINUTES
    TxTimeout,   \* how long a transaction may take
    MaxTime      \* bound: the clock stops here

ASSUME SupportAssumption ==
    /\ TTL \in Nat /\ TxTimeout \in Nat /\ MaxTime \in Nat
    /\ TxTimeout < TTL /\ MaxThreads \in Nat
    /\ Assignees \subseteq Staff \union {None}
    /\ None \notin Browsers \union Accounts \union Staff \union Nat

VARIABLES
    now,
    threads,  \* rows of table SupportThread
    made,     \* the number of threads ever created
    heard,    \* history: when the latest message of a guest's thread was created
    voices,   \* history: who replied in a thread, until it is handed over
    handed,   \* history: the threads that were assigned by hand
    call      \* where each call stands

vars == <<now, threads, made, heard, voices, handed, call>>

Time == 0..MaxTime

Threads == 1..MaxThreads

NoRow == [status |-> "none"]

Row == [key : Browsers \union {None}, user : Accounts \union {None},
        status : {"OPEN", "ASSIGNED"}, assigned : Staff \union {None},
        last : Time, expires : Time \union {None}]

NoCall == [pc |-> "idle"]

Init ==
    /\ now = 0
    /\ threads = [t \in Threads |-> NoRow]
    /\ made = 0
    /\ heard = [t \in Threads |-> 0]
    /\ voices = [t \in Threads |-> {}]
    /\ handed = {}
    /\ call = [c \in Calls |-> NoCall]

Exists(t) == threads[t] # NoRow

\* Bound: what is written now expires before the clock stops.
InTime == now + TxTimeout + TTL < MaxTime

----------------------------------------------------------------------------
(* resolveThread, the first part of every visitor's call.                  *)

Step(c, next) == call' = [call EXCEPT ![c] = next]

\* The thread is known: a look ends here, a message opens its transaction.
Resolved(c, t, u) ==
    \/ Step(c, NoCall)
    \/ InTime /\ Step(c, [pc |-> "send", thread |-> t, user |-> u, opened |-> now])

\* visitorKey is unique.
OfBrowser(b) == {t \in Threads : Exists(t) /\ threads[t].key = b}

OfAccount(u) == {t \in Threads : Exists(t) /\ threads[t].user = u}

\* A guest is known by the cookie, whatever thread it leads to.
LookUpGuest(c, b) ==
    LET mine == OfBrowser(b)
    IN  /\ call[c].pc = "idle"
        /\ \/ \E t \in mine : Resolved(c, t, None)
           \/ mine = {} /\ Step(c, [pc |-> "create", browser |-> b, user |-> None])
        /\ UNCHANGED <<now, threads, made, heard, voices, handed>>

\* Of who is signed in, the cookie's thread comes first, if it is a guest's.
LookUpAccount(c, b, u) ==
    LET guests == {t \in OfBrowser(b) : threads[t].user = None}
    IN  /\ call[c].pc = "idle"
        /\ \/ \E t \in guests : Step(c, [pc |-> "adopt", thread |-> t, user |-> u])
           \/ guests = {} /\ Step(c, [pc |-> "find", browser |-> b, user |-> u])
        /\ UNCHANGED <<now, threads, made, heard, voices, handed>>

\* Mutant: the cookie goes on leading to the adopted thread.
AdoptedStillKeyed(row, u) == [row EXCEPT !.user = u, !.expires = None]

Adopted(row, u) == [row EXCEPT !.user = u, !.key = None, !.expires = None]

\* The update names the row, not the state it was found in.
Adopt(c) ==
    LET t == call[c].thread
    IN  /\ call[c].pc = "adopt"
        /\ Exists(t)
        /\ threads' = [threads EXCEPT ![t] = Adopted(@, call[c].user)]
        /\ heard' = [heard EXCEPT ![t] = 0]
        /\ Resolved(c, t, call[c].user)
        /\ UNCHANGED <<now, made, voices, handed>>

\* The account's thread in which something was last said.
FindOfAccount(c) ==
    LET mine == OfAccount(call[c].user)
    IN  /\ call[c].pc = "find"
        /\ \/ \E t \in mine : /\ \A s \in mine : threads[s].last <= threads[t].last
                              /\ Resolved(c, t, call[c].user)
           \/ mine = {} /\ Step(c, [call[c] EXCEPT !.pc = "create"])
        /\ UNCHANGED <<now, threads, made, heard, voices, handed>>

NewRow(b, u) ==
    [key |-> IF u = None THEN b ELSE None, user |-> u,
     status |-> "OPEN", assigned |-> None, last |-> now,
     expires |-> IF u = None THEN now + TTL ELSE None]

\* A second thread for one cookie violates the unique key.
Create(c) ==
    LET b == call[c].browser
        u == call[c].user
    IN  /\ call[c].pc = "create"
        /\ InTime
        /\ u = None => OfBrowser(b) = {}
        /\ made < MaxThreads
        /\ made' = made + 1
        /\ threads' = [threads EXCEPT ![made'] = NewRow(b, u)]
        /\ heard' = [heard EXCEPT ![made'] = IF u = None THEN now ELSE 0]
        /\ Resolved(c, made', u)
        /\ UNCHANGED <<now, voices, handed>>

----------------------------------------------------------------------------
(* Messages.  A commit must come before the transaction times out; the     *)
(* expiry is computed somewhere between its opening and its commit.        *)

CanCommit(c) == Exists(call[c].thread) /\ now <= call[c].opened + TxTimeout

Later(s, t) == IF s >= t THEN s ELSE t

\* Said in thread t by a transaction opened at time s.
Heard(t, s) ==
    heard' = [heard EXCEPT ![t] = IF threads[t].user = None THEN Later(@, s) ELSE @]

\* Only a message of a guest slides the window.
sendVisitorMessage(c) ==
    LET t == call[c].thread
        s == call[c].opened
    IN  /\ call[c].pc = "send"
        /\ CanCommit(c)
        /\ \E e \in s..now :
              threads' = [threads EXCEPT ![t].last = s,
                             ![t].expires = IF call[c].user = None THEN e + TTL ELSE @]
        /\ Heard(t, s)
        /\ Step(c, NoCall)
        /\ UNCHANGED <<now, made, voices, handed>>

\* Mutant: the claim of another is not looked at.
MayReplyAnyway(t, s) == Exists(t)

MayReply(t, s) == Exists(t) /\ threads[t].assigned \in {None, s}

\* The transaction reads the thread, without a lock.  saw is history: who had
\* replied.
OpenReply(c, t, s) ==
    /\ call[c].pc = "idle"
    /\ InTime
    /\ MayReply(t, s)
    /\ Step(c, [pc |-> "reply", thread |-> t, staff |-> s, opened |-> now,
                claims |-> threads[t].assigned = None,
                slides |-> threads[t].user = None,
                opens |-> threads[t].status = "OPEN",
                saw |-> voices[t]])
    /\ UNCHANGED <<now, threads, made, heard, voices, handed>>

\* What it writes depends on what it read.
sendStaffMessage(c) ==
    LET t == call[c].thread
        s == call[c].opened
    IN  /\ call[c].pc = "reply"
        /\ CanCommit(c)
        /\ \E e \in s..now :
              threads' = [threads EXCEPT
                 ![t].last = s,
                 ![t].assigned = IF call[c].claims THEN call[c].staff ELSE @,
                 ![t].status = IF call[c].opens THEN "ASSIGNED" ELSE @,
                 ![t].expires = IF call[c].slides THEN e + TTL ELSE @]
        /\ Heard(t, s)
        /\ voices' = [voices EXCEPT
                 ![t] = IF t \in handed THEN {} ELSE @ \union {call[c].staff}]
        /\ Step(c, NoCall)
        /\ UNCHANGED <<now, made, handed>>

\* A row that is gone, a violated key, a timeout or an exception: rolled back.
Refuse(c) ==
    /\ call[c].pc # "idle"
    /\ Step(c, NoCall)
    /\ UNCHANGED <<now, threads, made, heard, voices, handed>>

----------------------------------------------------------------------------
(* Staff without a message, and the sweep. *)

\* assign: one update by id; the look before it only tells that the row exists.
assign(t, s) ==
    /\ Exists(t)
    /\ threads' = [threads EXCEPT ![t].assigned = s,
                      ![t].status = IF s = None THEN "OPEN" ELSE "ASSIGNED"]
    /\ handed' = handed \union {t}
    /\ voices' = [voices EXCEPT ![t] = {}]
    /\ UNCHANGED <<now, made, heard, call>>

\* The rows go, their messages with them, and nothing is remembered of them.
Erase(ts) ==
    /\ threads' = [t \in Threads |-> IF t \in ts THEN NoRow ELSE threads[t]]
    /\ heard' = [t \in Threads |-> IF t \in ts THEN 0 ELSE heard[t]]
    /\ voices' = [t \in Threads |-> IF t \in ts THEN {} ELSE voices[t]]
    /\ handed' = handed \ ts
    /\ UNCHANGED <<now, made, call>>

close(t) == Exists(t) /\ Erase({t})

\* Mutant: whoever the thread belongs to.
ExpiredWhoever(row) == row.expires # None /\ row.expires < now

Expired(row) == /\ row.user = None
                /\ row.expires # None /\ row.expires < now

Swept == {t \in Threads : Exists(t) /\ Expired(threads[t])}

\* runOnce of the reconciler: one statement.
Sweep == Swept # {} /\ Erase(Swept)

Tick ==
    /\ now < MaxTime
    /\ now' = now + 1
    /\ UNCHANGED <<threads, made, heard, voices, handed, call>>

VisitorStep(c) ==
    \/ \E b \in Browsers : \/ LookUpGuest(c, b)
                           \/ \E u \in Accounts : LookUpAccount(c, b, u)
    \/ Adopt(c) \/ FindOfAccount(c) \/ Create(c) \/ sendVisitorMessage(c)

StaffStep(c) == \/ \E t \in Threads, s \in Staff : OpenReply(c, t, s)
                \/ sendStaffMessage(c)

Next == \/ Tick \/ Sweep
        \/ \E c \in Calls : VisitorStep(c) \/ StaffStep(c) \/ Refuse(c)
        \/ \E t \in Threads : \/ close(t)
                              \/ \E s \in Assignees : assign(t, s)

\* The sweep runs every minute (setInterval), also after an error.
Spec == Init /\ [][Next]_vars

----------------------------------------------------------------------------
(* Properties. *)

CallType ==
    [pc : {"idle"}]
    \union [pc : {"find", "create"}, browser : Browsers,
            user : Accounts \union {None}]
    \union [pc : {"adopt"}, thread : Threads, user : Accounts]
    \union [pc : {"send"}, thread : Threads, user : Accounts \union {None},
            opened : Time]
    \union [pc : {"reply"}, thread : Threads, staff : Staff, opened : Time,
            claims : BOOLEAN, slides : BOOLEAN, opens : BOOLEAN,
            saw : SUBSET Staff]

TypeOK ==
    /\ now \in Time
    /\ threads \in [Threads -> Row \union {NoRow}]
    /\ made \in 0..MaxThreads
    /\ heard \in [Threads -> Time]
    /\ voices \in [Threads -> SUBSET Staff]
    /\ handed \subseteq Threads
    /\ call \in [Calls -> CallType]

\* The sweep erases no conversation of an account, and none in which anyone
\* said anything for the TTL, but for the time a transaction may take: of two
\* that overlap the older one may set the expiry last (slidingExpiry, the
\* updates of sendVisitorMessage and sendStaffMessage, against purgeExpired).
SilentBeforeSwept ==
    [][\A t \in Threads : Sweep /\ Exists(t) /\ ~Exists(t)' =>
          threads[t].user = None /\ heard[t] + TTL - TxTimeout < now]_vars

\* The cookie of a browser, which outlives a session, leads to no thread that
\* belongs to an account, however adoptions, creations and messages overlap
\* (resolveThread: visitorKey leaves with the adoption).
KeyOrAccount ==
    \A t \in Threads : Exists(t) => threads[t].key = None \/ threads[t].user = None

\* A visitor hears a second voice, nobody having handed the thread over by hand,
\* only from transactions that overlapped: whoever is about to be a new voice
\* read the thread before any reply was there (sendStaffMessage: the claim is
\* checked inside, and made by whoever found none).
NewVoiceOverlapped ==
    \A c \in Calls : call[c].pc = "reply" =>
        LET t == call[c].thread
        IN  Exists(t) /\ t \notin handed /\ call[c].staff \notin voices[t]
                => call[c].saw = {}

\* A guest's thread always has its expiry, and it is the TTL after the latest
\* message, give or take what a transaction may take: nothing that overlaps
\* leaves one that the sweep would keep for longer, or for ever (slidingExpiry
\* at the creation, and every update that slides it).
GuestsExpire ==
    \A t \in Threads : Exists(t) /\ threads[t].user = None =>
        /\ threads[t].expires # None
        /\ threads[t].expires \in
              (heard[t] + TTL - TxTimeout)..(heard[t] + TTL + TxTimeout)

\* The comment at schema.prisma:1557: "Set only for anonymous threads.  Null
\* once a visitor signs in".  A message that found the thread before the
\* adoption sets it afterwards.
AccountsNeverExpire ==
    \A t \in Threads : Exists(t) /\ threads[t].user # None
                          => threads[t].expires = None

\* The comment at support.service.ts:404 of the claim: "only the holder
\* replies".  Two transactions both read an unassigned thread.
OnlyHolderReplies ==
    [][\A c \in Calls, t \in Threads :
          /\ call[c].pc = "reply" /\ call[c].thread = t
          /\ call[c].staff \in voices'[t] \ voices[t]
          => threads[t].assigned \in {None, call[c].staff}]_vars

=============================================================================
