------------------------ MODULE SupportThreadsProofs ------------------------
(* Proofs about SupportThreads, for any browsers, accounts, staff, calls    *)
(* and bounds.                                                              *)
EXTENDS SupportThreads, TLAPS

----------------------------------------------------------------------------
(* The inductive invariant. *)

\* Identities beyond the last one created are free.
Numbered == \A t \in Threads : t > made => threads[t] = NoRow

\* What was said was said by now.
HeardByNow == \A t \in Threads : heard[t] <= now

\* A call refers to a thread that was created, opened its transaction by now
\* and, by the bound, in time; a message of an account, and a reply that does
\* not slide the window, found a thread that is an account's for ever.
Underway(x) ==
    /\ x.pc \in {"adopt", "send", "reply"} => x.thread <= made
    /\ x.pc \in {"send", "reply"} =>
          /\ x.opened <= now
          /\ x.opened + TxTimeout + TTL < MaxTime
    /\ x.pc = "send" /\ x.user # None /\ Exists(x.thread)
          => threads[x.thread].user # None
    /\ x.pc = "reply" /\ ~x.slides /\ Exists(x.thread)
          => threads[x.thread].user # None

\* Nobody replied in a thread that is not there.
NoVoices == \A t \in Threads : ~Exists(t) => voices[t] = {}

\* Until it is handed over, a thread is assigned to one of those who replied.
ClaimedByVoice ==
    \A t \in Threads : Exists(t) /\ t \notin handed =>
        /\ threads[t].assigned = None => voices[t] = {}
        /\ threads[t].assigned # None => threads[t].assigned \in voices[t]

\* A reply that saw others, in a thread not handed over, is of one of them.
Reader(x) ==
    x.pc = "reply" /\ Exists(x.thread) /\ x.thread \notin handed =>
        /\ x.saw \subseteq voices[x.thread]
        /\ x.claims => x.saw = {}
        /\ ~x.claims => x.staff \in x.saw

CallsSound == \A c \in Calls : Underway(call[c]) /\ Reader(call[c])

Inv == /\ TypeOK /\ Numbered /\ HeardByNow /\ CallsSound
       /\ KeyOrAccount /\ GuestsExpire /\ NoVoices /\ ClaimedByVoice

----------------------------------------------------------------------------
(* Records. *)

LEMMA RowFields ==
    ASSUME NEW row \in Row
    PROVE  /\ row.key \in Browsers \union {None}
           /\ row.user \in Accounts \union {None}
           /\ row.status \in {"OPEN", "ASSIGNED"}
           /\ row.assigned \in Staff \union {None}
           /\ row.last \in Time
           /\ row.expires \in Time \union {None}
           /\ row # NoRow
  BY DEF Row, NoRow

LEMMA CallFields ==
    ASSUME NEW x \in CallType
    PROVE  /\ x.pc \in {"idle", "find", "create", "adopt", "send", "reply"}
           /\ x.pc \in {"find", "create"} =>
                x.browser \in Browsers /\ x.user \in Accounts \union {None}
           /\ x.pc = "adopt" => x.thread \in Threads /\ x.user \in Accounts
           /\ x.pc = "send" => /\ x.thread \in Threads /\ x.opened \in Time
                               /\ x.user \in Accounts \union {None}
           /\ x.pc = "reply" =>
                /\ x.thread \in Threads /\ x.opened \in Time /\ x.staff \in Staff
                /\ x.claims \in BOOLEAN /\ x.slides \in BOOLEAN
                /\ x.opens \in BOOLEAN /\ x.saw \in SUBSET Staff
  BY DEF CallType

LEMMA NoCallType == NoCall \in CallType
  BY DEF NoCall, CallType

LEMMA BoundsAreNumbers ==
    /\ TTL \in Nat /\ TxTimeout \in Nat /\ MaxTime \in Nat /\ MaxThreads \in Nat
    /\ TxTimeout < TTL
    /\ None \notin Browsers /\ None \notin Accounts /\ None \notin Staff
    /\ None \notin Nat
  BY SupportAssumption

\* The null of a column is no time: an expiry is a number or null.
LEMMA RowsAre ==
    ASSUME TypeOK, NEW t \in Threads
    PROVE  /\ threads[t] \in Row \union {NoRow}
           /\ Exists(t) <=> threads[t] \in Row
           /\ Exists(t) <=> threads[t] # NoRow
  BY RowFields DEF TypeOK, Exists

----------------------------------------------------------------------------
(* What happens to a call while others work. *)

\* What one step may do to the threads that calls refer to: none comes back, none
\* is a guest's again, and one that is still not handed over keeps its voices.
Aged ==
    /\ now \in Nat /\ now' \in Nat /\ now <= now'
    /\ made \in Nat /\ made' \in Nat /\ made <= made'
    /\ \A t \in Threads : t <= made /\ Exists(t)' =>
          /\ Exists(t)
          /\ threads[t].user # None => threads'[t].user # None
          /\ t \notin handed' => t \notin handed /\ voices[t] \subseteq voices'[t]

LEMMA CallAged ==
    ASSUME Aged, NEW x \in CallType, Underway(x), Reader(x)
    PROVE  Underway(x)' /\ Reader(x)'
<1>1. x.pc \in {"adopt", "send", "reply"} => x.thread \in Threads /\ x.thread <= made
  BY CallFields DEF Underway
<1>2. x.pc \in {"adopt", "send", "reply"} => x.thread <= made'
  BY <1>1 DEF Aged, Threads
<1>3. x.pc \in {"send", "reply"} => x.opened <= now'
  BY CallFields DEF Underway, Aged, Time
<1>4. x.pc \in {"send", "reply"} /\ Exists(x.thread)' => Exists(x.thread)
  BY <1>1 DEF Aged
<1>5. x.pc \in {"send", "reply"} /\ Exists(x.thread)' /\ threads[x.thread].user # None
        => threads'[x.thread].user # None
  BY <1>1 DEF Aged
<1>6. Underway(x)'
  BY <1>2, <1>3, <1>4, <1>5 DEF Underway
<1>7. ASSUME x.pc = "reply", Exists(x.thread)', x.thread \notin handed'
      PROVE  /\ Exists(x.thread) /\ x.thread \notin handed
             /\ voices[x.thread] \subseteq voices'[x.thread]
  BY <1>1, <1>7 DEF Aged
<1>8. Reader(x)'
  BY <1>7 DEF Reader
<1>9. QED
  BY <1>6, <1>8

\* After a step of call c that leaves it at x, the calls are sound.
LEMMA CallsStay ==
    ASSUME Inv, Aged, NEW c \in Calls, NEW x \in CallType, Step(c, x),
           Underway(x)', Reader(x)'
    PROVE  CallsSound' /\ call' \in [Calls -> CallType]
<1>1. call' \in [Calls -> CallType]
  BY DEF Inv, TypeOK, Step
<1>2. ASSUME NEW d \in Calls
      PROVE  (Underway(call[d]) /\ Reader(call[d]))'
  <2>1. PICK y \in CallType : y = call'[d]
    BY <1>1
  <2>2. Underway(y)' /\ Reader(y)'
    <3>1. CASE d = c
      BY <2>1, <3>1 DEF Inv, TypeOK, Step
    <3>2. CASE d # c
      <4>1. y = call[d]
        BY <2>1, <3>2 DEF Inv, TypeOK, Step
      <4>2. Underway(y) /\ Reader(y)
        BY <4>1 DEF Inv, CallsSound
      <4>3. QED
        BY <4>2, CallAged
    <3>3. QED
      BY <3>1, <3>2
  <2>3. QED
    BY <2>1, <2>2 DEF Underway, Reader
<1>3. QED
  BY <1>1, <1>2 DEF CallsSound

\* A call that ends, or opens the transaction of a message in thread t.
LEMMA ResolvedCall ==
    ASSUME TypeOK, NEW c \in Calls, NEW t \in Threads,
           NEW u \in Accounts \union {None}, Resolved(c, t, u),
           now' = now, made' \in Nat, t <= made',
           u # None /\ Exists(t)' => threads'[t].user # None
    PROVE  \E x \in CallType : Step(c, x) /\ Underway(x)' /\ Reader(x)'
<1>1. CASE Step(c, NoCall)
  <2>1. Underway(NoCall)' /\ Reader(NoCall)'
    BY DEF Underway, Reader, NoCall
  <2>2. QED
    BY <1>1, <2>1, NoCallType
<1>2. CASE InTime /\ Step(c, [pc |-> "send", thread |-> t, user |-> u, opened |-> now])
  <2> DEFINE x == [pc |-> "send", thread |-> t, user |-> u, opened |-> now]
  <2>1. x \in CallType
    BY DEF CallType, TypeOK
  <2>2. now \in Nat /\ now + TxTimeout + TTL < MaxTime
    BY <1>2 DEF InTime, TypeOK, Time
  <2>3. Underway(x)'
    BY <2>2 DEF Underway
  <2>4. Reader(x)'
    BY DEF Reader
  <2>5. QED
    BY <1>2, <2>1, <2>3, <2>4
<1>3. QED
  BY <1>1, <1>2 DEF Resolved

\* A step that touches nothing but a call, and leaves it sound.
LEMMA OnlyCall ==
    ASSUME Inv, NEW c \in Calls, NEW x \in CallType, Step(c, x),
           Underway(x)', Reader(x)',
           UNCHANGED <<now, threads, made, heard, voices, handed>>
    PROVE  Inv'
<1>1. Aged
  BY BoundsAreNumbers DEF Aged, Inv, TypeOK, Time, Exists
<1>2. CallsSound' /\ call' \in [Calls -> CallType]
  BY <1>1, CallsStay
<1>3. TypeOK'
  BY <1>2 DEF Inv, TypeOK
<1>4. /\ Numbered' /\ HeardByNow' /\ KeyOrAccount' /\ GuestsExpire'
      /\ NoVoices' /\ ClaimedByVoice'
  BY DEF Inv, Numbered, HeardByNow, KeyOrAccount, GuestsExpire, NoVoices,
         ClaimedByVoice, Exists
<1>5. QED
  BY <1>2, <1>3, <1>4 DEF Inv

----------------------------------------------------------------------------
(* Steps that leave the rows alone. *)

LEMMA LookUpGuestStep ==
    ASSUME Inv, NEW c \in Calls, NEW b \in Browsers, LookUpGuest(c, b)
    PROVE  Inv'
<1>1. CASE \E t \in OfBrowser(b) : Resolved(c, t, None)
  <2>1. PICK t \in Threads : Exists(t) /\ Resolved(c, t, None)
    BY <1>1 DEF OfBrowser
  <2>2. t <= made' /\ made' \in Nat /\ now' = now
    BY <2>1, RowsAre, BoundsAreNumbers DEF LookUpGuest, Inv, Numbered, Threads, TypeOK
  <2>3. \E x \in CallType : Step(c, x) /\ Underway(x)' /\ Reader(x)'
    BY <2>1, <2>2, ResolvedCall DEF Inv
  <2>4. QED
    BY <2>3, OnlyCall DEF LookUpGuest
<1>2. CASE Step(c, [pc |-> "create", browser |-> b, user |-> None])
  <2> DEFINE x == [pc |-> "create", browser |-> b, user |-> None]
  <2>1. x \in CallType
    BY DEF CallType
  <2>2. Underway(x)' /\ Reader(x)'
    BY DEF Underway, Reader
  <2>3. QED
    BY <1>2, <2>1, <2>2, OnlyCall DEF LookUpGuest
<1>3. QED
  BY <1>1, <1>2 DEF LookUpGuest

LEMMA LookUpAccountStep ==
    ASSUME Inv, NEW c \in Calls, NEW b \in Browsers, NEW u \in Accounts,
           LookUpAccount(c, b, u)
    PROVE  Inv'
<1>1. ASSUME NEW t \in OfBrowser(b), Step(c, [pc |-> "adopt", thread |-> t, user |-> u])
      PROVE  Inv'
  <2> DEFINE x == [pc |-> "adopt", thread |-> t, user |-> u]
  <2>1. t \in Threads /\ Exists(t)
    BY DEF OfBrowser
  <2>2. t <= made'
    BY <2>1, RowsAre, BoundsAreNumbers
    DEF LookUpAccount, Inv, Numbered, Threads, TypeOK
  <2>3. x \in CallType
    BY <2>1 DEF CallType
  <2>4. Underway(x)' /\ Reader(x)'
    BY <2>2 DEF Underway, Reader
  <2>5. QED
    BY <1>1, <2>3, <2>4, OnlyCall DEF LookUpAccount
<1>2. CASE Step(c, [pc |-> "find", browser |-> b, user |-> u])
  <2> DEFINE x == [pc |-> "find", browser |-> b, user |-> u]
  <2>1. x \in CallType
    BY DEF CallType
  <2>2. Underway(x)' /\ Reader(x)'
    BY DEF Underway, Reader
  <2>3. QED
    BY <1>2, <2>1, <2>2, OnlyCall DEF LookUpAccount
<1>3. QED
  BY <1>1, <1>2 DEF LookUpAccount

LEMMA FindOfAccountStep ==
    ASSUME Inv, NEW c \in Calls, FindOfAccount(c)
    PROVE  Inv'
<1>1. /\ call[c] \in CallType /\ call[c].pc = "find"
      /\ call[c].user \in Accounts \union {None} /\ call[c].browser \in Browsers
  BY CallFields DEF FindOfAccount, Inv, TypeOK
<1>2. ASSUME NEW t \in OfAccount(call[c].user), Resolved(c, t, call[c].user)
      PROVE  Inv'
  <2>1. t \in Threads /\ Exists(t) /\ threads[t].user = call[c].user
    BY DEF OfAccount
  <2>2. t <= made' /\ made' \in Nat /\ now' = now /\ threads' = threads
    BY <2>1, RowsAre, BoundsAreNumbers
    DEF FindOfAccount, Inv, Numbered, Threads, TypeOK
  <2>3. \E x \in CallType : Step(c, x) /\ Underway(x)' /\ Reader(x)'
    BY <1>1, <1>2, <2>1, <2>2, ResolvedCall DEF Inv
  <2>4. QED
    BY <2>3, OnlyCall DEF FindOfAccount
<1>3. CASE Step(c, [call[c] EXCEPT !.pc = "create"])
  <2> DEFINE x == [call[c] EXCEPT !.pc = "create"]
  <2>1. call[c] \in [pc : {"find", "create"}, browser : Browsers,
                     user : Accounts \union {None}]
    BY <1>1 DEF CallType
  <2>2. x \in CallType /\ x.pc = "create"
    BY <2>1 DEF CallType
  <2>3. PICK y \in CallType : y = x
    BY <2>2
  <2>4. Underway(y)' /\ Reader(y)'
    BY <2>2, <2>3 DEF Underway, Reader
  <2>5. UNCHANGED <<now, threads, made, heard, voices, handed>> /\ Step(c, y)
    BY <1>3, <2>3 DEF FindOfAccount
  <2>6. QED
    BY <2>4, <2>5, OnlyCall
<1>4. QED
  BY <1>2, <1>3 DEF FindOfAccount

LEMMA OpenReplyStep ==
    ASSUME Inv, NEW c \in Calls, NEW t \in Threads, NEW s \in Staff,
           OpenReply(c, t, s)
    PROVE  Inv'
<1> DEFINE x == [pc |-> "reply", thread |-> t, staff |-> s, opened |-> now,
                 claims |-> threads[t].assigned = None,
                 slides |-> threads[t].user = None,
                 opens |-> threads[t].status = "OPEN",
                 saw |-> voices[t]]
<1>1. Exists(t) /\ threads[t].assigned \in {None, s} /\ Step(c, x)
  BY DEF OpenReply, MayReply
<1>2. now \in Time /\ voices[t] \in SUBSET Staff
  BY DEF Inv, TypeOK
<1>3. x \in CallType
  <2>1. x \in [pc : {"reply"}, thread : Threads, staff : Staff, opened : Time,
               claims : BOOLEAN, slides : BOOLEAN, opens : BOOLEAN,
               saw : SUBSET Staff]
    BY <1>2
  <2>2. QED
    BY <2>1 DEF CallType
<1>4. t <= made' /\ now' = now /\ now \in Nat /\ threads' = threads
  BY <1>1, RowsAre, BoundsAreNumbers
  DEF OpenReply, Inv, Numbered, Threads, TypeOK, Time
<1>5. now + TxTimeout + TTL < MaxTime
  BY DEF OpenReply, InTime
<1>6. PICK y \in CallType : y = x
  BY <1>3
<1>7. ASSUME t \notin handed
      PROVE  /\ threads[t].assigned = None => voices[t] = {}
             /\ threads[t].assigned # None => s \in voices[t]
  BY <1>1, <1>7 DEF Inv, ClaimedByVoice
<1>8. Reader(y)'
  BY <1>6, <1>7 DEF Reader, OpenReply
<1>9. Underway(y)'
  <2>1. /\ y.pc = "reply" /\ y.thread = t /\ y.opened = now
        /\ y.slides <=> threads[t].user = None
    BY <1>6
  <2>2. y.opened <= now' /\ y.opened + TxTimeout + TTL < MaxTime
    BY <1>4, <1>5, <2>1
  <2>3. ~y.slides => threads'[y.thread].user # None
    BY <1>4, <2>1
  <2>4. QED
    BY <1>4, <2>1, <2>2, <2>3 DEF Underway
<1>10. QED
  BY <1>1, <1>6, <1>8, <1>9, OnlyCall DEF OpenReply

LEMMA RefuseStep ==
    ASSUME Inv, NEW c \in Calls, Refuse(c)
    PROVE  Inv'
<1>1. Underway(NoCall)' /\ Reader(NoCall)'
  BY DEF Underway, Reader, NoCall
<1>2. QED
  BY <1>1, NoCallType, OnlyCall DEF Refuse

----------------------------------------------------------------------------
(* Steps that write one row. *)

\* Row t is written as r, and the history of t with it; both are in order.
Writes(t, r) ==
    /\ threads' = [threads EXCEPT ![t] = r] /\ now' = now
    /\ made' \in 0..MaxThreads /\ made <= made' /\ t <= made'
    /\ heard' \in [Threads -> Time] /\ voices' \in [Threads -> SUBSET Staff]
    /\ handed' \subseteq Threads
    /\ \A s \in Threads : s # t => /\ heard'[s] = heard[s]
                                   /\ voices'[s] = voices[s]
                                   /\ s \in handed' <=> s \in handed
    /\ heard'[t] <= now
    /\ r.key = None \/ r.user = None
    /\ r.user = None => /\ r.expires # None
                        /\ r.expires \in (heard'[t] + TTL - TxTimeout)
                                          ..(heard'[t] + TTL + TxTimeout)
    /\ t \notin handed' => /\ r.assigned = None => voices'[t] = {}
                           /\ r.assigned # None => r.assigned \in voices'[t]

LEMMA RowWritten ==
    ASSUME Inv, NEW t \in Threads, NEW r \in Row, Writes(t, r),
           CallsSound', call' \in [Calls -> CallType]
    PROVE  Inv'
<1>1. threads' \in [Threads -> Row \union {NoRow}]
  BY DEF Writes, Inv, TypeOK
<1>2. threads'[t] = r /\ \A s \in Threads : s # t => threads'[s] = threads[s]
  BY DEF Writes, Inv, TypeOK
<1>3. TypeOK'
  BY <1>1 DEF Writes, Inv, TypeOK
<1>4. Numbered'
  <2>1. made \in Nat /\ made' \in Nat
    BY BoundsAreNumbers DEF Writes, Inv, TypeOK
  <2>2. QED
    BY <1>2, <2>1 DEF Writes, Inv, Numbered, Threads
<1>5. HeardByNow'
  <2>1. ASSUME NEW s \in Threads PROVE heard'[s] <= now'
    <3>1. CASE s = t
      BY <3>1 DEF Writes
    <3>2. CASE s # t
      <4>1. heard[s] <= now
        BY DEF Inv, HeardByNow
      <4>2. QED
        BY <3>2, <4>1 DEF Writes
    <3>3. QED
      BY <3>1, <3>2
  <2>2. QED
    BY <2>1 DEF HeardByNow
<1>6. KeyOrAccount'
  BY <1>2 DEF Writes, Inv, KeyOrAccount, Exists
<1>7. GuestsExpire'
  <2>1. ASSUME NEW s \in Threads, Exists(s)', threads'[s].user = None
        PROVE  /\ threads'[s].expires # None
               /\ threads'[s].expires \in (heard'[s] + TTL - TxTimeout)
                                         ..(heard'[s] + TTL + TxTimeout)
    <3>1. CASE s = t
      BY <1>2, <2>1, <3>1 DEF Writes
    <3>2. CASE s # t
      BY <1>2, <2>1, <3>2 DEF Writes, Inv, GuestsExpire, Exists
    <3>3. QED
      BY <3>1, <3>2
  <2>2. QED
    BY <2>1 DEF GuestsExpire
<1>8. ClaimedByVoice'
  <2>1. ASSUME NEW s \in Threads, Exists(s)', s \notin handed'
        PROVE  /\ threads'[s].assigned = None => voices'[s] = {}
               /\ threads'[s].assigned # None => threads'[s].assigned \in voices'[s]
    <3>1. CASE s = t
      <4>1. threads'[s] = r /\ t \notin handed' /\ voices'[s] = voices'[t]
        BY <1>2, <2>1, <3>1
      <4>2. /\ r.assigned = None => voices'[t] = {}
            /\ r.assigned # None => r.assigned \in voices'[t]
        BY <4>1 DEF Writes
      <4>3. QED
        BY <4>1, <4>2
    <3>2. CASE s # t
      BY <1>2, <2>1, <3>2 DEF Writes, Inv, ClaimedByVoice, Exists
    <3>3. QED
      BY <3>1, <3>2
  <2>2. QED
    BY <2>1 DEF ClaimedByVoice
<1>9. NoVoices'
  BY <1>2, RowFields DEF Writes, Inv, NoVoices, Exists
<1>10. QED
  BY <1>3, <1>4, <1>5, <1>6, <1>7, <1>8, <1>9 DEF Inv

LEMMA AdoptStep ==
    ASSUME Inv, NEW c \in Calls, Adopt(c)
    PROVE  Inv'
<1>1. call[c] \in CallType /\ call[c].pc = "adopt"
  BY DEF Adopt, Inv, TypeOK
<1>2. PICK t \in Threads : t = call[c].thread
  BY <1>1, CallFields
<1>3. PICK u \in Accounts : u = call[c].user
  BY <1>1, CallFields
<1>4. /\ threads[t] \in Row /\ threads' = [threads EXCEPT ![t] = Adopted(@, u)]
      /\ heard' = [heard EXCEPT ![t] = 0] /\ Resolved(c, t, u)
      /\ UNCHANGED <<now, made, voices, handed>> /\ Exists(t)
  BY <1>2, <1>3, RowsAre DEF Adopt, Inv
<1>5. PICK r \in Row : r = Adopted(threads[t], u)
  BY <1>4 DEF Adopted, Row
<1>6. /\ r.user = u /\ r.key = None /\ r.assigned = threads[t].assigned
  BY <1>4, <1>5 DEF Adopted, Row
<1>7. u # None
  BY BoundsAreNumbers
<1>8. threads' = [threads EXCEPT ![t] = r]
  BY <1>4, <1>5
<1>9. threads'[t] = r /\ \A s \in Threads : s # t => threads'[s] = threads[s]
  BY <1>8 DEF Inv, TypeOK
<1>10. now \in Nat /\ made \in Nat /\ t <= made
  <2>1. threads[t] # NoRow
    BY <1>4 DEF Exists
  <2>2. QED
    BY <2>1, BoundsAreNumbers DEF Inv, TypeOK, Time, Numbered, Threads
<1>11. Aged
  BY <1>4, <1>6, <1>7, <1>9, <1>10 DEF Aged, Exists
<1>12. PICK x \in CallType : Step(c, x) /\ Underway(x)' /\ Reader(x)'
  BY <1>4, <1>6, <1>7, <1>9, <1>10, ResolvedCall DEF Inv
<1>13. CallsSound' /\ call' \in [Calls -> CallType]
  BY <1>11, <1>12, CallsStay
<1>14. heard' \in [Threads -> Time] /\ heard'[t] = 0
       /\ \A s \in Threads : s # t => heard'[s] = heard[s]
  BY <1>4, <1>10, BoundsAreNumbers DEF Inv, TypeOK, Time
<1>15. t \notin handed' => /\ r.assigned = None => voices'[t] = {}
                           /\ r.assigned # None => r.assigned \in voices'[t]
  BY <1>4, <1>6 DEF Inv, ClaimedByVoice
<1>16. /\ made' \in 0..MaxThreads /\ made <= made' /\ t <= made' /\ now' = now
       /\ voices' \in [Threads -> SUBSET Staff] /\ handed' \subseteq Threads
       /\ heard'[t] <= now
       /\ \A s \in Threads : s # t => /\ heard'[s] = heard[s]
                                      /\ voices'[s] = voices[s]
                                      /\ s \in handed' <=> s \in handed
  BY <1>4, <1>10, <1>14 DEF Inv, TypeOK
<1>17. /\ r.key = None \/ r.user = None
       /\ r.user = None => /\ r.expires # None
                           /\ r.expires \in (heard'[t] + TTL - TxTimeout)
                                             ..(heard'[t] + TTL + TxTimeout)
  BY <1>6, <1>7
<1>18. Writes(t, r)
  BY <1>8, <1>14, <1>15, <1>16, <1>17 DEF Writes
<1>19. QED
  BY <1>13, <1>18, RowWritten

LEMMA CreateStep ==
    ASSUME Inv, NEW c \in Calls, Create(c)
    PROVE  Inv'
<1>1. call[c] \in CallType /\ call[c].pc = "create"
  BY DEF Create, Inv, TypeOK
<1>2. PICK b \in Browsers : b = call[c].browser
  BY <1>1, CallFields
<1>3. PICK u \in Accounts \union {None} : u = call[c].user
  BY <1>1, CallFields
<1>4. /\ now \in Nat /\ now <= MaxTime /\ made \in Nat
      /\ now + TxTimeout + TTL < MaxTime /\ made < MaxThreads
  BY BoundsAreNumbers DEF Create, InTime, Inv, TypeOK, Time
<1>5. PICK t \in Threads : t = made + 1
  BY <1>4, BoundsAreNumbers DEF Threads
<1>6. /\ threads' = [threads EXCEPT ![t] = NewRow(b, u)] /\ made' = t
      /\ heard' = [heard EXCEPT ![t] = IF u = None THEN now ELSE 0]
      /\ Resolved(c, t, u) /\ UNCHANGED <<now, voices, handed>>
  BY <1>2, <1>3, <1>5 DEF Create
<1>7. NewRow(b, u) \in Row
  BY <1>4, BoundsAreNumbers DEF NewRow, Row, Time
<1>8. PICK r \in Row : r = NewRow(b, u)
  BY <1>7
<1>9. /\ r.key = (IF u = None THEN b ELSE None) /\ r.user = u /\ r.assigned = None
      /\ r.expires = (IF u = None THEN now + TTL ELSE None)
  BY <1>8 DEF NewRow
<1>10. threads' = [threads EXCEPT ![t] = r]
  BY <1>6, <1>8
<1>11. threads'[t] = r /\ \A s \in Threads : s # t => threads'[s] = threads[s]
  BY <1>10 DEF Inv, TypeOK
<1>12. ~Exists(t) /\ voices[t] = {}
  BY <1>4, <1>5 DEF Inv, Numbered, Exists, NoVoices
<1>13. Aged
  <2>1. \A s \in Threads : s <= made => s # t
    BY <1>4, <1>5
  <2>2. QED
    BY <1>4, <1>5, <1>6, <1>11, <2>1 DEF Aged, Exists
<1>14. t <= made' /\ made' \in Nat
  BY <1>4, <1>5, <1>6
<1>15. PICK x \in CallType : Step(c, x) /\ Underway(x)' /\ Reader(x)'
  BY <1>6, <1>9, <1>11, <1>14, ResolvedCall DEF Inv
<1>16. CallsSound' /\ call' \in [Calls -> CallType]
  BY <1>13, <1>15, CallsStay
<1>17. /\ heard' \in [Threads -> Time]
       /\ heard'[t] = (IF u = None THEN now ELSE 0)
       /\ \A s \in Threads : s # t => heard'[s] = heard[s]
  <2>1. (IF u = None THEN now ELSE 0) \in Time
    BY <1>4, BoundsAreNumbers DEF Time
  <2>2. QED
    BY <1>6, <2>1 DEF Inv, TypeOK
<1>18. /\ made' \in 0..MaxThreads /\ made <= made' /\ t <= made' /\ now' = now
       /\ voices' \in [Threads -> SUBSET Staff] /\ handed' \subseteq Threads
       /\ heard'[t] <= now
       /\ \A s \in Threads : s # t => /\ heard'[s] = heard[s]
                                      /\ voices'[s] = voices[s]
                                      /\ s \in handed' <=> s \in handed
  <2>1. made' \in 0..MaxThreads /\ made <= made' /\ heard'[t] <= now
    BY <1>4, <1>5, <1>6, <1>17, BoundsAreNumbers
  <2>2. QED
    BY <1>6, <1>14, <1>17, <2>1 DEF Inv, TypeOK
<1>19. /\ r.key = None \/ r.user = None
       /\ r.user = None => /\ r.expires # None
                           /\ r.expires \in (heard'[t] + TTL - TxTimeout)
                                             ..(heard'[t] + TTL + TxTimeout)
  BY <1>4, <1>9, <1>17, BoundsAreNumbers
<1>20. t \notin handed' => /\ r.assigned = None => voices'[t] = {}
                           /\ r.assigned # None => r.assigned \in voices'[t]
  BY <1>6, <1>9, <1>12
<1>21. Writes(t, r)
  BY <1>10, <1>17, <1>18, <1>19, <1>20 DEF Writes
<1>22. QED
  BY <1>16, <1>21, RowWritten

----------------------------------------------------------------------------
(* Messages. *)

LEMMA Slid ==
    ASSUME NEW h \in Nat, NEW s \in Nat, NEW e \in Nat, NEW n \in Nat,
           h <= n, s <= e, e <= n, n <= s + TxTimeout
    PROVE  /\ Later(h, s) \in Nat /\ Later(h, s) <= n
           /\ e + TTL \in (Later(h, s) + TTL - TxTimeout)
                         ..(Later(h, s) + TTL + TxTimeout)
  BY BoundsAreNumbers DEF Later

\* The row of a message: its expiry is slid, if its sender slides it.
Said(row, s, e, slides) ==
    [row EXCEPT !.last = s, !.expires = IF slides THEN e + TTL ELSE @]

\* A message said at s, in a transaction that commits now.
LEMMA MessageWritten ==
    ASSUME Inv, NEW c \in Calls, NEW t \in Threads, NEW q \in Row,
           NEW s \in Time, NEW slides \in BOOLEAN, NEW e \in s..now,
           Exists(t), now <= s + TxTimeout, s + TxTimeout + TTL < MaxTime,
           s <= now, t <= made,
           q.user = threads[t].user, q.key = threads[t].key,
           q.expires = threads[t].expires,
           ~slides => threads[t].user # None,
           threads' = [threads EXCEPT ![t] = Said(q, s, e, slides)],
           Heard(t, s), Step(c, NoCall), UNCHANGED <<now, made, handed>>,
           voices' \in [Threads -> SUBSET Staff],
           \A i \in Threads : i # t => voices'[i] = voices[i],
           voices[t] \subseteq voices'[t] \/ t \in handed,
           t \notin handed => /\ q.assigned = None => voices'[t] = {}
                              /\ q.assigned # None => q.assigned \in voices'[t]
    PROVE  Inv'
<1>1. /\ s \in Nat /\ now \in Nat /\ e \in Nat /\ s <= e /\ e <= now
      /\ made \in Nat /\ now <= MaxTime
  BY BoundsAreNumbers DEF Inv, TypeOK, Time
<1>2. heard[t] \in Nat /\ heard[t] <= now
  BY DEF Inv, TypeOK, HeardByNow, Time
<1>3. /\ Later(heard[t], s) \in Nat /\ Later(heard[t], s) <= now
      /\ e + TTL \in (Later(heard[t], s) + TTL - TxTimeout)
                    ..(Later(heard[t], s) + TTL + TxTimeout)
  BY <1>1, <1>2, Slid
<1>4. e + TTL \in Time
  BY <1>1, BoundsAreNumbers DEF Time
<1>5. Said(q, s, e, slides) \in Row
  BY <1>4 DEF Said, Row
<1>6. PICK r \in Row : r = Said(q, s, e, slides)
  BY <1>5
<1>7. /\ r.user = threads[t].user /\ r.key = threads[t].key
      /\ r.assigned = q.assigned
      /\ r.expires = (IF slides THEN e + TTL ELSE threads[t].expires)
  BY <1>6 DEF Said, Row
<1>8. threads' = [threads EXCEPT ![t] = r]
  BY <1>6
<1>9. threads'[t] = r /\ \A i \in Threads : i # t => threads'[i] = threads[i]
  BY <1>8 DEF Inv, TypeOK
<1>10. Aged
  BY <1>1, <1>7, <1>9 DEF Aged, Exists
<1>11. Underway(NoCall)' /\ Reader(NoCall)'
  BY DEF Underway, Reader, NoCall
<1>12. CallsSound' /\ call' \in [Calls -> CallType]
  BY <1>10, <1>11, NoCallType, CallsStay
<1>13. /\ heard' \in [Threads -> Time] /\ heard'[t] <= now
       /\ threads[t].user = None => heard'[t] = Later(heard[t], s)
       /\ \A i \in Threads : i # t => heard'[i] = heard[i]
  <2>1. Later(heard[t], s) \in Time
    BY <1>1, <1>3, BoundsAreNumbers DEF Time
  <2>2. QED
    BY <1>2, <1>3, <2>1 DEF Heard, Inv, TypeOK
<1>14. /\ r.key = None \/ r.user = None
       /\ r.user = None => /\ r.expires # None
                           /\ r.expires \in (heard'[t] + TTL - TxTimeout)
                                             ..(heard'[t] + TTL + TxTimeout)
  <2>1. r.key = None \/ r.user = None
    BY <1>7 DEF Inv, KeyOrAccount
  <2>2. ASSUME r.user = None
        PROVE  /\ r.expires # None
               /\ r.expires \in (heard'[t] + TTL - TxTimeout)
                                 ..(heard'[t] + TTL + TxTimeout)
    <3>1. r.expires = e + TTL /\ heard'[t] = Later(heard[t], s)
      BY <1>7, <1>13, <2>2
    <3>2. QED
      BY <1>1, <1>3, <3>1, BoundsAreNumbers
  <2>3. QED
    BY <2>1, <2>2
<1>15. t \notin handed' => /\ r.assigned = None => voices'[t] = {}
                           /\ r.assigned # None => r.assigned \in voices'[t]
  BY <1>7
<1>16. /\ made' \in 0..MaxThreads /\ made <= made' /\ t <= made' /\ now' = now
       /\ voices' \in [Threads -> SUBSET Staff] /\ handed' \subseteq Threads
       /\ \A i \in Threads : i # t => /\ heard'[i] = heard[i]
                                      /\ voices'[i] = voices[i]
                                      /\ i \in handed' <=> i \in handed
  <2>1. now' = now /\ made' = made /\ handed' = handed
    OBVIOUS
  <2>2. \A i \in Threads : i # t => heard'[i] = heard[i] /\ voices'[i] = voices[i]
    BY <1>13
  <2>3. made \in 0..MaxThreads /\ handed \subseteq Threads
    BY DEF Inv, TypeOK
  <2>4. QED
    BY <1>1, <2>1, <2>2, <2>3
<1>17. Writes(t, r)
  BY <1>8, <1>13, <1>14, <1>15, <1>16 DEF Writes
<1>18. QED
  BY <1>12, <1>17, RowWritten

\* What call c, in its transaction, knows.
LEMMA Committing ==
    ASSUME Inv, NEW c \in Calls, call[c].pc \in {"send", "reply"}, CanCommit(c)
    PROVE  /\ call[c].thread \in Threads /\ call[c].opened \in Time
           /\ Exists(call[c].thread) /\ threads[call[c].thread] \in Row
           /\ now <= call[c].opened + TxTimeout /\ call[c].opened <= now
           /\ call[c].opened + TxTimeout + TTL < MaxTime
           /\ call[c].thread <= made
           /\ Underway(call[c]) /\ Reader(call[c])
<1>1. call[c] \in CallType /\ Underway(call[c]) /\ Reader(call[c])
  BY DEF Inv, TypeOK, CallsSound
<1>2. call[c].thread \in Threads /\ call[c].opened \in Time
  BY <1>1, CallFields
<1>3. Exists(call[c].thread) /\ now <= call[c].opened + TxTimeout
  BY DEF CanCommit
<1>4. threads[call[c].thread] \in Row
  BY <1>2, <1>3, RowsAre DEF Inv
<1>5. QED
  BY <1>1, <1>2, <1>3, <1>4 DEF Underway

LEMMA VisitorMessageStep ==
    ASSUME Inv, NEW c \in Calls, sendVisitorMessage(c)
    PROVE  Inv'
<1>1. call[c].pc = "send" /\ CanCommit(c)
  BY DEF sendVisitorMessage
<1>2. PICK t \in Threads : t = call[c].thread
  BY <1>1, Committing
<1>3. PICK s \in Time : s = call[c].opened
  BY <1>1, Committing
<1>4. PICK q \in Row : q = threads[t]
  BY <1>1, <1>2, Committing
<1>5. PICK slides \in BOOLEAN : slides <=> call[c].user = None
  OBVIOUS
<1>6. PICK e \in s..now : threads' = [threads EXCEPT ![t].last = s,
                               ![t].expires = IF call[c].user = None THEN e + TTL ELSE @]
  BY <1>2, <1>3 DEF sendVisitorMessage
<1>7. threads' = [threads EXCEPT ![t] = Said(q, s, e, slides)]
  BY <1>4, <1>5, <1>6 DEF Said
<1>8. /\ Exists(t) /\ now <= s + TxTimeout /\ s + TxTimeout + TTL < MaxTime
      /\ s <= now /\ t <= made
      /\ ~slides => threads[t].user # None
  BY <1>1, <1>2, <1>3, <1>5, Committing DEF Underway
<1>9. /\ Heard(t, s) /\ Step(c, NoCall) /\ UNCHANGED <<now, made, voices, handed>>
  BY <1>2, <1>3 DEF sendVisitorMessage
<1>10. voices' \in [Threads -> SUBSET Staff]
  BY <1>9 DEF Inv, TypeOK
<1>11. t \notin handed => /\ q.assigned = None => voices'[t] = {}
                          /\ q.assigned # None => q.assigned \in voices'[t]
  BY <1>4, <1>8, <1>9 DEF Inv, ClaimedByVoice
<1>12. QED
  BY <1>4, <1>7, <1>8, <1>9, <1>10, <1>11, MessageWritten

\* The row of a reply, before it is said: claimed and opened if need be.
Claimed(row, x) ==
    [row EXCEPT !.assigned = IF x.claims THEN x.staff ELSE @,
                !.status = IF x.opens THEN "ASSIGNED" ELSE @]

LEMMA StaffMessageStep ==
    ASSUME Inv, NEW c \in Calls, sendStaffMessage(c)
    PROVE  Inv'
<1>1. call[c].pc = "reply" /\ CanCommit(c)
  BY DEF sendStaffMessage
<1>2. PICK t \in Threads : t = call[c].thread
  BY <1>1, Committing
<1>3. PICK s \in Time : s = call[c].opened
  BY <1>1, Committing
<1>4. PICK x \in CallType : x = call[c]
  BY DEF Inv, TypeOK
<1>5. /\ x.staff \in Staff /\ x.claims \in BOOLEAN /\ x.slides \in BOOLEAN
      /\ x.opens \in BOOLEAN /\ x.pc = "reply"
  BY <1>1, <1>4, CallFields
<1>6. threads[t] \in Row /\ Exists(t)
  BY <1>1, <1>2, Committing
<1>7. Claimed(threads[t], x) \in Row
  BY <1>5, <1>6 DEF Claimed, Row
<1>8. PICK q \in Row : q = Claimed(threads[t], x)
  BY <1>7
<1>9. /\ q.user = threads[t].user /\ q.key = threads[t].key
      /\ q.expires = threads[t].expires
      /\ q.assigned = (IF x.claims THEN x.staff ELSE threads[t].assigned)
  BY <1>6, <1>8 DEF Claimed, Row
<1>10. PICK e \in s..now : threads' = [threads EXCEPT
                 ![t].last = s,
                 ![t].assigned = IF x.claims THEN x.staff ELSE @,
                 ![t].status = IF x.opens THEN "ASSIGNED" ELSE @,
                 ![t].expires = IF x.slides THEN e + TTL ELSE @]
  BY <1>2, <1>3, <1>4 DEF sendStaffMessage
<1>11. threads' = [threads EXCEPT ![t] = Said(q, s, e, x.slides)]
  <2> DEFINE w == [threads[t] EXCEPT
                     !.last = s,
                     !.assigned = IF x.claims THEN x.staff ELSE @,
                     !.status = IF x.opens THEN "ASSIGNED" ELSE @,
                     !.expires = IF x.slides THEN e + TTL ELSE @]
  <2>1. threads' = [threads EXCEPT ![t] = w]
    BY <1>10 DEF Inv, TypeOK
  <2>2. w = Said(q, s, e, x.slides)
    BY <1>6, <1>8 DEF Said, Claimed, Row
  <2>3. QED
    BY <2>1, <2>2
<1>12. /\ now <= s + TxTimeout /\ s + TxTimeout + TTL < MaxTime
       /\ s <= now /\ t <= made /\ Underway(x) /\ Reader(x)
  BY <1>1, <1>2, <1>3, <1>4, Committing
<1>13. ~x.slides => threads[t].user # None
  BY <1>2, <1>4, <1>5, <1>6, <1>12 DEF Underway
<1>14. /\ Heard(t, s) /\ Step(c, NoCall) /\ UNCHANGED <<now, made, handed>>
       /\ voices' = [voices EXCEPT ![t] = IF t \in handed THEN {} ELSE @ \union {x.staff}]
  BY <1>2, <1>3, <1>4 DEF sendStaffMessage
<1>15. /\ voices' \in [Threads -> SUBSET Staff]
       /\ \A i \in Threads : i # t => voices'[i] = voices[i]
       /\ t \notin handed => voices'[t] = voices[t] \union {x.staff}
  BY <1>5, <1>14 DEF Inv, TypeOK
<1>16. voices[t] \subseteq voices'[t] \/ t \in handed
  BY <1>15
<1>17. t \notin handed => /\ q.assigned = None => voices'[t] = {}
                          /\ q.assigned # None => q.assigned \in voices'[t]
  <2>1. CASE x.claims
    BY <1>5, <1>9, <1>15, <2>1, BoundsAreNumbers
  <2>2. CASE ~x.claims
    <3>1. t \notin handed => x.staff \in voices[t]
      BY <1>2, <1>4, <1>5, <1>6, <1>12, <2>2 DEF Reader
    <3>2. t \notin handed => /\ threads[t].assigned # None
                             /\ threads[t].assigned \in voices[t]
      BY <1>6, <3>1 DEF Inv, ClaimedByVoice
    <3>3. QED
      BY <1>9, <1>15, <2>2, <3>2
  <2>3. QED
    BY <1>5, <2>1, <2>2
<1>18. QED
  BY <1>5, <1>6, <1>9, <1>11, <1>12, <1>13, <1>14, <1>15, <1>16, <1>17, MessageWritten

----------------------------------------------------------------------------
(* Assignment, erasure and time. *)

LEMMA AssignStep ==
    ASSUME Inv, NEW t \in Threads, NEW p \in Staff \union {None}, assign(t, p)
    PROVE  Inv'
<1> DEFINE q == [threads[t] EXCEPT !.assigned = p,
                                   !.status = IF p = None THEN "OPEN" ELSE "ASSIGNED"]
<1>1. Exists(t) /\ threads[t] \in Row
  BY RowsAre DEF assign, Inv
<1>2. q \in Row
  BY <1>1 DEF Row
<1>3. PICK r \in Row : r = q
  BY <1>2
<1>4. /\ r.user = threads[t].user /\ r.key = threads[t].key
      /\ r.expires = threads[t].expires
  BY <1>1, <1>3 DEF Row
<1>5. /\ threads' = [threads EXCEPT ![t] = r]
      /\ handed' = handed \union {t} /\ voices' = [voices EXCEPT ![t] = {}]
      /\ UNCHANGED <<now, made, heard, call>>
  BY <1>3 DEF assign
<1>6. threads'[t] = r /\ \A i \in Threads : i # t => threads'[i] = threads[i]
  BY <1>5 DEF Inv, TypeOK
<1>7. made \in Nat /\ t <= made /\ now \in Nat
  <2>1. threads[t] # NoRow
    BY <1>1 DEF Exists
  <2>2. QED
    BY <2>1, BoundsAreNumbers DEF Inv, TypeOK, Time, Numbered, Threads
<1>8. /\ voices' \in [Threads -> SUBSET Staff]
      /\ \A i \in Threads : i # t => voices'[i] = voices[i]
  BY <1>5 DEF Inv, TypeOK
<1>9. Aged
  BY <1>1, <1>4, <1>5, <1>6, <1>7, <1>8 DEF Aged, Exists
<1>10. CallsSound' /\ call' \in [Calls -> CallType]
  <2>1. ASSUME NEW d \in Calls PROVE (Underway(call[d]) /\ Reader(call[d]))'
    <3>1. PICK y \in CallType : y = call[d]
      BY DEF Inv, TypeOK
    <3>2. Underway(y) /\ Reader(y)
      BY <3>1 DEF Inv, CallsSound
    <3>3. Underway(y)' /\ Reader(y)'
      BY <1>9, <3>2, CallAged
    <3>4. QED
      BY <1>5, <3>1, <3>3 DEF Underway, Reader
  <2>2. QED
    BY <1>5, <2>1 DEF CallsSound, Inv, TypeOK
<1>11. /\ r.key = None \/ r.user = None
       /\ r.user = None => /\ r.expires # None
                           /\ r.expires \in (heard'[t] + TTL - TxTimeout)
                                             ..(heard'[t] + TTL + TxTimeout)
  BY <1>1, <1>4, <1>5 DEF Inv, KeyOrAccount, GuestsExpire
<1>12. /\ made' \in 0..MaxThreads /\ made <= made' /\ t <= made' /\ now' = now
       /\ heard' \in [Threads -> Time] /\ handed' \subseteq Threads
       /\ t \in handed'
       /\ \A i \in Threads : i # t => /\ heard'[i] = heard[i]
                                      /\ voices'[i] = voices[i]
                                      /\ i \in handed' <=> i \in handed
  BY <1>5, <1>7, <1>8 DEF Inv, TypeOK
<1>13. heard'[t] <= now
  BY <1>5 DEF Inv, HeardByNow
<1>14. Writes(t, r)
  BY <1>5, <1>8, <1>11, <1>12, <1>13 DEF Writes
<1>15. QED
  BY <1>10, <1>14, RowWritten

\* A step that leaves the calls alone leaves them sound.
LEMMA CallsAged ==
    ASSUME Inv, Aged, call' = call
    PROVE  CallsSound' /\ call' \in [Calls -> CallType]
<1>1. ASSUME NEW d \in Calls PROVE (Underway(call[d]) /\ Reader(call[d]))'
  <2>1. PICK y \in CallType : y = call[d]
    BY DEF Inv, TypeOK
  <2>2. Underway(y) /\ Reader(y)
    BY <2>1 DEF Inv, CallsSound
  <2>3. Underway(y)' /\ Reader(y)'
    BY <2>2, CallAged
  <2>4. QED
    BY <2>1, <2>3 DEF Underway, Reader
<1>2. QED
  BY <1>1 DEF CallsSound, Inv, TypeOK

LEMMA EraseStep ==
    ASSUME Inv, NEW ts \in SUBSET Threads, Erase(ts)
    PROVE  Inv'
<1>1. /\ \A t \in ts : threads'[t] = NoRow /\ heard'[t] = 0 /\ voices'[t] = {}
      /\ \A t \in Threads \ ts :
            /\ threads'[t] = threads[t] /\ heard'[t] = heard[t]
            /\ voices'[t] = voices[t]
            /\ t \in handed' <=> t \in handed
      /\ UNCHANGED <<now, made, call>>
  BY DEF Erase
<1>2. now \in Nat /\ made \in Nat /\ 0 \in Time
  BY BoundsAreNumbers DEF Inv, TypeOK, Time
<1>3. TypeOK'
  <2>1. threads' \in [Threads -> Row \union {NoRow}]
    BY DEF Erase, Inv, TypeOK
  <2>2. heard' \in [Threads -> Time] /\ voices' \in [Threads -> SUBSET Staff]
    BY <1>2 DEF Erase, Inv, TypeOK
  <2>3. QED
    BY <1>1, <2>1, <2>2 DEF Erase, Inv, TypeOK
<1>4. \A t \in Threads : Exists(t)' => t \notin ts /\ Exists(t)
  BY <1>1 DEF Exists
<1>5. Aged
  BY <1>1, <1>2, <1>4 DEF Aged
<1>6. CallsSound'
  BY <1>1, <1>5, CallsAged
<1>7. Numbered'
  BY <1>1 DEF Inv, Numbered
<1>8. HeardByNow'
  BY <1>1, <1>2 DEF Inv, HeardByNow
<1>9. KeyOrAccount'
  BY <1>1, <1>4 DEF Inv, KeyOrAccount
<1>10. GuestsExpire'
  BY <1>1, <1>4 DEF Inv, GuestsExpire
<1>11. NoVoices'
  BY <1>1 DEF Inv, NoVoices, Exists
<1>12. ClaimedByVoice'
  BY <1>1, <1>4 DEF Inv, ClaimedByVoice
<1>13. QED
  BY <1>3, <1>6, <1>7, <1>8, <1>9, <1>10, <1>11, <1>12 DEF Inv

LEMMA TickStep ==
    ASSUME Inv, Tick
    PROVE  Inv'
<1>1. now \in Nat /\ now' = now + 1 /\ now' \in Time /\ made \in Nat
  BY BoundsAreNumbers DEF Tick, Inv, TypeOK, Time
<1>2. UNCHANGED <<threads, made, heard, voices, handed, call>>
  BY DEF Tick
<1>3. Aged
  BY <1>1, <1>2 DEF Aged, Exists
<1>4. CallsSound'
  BY <1>2, <1>3, CallsAged
<1>5. TypeOK'
  BY <1>1, <1>2 DEF Inv, TypeOK
<1>6. HeardByNow'
  BY <1>1, <1>2 DEF Inv, HeardByNow, TypeOK, Time
<1>7. Numbered' /\ KeyOrAccount' /\ GuestsExpire' /\ NoVoices' /\ ClaimedByVoice'
  BY <1>2 DEF Inv, Numbered, KeyOrAccount, GuestsExpire, NoVoices, ClaimedByVoice,
              Exists
<1>8. QED
  BY <1>4, <1>5, <1>6, <1>7 DEF Inv

----------------------------------------------------------------------------
(* The invariant. *)

LEMMA InitInv == Init => Inv
<1> SUFFICES ASSUME Init PROVE Inv
  OBVIOUS
<1>1. TypeOK
  BY NoCallType, BoundsAreNumbers DEF Init, TypeOK, Time
<1>2. \A t \in Threads : ~Exists(t)
  BY DEF Init, Exists
<1>3. CallsSound
  BY DEF Init, CallsSound, Underway, Reader, NoCall
<1>4. Numbered /\ HeardByNow /\ NoVoices
  BY DEF Init, Numbered, HeardByNow, NoVoices
<1>5. QED
  BY <1>1, <1>2, <1>3, <1>4 DEF Inv, KeyOrAccount, GuestsExpire, ClaimedByVoice

LEMMA NextInv == Inv /\ [Next]_vars => Inv'
<1> SUFFICES ASSUME Inv, [Next]_vars PROVE Inv'
  OBVIOUS
<1>1. CASE Tick
  BY <1>1, TickStep
<1>2. CASE Sweep
  <2>1. Swept \in SUBSET Threads /\ Erase(Swept)
    BY <1>2 DEF Sweep, Swept
  <2>2. PICK ts \in SUBSET Threads : ts = Swept
    BY <2>1
  <2>3. QED
    BY <2>1, <2>2, EraseStep
<1>3. ASSUME NEW c \in Calls, VisitorStep(c) PROVE Inv'
  BY <1>3, LookUpGuestStep, LookUpAccountStep, AdoptStep, FindOfAccountStep,
     CreateStep, VisitorMessageStep
  DEF VisitorStep
<1>4. ASSUME NEW c \in Calls, StaffStep(c) PROVE Inv'
  BY <1>4, OpenReplyStep, StaffMessageStep DEF StaffStep
<1>5. ASSUME NEW c \in Calls, Refuse(c) PROVE Inv'
  BY <1>5, RefuseStep
<1>6. ASSUME NEW t \in Threads, close(t) PROVE Inv'
  BY <1>6, EraseStep DEF close
<1>7. ASSUME NEW t \in Threads, NEW p \in Assignees, assign(t, p) PROVE Inv'
  <2>1. p \in Staff \union {None}
    BY SupportAssumption
  <2>2. QED
    BY <1>7, <2>1, AssignStep
<1>8. CASE UNCHANGED vars
  <2>1. UNCHANGED <<now, threads, made, heard, voices, handed, call>>
    BY <1>8 DEF vars
  <2>2. Aged
    BY <2>1, BoundsAreNumbers DEF Aged, Inv, TypeOK, Time, Exists
  <2>3. CallsSound'
    BY <2>1, <2>2, CallsAged
  <2>4. QED
    BY <2>1, <2>3 DEF Inv, TypeOK, Numbered, HeardByNow, KeyOrAccount, GuestsExpire,
                      NoVoices, ClaimedByVoice, Exists
<1>9. QED
  BY <1>1, <1>2, <1>3, <1>4, <1>5, <1>6, <1>7, <1>8 DEF Next

LEMMA Invariance == Spec => []Inv
  BY InitInv, NextInv, PTL DEF Spec

\* The rows, the history and the calls have their types.
THEOREM TypeCorrect == Spec => []TypeOK
<1>1. Inv => TypeOK
  BY DEF Inv
<1>2. QED
  BY <1>1, Invariance, PTL

\* The cookie leads to no account's thread, however many visitors sign in,
\* write and sign out at once.
THEOREM KeyCorrect == Spec => []KeyOrAccount
<1>1. Inv => KeyOrAccount
  BY DEF Inv
<1>2. QED
  BY <1>1, Invariance, PTL

\* A guest's thread expires the TTL after its latest message, give or take the
\* time of one transaction.
THEOREM ExpiryCorrect == Spec => []GuestsExpire
<1>1. Inv => GuestsExpire
  BY DEF Inv
<1>2. QED
  BY <1>1, Invariance, PTL

\* Two members of staff answer one visitor, with no assignment by hand, only if
\* the second read the thread before the first had answered.
THEOREM VoicesCorrect == Spec => []NewVoiceOverlapped
<1>1. Inv => NewVoiceOverlapped
  <2> SUFFICES ASSUME Inv, NEW c \in Calls, call[c].pc = "reply",
                      Exists(call[c].thread), call[c].thread \notin handed,
                      call[c].staff \notin voices[call[c].thread]
               PROVE  call[c].saw = {}
    BY DEF NewVoiceOverlapped
  <2>1. Reader(call[c])
    BY DEF Inv, CallsSound
  <2>2. QED
    BY <2>1 DEF Reader
<1>2. QED
  BY <1>1, Invariance, PTL

\* The sweep spares whatever is an account's, and every conversation in which
\* something was said within the TTL, less the time of one transaction.
THEOREM SweepCorrect == Spec => SilentBeforeSwept
<1> DEFINE Spared == \A t \in Threads : Sweep /\ Exists(t) /\ ~Exists(t)' =>
                        threads[t].user = None /\ heard[t] + TTL - TxTimeout < now
<1>1. Inv /\ [Next]_vars => [Spared]_vars
  <2> SUFFICES ASSUME Inv, NEW t \in Threads, Sweep, Exists(t), ~Exists(t)'
               PROVE  threads[t].user = None /\ heard[t] + TTL - TxTimeout < now
    OBVIOUS
  <2>1. t \in Swept
    BY DEF Sweep, Erase, Exists
  <2>2. /\ threads[t].user = None /\ threads[t].expires # None
        /\ threads[t].expires < now
    BY <2>1 DEF Swept, Expired
  <2>3. threads[t].expires \in (heard[t] + TTL - TxTimeout)
                               ..(heard[t] + TTL + TxTimeout)
    BY <2>2 DEF Inv, GuestsExpire
  <2>4. heard[t] \in Nat /\ now \in Nat
    BY BoundsAreNumbers DEF Inv, TypeOK, Time
  <2>5. QED
    BY <2>2, <2>3, <2>4, BoundsAreNumbers
<1>2. QED
  BY <1>1, Invariance, PTL DEF Spec, SilentBeforeSwept

=============================================================================
