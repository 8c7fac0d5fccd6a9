--------------------------- MODULE AccountsProofs ---------------------------
(***************************************************************************)
(* Theorems about the life of accounts, for every number of accounts,      *)
(* calls and reconcilers and every length of suspensions and of the grace  *)
(* period.  A ruling of staff holds because the row of a barred account    *)
(* says banned until at least the end of the bar: the calls of its holder  *)
(* touch neither field, and the reconciler lifts only what has run out.    *)
(***************************************************************************)
EXTENDS Accounts, FiniteSetTheorems, SequenceTheorems, TLAPS

BarredRows ==
    \A u \in Users :
        barred[u] > now => row[u].banned /\ row[u].until >= barred[u] /\ u \notin signed

PassesBusy == \A w \in Workers : pass[w].step = "erase" => pass[w].due # << >>

Inv == TypeOK /\ BarredRows /\ PassesBusy

LEMMA Blanks == NoCall \in Call /\ NoPass \in Pass /\ Never \in Times /\ 0 \in Times
BY AccountsAssumption DEF NoCall, Call, NoPass, Pass, Never, Times

LEMMA InitInv == Init => Inv
<1> SUFFICES ASSUME Init PROVE Inv
  OBVIOUS
<1>1. row \in [Users -> User]
  <2>1. \A u \in Users : FirstRole(u) \in {"OWNER", "STAFF", "AGENT", "USER"}
    BY DEF FirstRole
  <2> QED
    BY <2>1, Blanks DEF Init, User, Statuses
<1>2. TypeOK
  BY <1>1, Blanks, AccountsAssumption DEF Init, TypeOK
<1>3. BarredRows
  BY DEF Init, BarredRows
<1>4. PassesBusy
  BY DEF Init, PassesBusy, NoPass
<1> QED
  BY <1>2, <1>3, <1>4 DEF Inv

\* What the calls and passes do to a row leaves a row.
LEMMA RowType ==
    ASSUME TypeOK, NEW u \in Users
    PROVE  /\ [row EXCEPT ![u].status = "PENDING_DELETION", ![u].requested = now]
                 \in [Users -> User]
           /\ [row EXCEPT ![u].status = "ACTIVE", ![u].requested = Never] \in [Users -> User]
           /\ Restored(u) \in [Users -> User]
           /\ [row EXCEPT ![u].role = "USER", ![u].banned = TRUE, ![u].until = Never,
                          ![u].status = "DELETED"] \in [Users -> User]
<1>1. row[u] \in User /\ row \in [Users -> User] /\ now \in Times /\ Never \in Times
  BY AccountsAssumption DEF TypeOK, Times, Never
<1>2. /\ [row[u] EXCEPT !.status = "PENDING_DELETION", !.requested = now] \in User
      /\ [row[u] EXCEPT !.status = "ACTIVE", !.requested = Never] \in User
      /\ [row[u] EXCEPT !.banned = FALSE, !.until = Never, !.status = "ACTIVE"] \in User
      /\ [row[u] EXCEPT !.role = "USER", !.banned = TRUE, !.until = Never,
                        !.status = "DELETED"] \in User
  BY <1>1 DEF User, Statuses
<1> QED
  BY <1>1, <1>2 DEF Restored

LEMMA RoleType ==
    ASSUME TypeOK, NEW u \in Users, NEW type \in {"OWNER", "STAFF", "AGENT", "USER"}
    PROVE  [row EXCEPT ![u].role = type] \in [Users -> User]
<1>1. row[u] \in User /\ row \in [Users -> User]
  BY DEF TypeOK
<1>2. [row[u] EXCEPT !.role = type] \in User
  BY <1>1 DEF User
<1> QED
  BY <1>1, <1>2

LEMMA BanType ==
    ASSUME TypeOK, NEW u \in Users, NEW until \in Times
    PROVE  [row EXCEPT ![u].banned = TRUE, ![u].until = until, ![u].status = "SUSPENDED"]
               \in [Users -> User]
<1>1. row[u] \in User /\ row \in [Users -> User]
  BY DEF TypeOK
<1>2. [row[u] EXCEPT !.banned = TRUE, !.until = until, !.status = "SUSPENDED"] \in User
  BY <1>1 DEF User, Statuses
<1> QED
  BY <1>1, <1>2

----------------------------------------------------------------------------
(* The account holder, staff and the clock *)

LEMMA TickInv == ASSUME Inv, Tick PROVE Inv'
<1>1. now' \in 0..MaxTime
  BY AccountsAssumption DEF Inv, TypeOK, Tick
<1>2. TypeOK'
  BY <1>1 DEF Inv, TypeOK, Tick
<1>3. BarredRows'
  BY AccountsAssumption DEF Inv, TypeOK, BarredRows, Tick, Times, Never
<1> QED
  BY <1>2, <1>3 DEF Inv, PassesBusy, Tick

LEMMA HolderInv == ASSUME Inv, HolderStep PROVE Inv'
<1> USE DEF Inv
<1>1. ASSUME NEW u \in Users, SignIn(u) \/ Settle(u) PROVE Inv'
  <2>1. TypeOK'
    BY <1>1 DEF SignIn, Settle, TypeOK
  <2>2. BarredRows' /\ PassesBusy'
    BY <1>1 DEF SignIn, Settle, BarredRows, PassesBusy
  <2> QED
    BY <2>1, <2>2
<1>2. ASSUME NEW u \in Holders, RevokeSession(u) PROVE Inv'
  BY <1>2 DEF RevokeSession, TypeOK, BarredRows, PassesBusy
<1>3. ASSUME NEW c \in Calls, NEW u \in Holders \union Debtors,
             BeginRequest(c, u) \/ BeginCancel(c, u) \/ BeginRegister(c, u)
      PROVE  Inv'
  <2>1. PICK op \in {"request", "cancel", "register"} :
          call' = [call EXCEPT ![c] = [op |-> op, user |-> u]]
    BY <1>3 DEF BeginRequest, BeginCancel, BeginRegister
  <2>2. [op |-> op, user |-> u] \in Call
    BY AccountsAssumption DEF Call
  <2>3. call' \in [Calls -> Call]
    BY <2>1, <2>2 DEF TypeOK
  <2>4. UNCHANGED <<now, row, signed, cookie, profile, assigned, owes, pass, barred, faults>>
    BY <1>3 DEF BeginRequest, BeginCancel, BeginRegister
  <2> QED
    BY <2>3, <2>4 DEF TypeOK, BarredRows, PassesBusy
<1>4. ASSUME NEW c \in Calls, CommitRequest(c) \/ CommitCancel(c) PROVE Inv'
  <2>1. call[c].user \in Users /\ row \in [Users -> User]
    BY DEF TypeOK, Call
  <2>2. row' \in [Users -> User]
    <3>1. CASE CommitRequest(c)
      BY <2>1, <3>1, RowType DEF CommitRequest
    <3>2. CASE CommitCancel(c)
      BY <2>1, <3>2, RowType DEF CommitCancel
    <3> QED
      BY <1>4, <3>1, <3>2
  <2>3. call' \in [Calls -> Call]
    BY <1>4, Blanks DEF CommitRequest, CommitCancel, TypeOK
  <2>4. \A u \in Users : row'[u].banned = row[u].banned /\ row'[u].until = row[u].until
    <3>1. \A u \in Users :
            /\ [row[u] EXCEPT !.status = "PENDING_DELETION", !.requested = now].banned = row[u].banned
            /\ [row[u] EXCEPT !.status = "PENDING_DELETION", !.requested = now].until = row[u].until
            /\ [row[u] EXCEPT !.status = "ACTIVE", !.requested = Never].banned = row[u].banned
            /\ [row[u] EXCEPT !.status = "ACTIVE", !.requested = Never].until = row[u].until
      BY <2>1 DEF User
    <3> QED
      BY <1>4, <2>1, <3>1 DEF CommitRequest, CommitCancel
  <2>5. UNCHANGED <<now, signed, cookie, profile, assigned, owes, pass, barred, faults>>
    BY <1>4 DEF CommitRequest, CommitCancel
  <2> QED
    BY <2>2, <2>3, <2>4, <2>5 DEF TypeOK, BarredRows, PassesBusy
<1>5. ASSUME NEW c \in Calls, CommitRegister(c) PROVE Inv'
  <2>1. call[c].user \in Users
    BY DEF TypeOK, Call
  <2> QED
    BY <1>5, <2>1, Blanks DEF CommitRegister, TypeOK, BarredRows, PassesBusy
<1> QED
  BY <1>1, <1>2, <1>3, <1>4, <1>5 DEF HolderStep

\* Staff set roles and profiles, and may drop sessions.
LEMMA RoleChangeInv ==
    ASSUME Inv, NEW u \in Users, NEW type \in {"OWNER", "STAFF", "AGENT", "USER"},
           row' = [row EXCEPT ![u].role = type] \/ UNCHANGED row,
           profile' \in [Users -> {"none", "PENDING", "ACTIVE", "SUSPENDED", "RETIRED"}],
           signed' \subseteq signed,
           UNCHANGED <<now, cookie, assigned, owes, call, pass, barred, faults>>
    PROVE  Inv'
<1>1. row' \in [Users -> User] /\ row \in [Users -> User]
  <2>1. [row EXCEPT ![u].role = type] \in [Users -> User]
    BY RoleType DEF Inv
  <2> QED
    BY <2>1 DEF Inv, TypeOK
<1>2. \A v \in Users : row'[v].banned = row[v].banned /\ row'[v].until = row[v].until
  <2>1. /\ [row[u] EXCEPT !.role = type].banned = row[u].banned
        /\ [row[u] EXCEPT !.role = type].until = row[u].until
    BY <1>1 DEF User
  <2> QED
    BY <1>1, <2>1
<1> QED
  BY <1>1, <1>2 DEF Inv, TypeOK, BarredRows, PassesBusy

LEMMA StaffInv == ASSUME Inv, StaffStep PROVE Inv'
<1> USE DEF Inv
<1>1. ASSUME NEW s \in Users, NEW u \in Users, NEW type \in {"USER", "AGENT"},
             SetAccountType(s, u, type)
      PROVE  Inv'
  <2>1. profile' \in [Users -> {"none", "PENDING", "ACTIVE", "SUSPENDED", "RETIRED"}]
    BY <1>1 DEF SetAccountType, TypeOK
  <2>2. /\ row' = [row EXCEPT ![u].role = type] /\ signed' \subseteq signed
        /\ UNCHANGED <<now, cookie, assigned, owes, call, pass, barred, faults>>
    BY <1>1 DEF SetAccountType
  <2> HIDE DEF Inv
  <2> QED
    BY <2>1, <2>2, RoleChangeInv
<1>2. ASSUME NEW s \in Users, NEW u \in Users, NEW until \in BanEnds, Ban(s, u, until)
      PROVE  Inv'
  <2>1. until \in Times
    BY AccountsAssumption DEF BanEnds, Times, Never, TypeOK
  <2>2. /\ row' = [row EXCEPT ![u].banned = TRUE, ![u].until = until, ![u].status = "SUSPENDED"]
        /\ signed' = signed \ {u} /\ barred' = [barred EXCEPT ![u] = until]
        /\ UNCHANGED <<now, cookie, profile, assigned, owes, call, pass, faults>>
    BY <1>2 DEF Ban
  <2>3. row' \in [Users -> User] /\ row \in [Users -> User]
    BY <2>1, <2>2, BanType DEF TypeOK
  <2>4. row'[u].banned /\ row'[u].until = until /\ \A v \in Users \ {u} : row'[v] = row[v]
    BY <2>2, <2>3 DEF User
  <2>5. TypeOK'
    BY <2>1, <2>2, <2>3 DEF TypeOK
  <2>6. BarredRows'
    BY <2>1, <2>2, <2>4, AccountsAssumption DEF TypeOK, BarredRows, Times, Never
  <2> QED
    BY <2>2, <2>5, <2>6 DEF PassesBusy
<1>3. ASSUME NEW s \in Users, NEW u \in Users, Unban(s, u) PROVE Inv'
  <2>1. /\ row' = Restored(u) /\ barred' = [barred EXCEPT ![u] = 0]
        /\ UNCHANGED <<now, signed, cookie, profile, assigned, owes, call, pass, faults>>
    BY <1>3 DEF Unban
  <2>2. row' \in [Users -> User] /\ row \in [Users -> User]
    BY <2>1, RowType DEF TypeOK
  <2>3. TypeOK'
    BY <2>1, <2>2, Blanks DEF TypeOK
  <2>4. BarredRows'
    BY <2>1, <2>2 DEF Restored, TypeOK, BarredRows
  <2> QED
    BY <2>1, <2>3, <2>4 DEF PassesBusy
<1>4. ASSUME NEW s \in Users, NEW u \in Users, CreateAgent(s, u) PROVE Inv'
  <2>1. profile' \in [Users -> {"none", "PENDING", "ACTIVE", "SUSPENDED", "RETIRED"}]
    BY <1>4 DEF CreateAgent, TypeOK
  <2>2. /\ row' = [row EXCEPT ![u].role = "AGENT"] /\ signed' \subseteq signed
        /\ UNCHANGED <<now, cookie, assigned, owes, call, pass, barred, faults>>
    BY <1>4 DEF CreateAgent
  <2> HIDE DEF Inv
  <2> QED
    BY <2>1, <2>2, RoleChangeInv
<1>5. ASSUME NEW s \in Users, NEW u \in Users,
             NEW status \in {"PENDING", "ACTIVE", "SUSPENDED", "RETIRED"},
             SetAgentStatus(s, u, status)
      PROVE  Inv'
  <2>1. profile' \in [Users -> {"none", "PENDING", "ACTIVE", "SUSPENDED", "RETIRED"}]
    BY <1>5 DEF SetAgentStatus, TypeOK
  <2>2. /\ row' = [row EXCEPT ![u].role = "USER"] \/ UNCHANGED row
        /\ signed' \subseteq signed
        /\ UNCHANGED <<now, cookie, assigned, owes, call, pass, barred, faults>>
    BY <1>5 DEF SetAgentStatus
  <2> HIDE DEF Inv
  <2> QED
    BY <2>1, <2>2, RoleChangeInv
<1>6. ASSUME NEW u \in Users, Assign(u) PROVE Inv'
  BY <1>6 DEF Assign, TypeOK, BarredRows, PassesBusy
<1>7. Recruits \subseteq Users
  BY AccountsAssumption
<1> HIDE DEF Inv
<1> QED
  BY <1>1, <1>2, <1>3, <1>4, <1>5, <1>6, <1>7 DEF StaffStep

----------------------------------------------------------------------------
(* The reconciler *)

\* The accounts that a pass finds due, in order, are a sequence of accounts.
LEMMA QueueType == ASSUME TypeOK, NEW q \in Queues PROVE q \in Seq(Users)
<1> DEFINE due == {u \in Users : Due(u)}
<1>1. Cardinality(due) \in Nat
  <2>1. IsFiniteSet(due)
    BY FS_Subset, AccountsAssumption
  <2> QED
    BY <2>1, FS_CardinalityType
<1>2. q \in [1..Cardinality(due) -> due]
  BY DEF Queues
<1> HIDE DEF due
<1>3. due \subseteq Users
  BY DEF due
<1> QED
  BY <1>1, <1>2, <1>3

\* A pass that moves leaves what it has not written.
LEMMA PassMoves ==
    ASSUME Inv, NEW w \in Workers, NEW to \in Pass, pass' = [pass EXCEPT ![w] = to],
           to.step = "erase" => to.due # << >>
    PROVE  pass' \in [Workers -> Pass] /\ PassesBusy'
BY DEF Inv, TypeOK, PassesBusy

LEMMA RestType ==
    ASSUME Inv, NEW w \in Workers, pass[w].step = "erase"
    PROVE  /\ Rest(w) \in Pass /\ (Rest(w).step = "erase" => Rest(w).due # << >>)
           /\ Head(pass[w].due) \in Users
<1>1. pass[w] \in Pass /\ pass[w].due \in Seq(Users) /\ pass[w].due # << >>
  BY DEF Inv, TypeOK, PassesBusy, Pass
<1>2. CASE Len(pass[w].due) = 1
  <2>1. Rest(w) = NoPass
    BY <1>2 DEF Rest
  <2> QED
    BY <1>1, <2>1, Blanks DEF NoPass
<1>3. CASE Len(pass[w].due) # 1
  <2>1. Tail(pass[w].due) \in Seq(Users) /\ Tail(pass[w].due) # << >>
    <3>1. Len(pass[w].due) \in Nat \ {0} /\ Len(Tail(pass[w].due)) = Len(pass[w].due) - 1
      BY <1>1, EmptySeq, HeadTailProperties
    <3>2. Len(Tail(pass[w].due)) # 0
      BY <1>3, <3>1
    <3> QED
      BY <1>1, <3>2, EmptySeq, HeadTailProperties
  <2>2. Rest(w) = [pass[w] EXCEPT !.due = Tail(pass[w].due)]
    BY <1>3 DEF Rest
  <2>3. Rest(w) \in Pass /\ Rest(w).due = Tail(pass[w].due)
    BY <1>1, <2>1, <2>2 DEF Pass
  <2> QED
    BY <1>1, <2>1, <2>3
<1> QED
  BY <1>2, <1>3

\* A pass lifts a ban only when it finds it expired again.
LEMMA RestoreInv == ASSUME Inv, NEW w \in Workers, NEW u \in Users, Restore(w, u) PROVE Inv'
<1> DEFINE to == [pass[w] EXCEPT !.expired = @ \ {u}]
<1>1. to \in Pass /\ to.step = pass[w].step /\ to.due = pass[w].due
  BY DEF Inv, TypeOK, Pass
<1>2. /\ pass' = [pass EXCEPT ![w] = to]
      /\ row' = IF Expired(u) THEN Restored(u) ELSE row
      /\ UNCHANGED <<now, signed, cookie, profile, assigned, owes, call, barred, faults>>
  BY DEF Restore
<1> HIDE DEF to
<1>3. pass[w].step = "erase" => pass[w].due # << >>
  BY DEF Inv, PassesBusy
<1>4. pass' \in [Workers -> Pass] /\ PassesBusy'
  BY <1>1, <1>2, <1>3, PassMoves
<1>5. row' \in [Users -> User] /\ row \in [Users -> User]
  BY <1>2, RowType DEF Inv, TypeOK
<1>6. TypeOK'
  BY <1>2, <1>4, <1>5 DEF Inv, TypeOK
<1>7. BarredRows'
  <2>1. CASE ~Expired(u)
    BY <1>2, <2>1 DEF Inv, BarredRows
  <2>2. CASE Expired(u)
    <3>1. ~(barred[u] > now)
      BY <2>2, <1>5, AccountsAssumption DEF Expired, Inv, TypeOK, BarredRows, User, Times, Never
    <3>2. \A v \in Users \ {u} : row'[v] = row[v]
      BY <1>2, <1>5, <2>2 DEF Restored
    <3> QED
      BY <1>2, <3>1, <3>2 DEF Inv, BarredRows
  <2> QED
    BY <2>1, <2>2
<1> QED
  BY <1>4, <1>6, <1>7 DEF Inv

LEMMA EraseInv == ASSUME Inv, NEW w \in Workers, Erase(w) PROVE Inv'
<1> DEFINE u == Head(pass[w].due)
<1>1. /\ row' = [row EXCEPT ![u].role = "USER", ![u].banned = TRUE, ![u].until = Never,
                            ![u].status = "DELETED"]
      /\ signed' = signed \ {u} /\ profile' = [profile EXCEPT ![u] = "none"]
      /\ pass' = [pass EXCEPT ![w] = Rest(w)] /\ pass[w].step = "erase"
      /\ UNCHANGED <<now, cookie, assigned, owes, call, barred, faults>>
  BY DEF Erase
<1>2. u \in Users
  BY <1>1, RestType
<1> HIDE DEF u
<1>3. pass' \in [Workers -> Pass] /\ PassesBusy'
  BY <1>1, RestType, PassMoves
<1>4. row' \in [Users -> User] /\ row \in [Users -> User]
  BY <1>1, <1>2, RowType DEF Inv, TypeOK
<1>5. TypeOK'
  BY <1>1, <1>3, <1>4 DEF Inv, TypeOK
<1>6. row'[u].banned /\ row'[u].until = Never /\ \A v \in Users \ {u} : row'[v] = row[v]
  BY <1>1, <1>2, <1>4 DEF User
<1>7. BarredRows'
  BY <1>1, <1>2, <1>6, AccountsAssumption DEF Inv, TypeOK, BarredRows, Times, Never
<1> QED
  BY <1>3, <1>5, <1>7 DEF Inv

LEMMA QuietPassInv ==
    ASSUME Inv, NEW w \in Workers,
           BeginPass(w) \/ ScanDue(w) \/ Skip(w) \/ EraseRefused(w) \/ PassFails(w)
    PROVE  Inv'
<1>1. PICK to \in Pass :
        pass' = [pass EXCEPT ![w] = to] /\ (to.step = "erase" => to.due # << >>)
  <2>1. CASE BeginPass(w)
    <3> DEFINE to == [step |-> "restore", expired |-> {u \in Users : Expired(u)}, due |-> << >>]
    <3>1. to \in Pass /\ to.step = "restore"
      BY DEF Pass
    <3>2. pass' = [pass EXCEPT ![w] = to]
      BY <2>1 DEF BeginPass
    <3> HIDE DEF to
    <3> QED
      BY <3>1, <3>2
  <2>2. CASE ScanDue(w)
    <3>1. PICK q \in Queues :
            pass' = [pass EXCEPT ![w] = IF q = << >> THEN NoPass
                                        ELSE [step |-> "erase", expired |-> {}, due |-> q]]
      BY <2>2 DEF ScanDue
    <3>2. CASE q = << >>
      BY <3>1, <3>2, Blanks DEF NoPass
    <3>3. CASE q # << >>
      <4>1. [step |-> "erase", expired |-> {}, due |-> q] \in Pass
        BY QueueType DEF Inv, Pass
      <4> QED
        BY <3>1, <3>3, <4>1
    <3> QED
      BY <3>2, <3>3
  <2>3. CASE Skip(w)
    BY <2>3, RestType DEF Skip
  <2>4. CASE EraseRefused(w) \/ PassFails(w)
    BY <2>4, Blanks DEF EraseRefused, PassFails, NoPass
  <2> QED
    BY <2>1, <2>2, <2>3, <2>4
<1>2. pass' \in [Workers -> Pass] /\ PassesBusy'
  BY <1>1, PassMoves
<1>3. UNCHANGED <<now, row, signed, cookie, profile, assigned, owes, call, barred>>
      /\ faults' \in 0..MaxFaults
  BY AccountsAssumption DEF BeginPass, ScanDue, Skip, EraseRefused, PassFails, Inv, TypeOK
<1> QED
  BY <1>2, <1>3 DEF Inv, TypeOK, BarredRows

LEMMA StepInv == Inv /\ [Next]_vars => Inv'
<1> SUFFICES ASSUME Inv, [Next]_vars PROVE Inv'
  OBVIOUS
<1>1. CASE UNCHANGED vars
  BY <1>1 DEF vars, Inv, TypeOK, BarredRows, PassesBusy
<1>2. ASSUME NEW w \in Workers, PassStep(w) \/ PassFails(w) PROVE Inv'
  BY <1>2, RestoreInv, EraseInv, QuietPassInv DEF PassStep
<1> QED
  BY <1>1, <1>2, TickInv, HolderInv, StaffInv DEF Next

LEMMA AlwaysInv == Spec => []Inv
BY InitInv, StepInv, PTL DEF Spec

(***************************************************************************)
(* Every variable keeps its type.                                          *)
(***************************************************************************)
THEOREM TypeCorrect == Spec => []TypeOK
<1>1. Inv => TypeOK
  BY DEF Inv
<1> QED
  BY <1>1, AlwaysInv, PTL

(***************************************************************************)
(* Until a suspension has run out or was lifted the account is banned and  *)
(* has no session, whatever its holder and the reconciler do               *)
(* (account-lifecycle.reconciler.ts:126).                                  *)
(***************************************************************************)
THEOREM RulingCorrect == Spec => []RulingHolds
<1>1. Inv => RulingHolds
  BY DEF Inv, BarredRows, RulingHolds
<1> QED
  BY <1>1, AlwaysInv, PTL

----------------------------------------------------------------------------
(* Erasure *)

\* Nothing but the pass erases.
LEMMA OnlyEraseErases ==
    ASSUME Inv, Next, NEW u \in Users, ~Gone(u), Gone(u)'
    PROVE  \E w \in Workers : Erase(w) /\ u = Head(pass[w].due)
<1> USE DEF Gone, Inv
<1>1. row \in [Users -> User]
  BY DEF TypeOK
<1>2. ~UNCHANGED row
  OBVIOUS
<1>3. ASSUME NEW c \in Calls, CommitRequest(c) \/ CommitCancel(c) PROVE FALSE
  BY <1>1, <1>3 DEF CommitRequest, CommitCancel, User
<1>4. ASSUME NEW v \in Users, NEW type, row' = [row EXCEPT ![v].role = type] PROVE FALSE
  BY <1>1, <1>4 DEF User
<1>5. ASSUME NEW v \in Users, row' = Restored(v) PROVE FALSE
  BY <1>1, <1>5 DEF Restored, User
<1>6. ASSUME NEW s \in Users, NEW v \in Users, NEW until, Ban(s, v, until) PROVE FALSE
  BY <1>1, <1>6 DEF Ban, User
<1>7. ~HolderStep
  BY <1>2, <1>3 DEF HolderStep, SignIn, Settle, RevokeSession, BeginRequest, BeginCancel,
                    BeginRegister, CommitRegister
<1>8. ~StaffStep
  BY <1>2, <1>4, <1>5, <1>6, AccountsAssumption
  DEF StaffStep, SetAccountType, Unban, CreateAgent, SetAgentStatus, Assign
<1>9. PICK w \in Workers : Erase(w)
  BY <1>2, <1>5, <1>7, <1>8 DEF Next, Tick, PassStep, BeginPass, Restore, ScanDue, Skip,
                                EraseRefused, PassFails
<1>10. u = Head(pass[w].due)
  BY <1>1, <1>9 DEF Erase
<1> QED
  BY <1>9, <1>10

(***************************************************************************)
(* An account is erased only while its holder wants it gone and it owes    *)
(* nothing, and no session of it is left, however old the scan of the pass *)
(* and whatever calls overlap (account-lifecycle.reconciler.ts:155-192).   *)
(***************************************************************************)
THEOREM ErasureCorrect == Spec => ErasedOnlyIfWanted
<1> DEFINE Wanted == \A u \in Users :
        ~Gone(u) /\ Gone(u)' => Leaving(u) /\ u \notin owes /\ u \notin signed'
<1>1. Inv /\ [Next]_vars => [Wanted]_vars
  <2> SUFFICES ASSUME Inv, Next PROVE Wanted
    OBVIOUS
  <2> QED
    BY OnlyEraseErases DEF Erase, Erasable
<1>2. Spec => [][Wanted]_vars
  <2> HIDE DEF Wanted
  <2> QED
    BY <1>1, AlwaysInv, PTL DEF Spec
<1> QED
  BY <1>2 DEF ErasedOnlyIfWanted

=============================================================================
