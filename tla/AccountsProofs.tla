--------------------------- MODULE AccountsProofs ---------------------------
(***************************************************************************)
(* What module Accounts keeps, for any number of accounts, sessions,       *)
(* channels and requests at once.                                          *)
(*                                                                         *)
(* Allowed: the role that a request works with is one that its session     *)
(* stood for since it came in, and the threshold that it was compared with *)
(* one that its channel had since then (Honest).  Revoked: a reset that    *)
(* was answered ended every session with an older password, a login in the *)
(* making is marked late, and the password of an account is never older    *)
(* than the one of its last reset (Renewed).                               *)
(***************************************************************************)
EXTENDS Accounts, TLAPS

AccountRow == [role : Role, password : Nat \ {0}]
ChannelRow == [post : Role, read : Role, made : {TRUE}]
SessionRow == [token : 1 .. tokens, user : User, password : Nat \ {0}, late : BOOLEAN]

\* The parts of TypeOK: the tables, the requests, and what is remembered of them.
Tables ==
  /\ account \in [User -> AccountRow \cup {NoAccount}]
  /\ channel \in [Channel -> ChannelRow \cup {Unmade, Deleted}]
  /\ tokens \in Nat
  /\ sessions \subseteq SessionRow
  /\ \A s \in sessions : s.password <= account[s.user].password
  /\ \A s, r \in sessions : s.token = r.token => s = r

CallType(t) ==
  \/ pc[t] = "idle" /\ call[t] = NoCall
  \/ /\ pc[t] = "verified" /\ call[t] \in LoginCall
     /\ 0 < call[t].password /\ call[t].password <= account[call[t].user].password
  \/ pc[t] \in {"received", "checked", "done"} /\ call[t] \in Request
  \/ pc[t] = "cleared" /\ call[t] \in Request /\ call[t].op \in {"post", "read"}
  \/ /\ pc[t] = "updated" /\ call[t] \in Request
     /\ call[t].op = "reset_password"
     /\ call[t].password <= account[call[t].user].password

History ==
  /\ up \in BOOLEAN
  /\ requests \in Nat /\ stops \in Nat
  /\ renewed \in [User -> Nat]
  /\ best \in [Task -> Role \cup {0}]
  /\ least \in [Task -> Role \cup {0, Nobody}]

LEMMA TypeParts == TypeOK <=> Tables /\ History /\ \A t \in Task : CallType(t)
BY DEF TypeOK, Tables, History, CallType, AccountRow, ChannelRow, SessionRow

\* pc and call are functions on the requests.
Functional == pc = [t \in Task |-> pc[t]] /\ call = [t \in Task |-> call[t]]

\* What is remembered of request t bounds its role and its threshold.
Honest(t) ==
  /\ pc[t] \in InFlight =>
       /\ Standing(call[t].token, sessions, account) <= best[t]
       /\ least[t] <= Threshold(call[t].channel, call[t].op, channel)
  /\ pc[t] \in {"checked", "cleared", "updated"} => call[t].role \in Role /\ call[t].role <= best[t]
  /\ pc[t] \in {"cleared", "updated", "done"} => least[t] <= best[t]

Renewed ==
  /\ \A u \in User : renewed[u] <= account[u].password
  /\ \A t \in Task : pc[t] = "verified" /\ call[t].password < renewed[call[t].user] => call[t].late

\* Nothing is at work while the server is down.
Down == ~up => \A t \in Task : pc[t] = "idle"

Inv ==
  /\ TypeOK
  /\ Functional
  /\ Down
  /\ \A t \in Task : Honest(t)
  /\ Renewed
  /\ Revoked

-----------------------------------------------------------------------------
(* Roles and thresholds. *)

LEMMA Levels ==
  /\ Role = {1, 2, 3}
  /\ Nobody = 4 /\ Admin = 3 /\ Member = 1
  /\ Role \cup {0} = {0, 1, 2, 3}
  /\ Role \cup {0, Nobody} = {0, 1, 2, 3, 4}
BY DEF Role, Nobody, Admin, Member

LEMMA RoleOfAccount ==
  ASSUME Tables, NEW u \in User
  PROVE  /\ account[u].role \in Role \cup {0}
         /\ account[u].password \in Nat
         /\ 0 < account[u].password => account[u].role \in Role
<1>1. account[u] \in AccountRow \/ account[u] = NoAccount
  BY DEF Tables
<1> QED BY <1>1 DEF AccountRow, NoAccount

LEMMA StandingType ==
  ASSUME NEW token, NEW rows, NEW users, \A s \in rows : users[s.user].role \in Role \cup {0}
  PROVE  Standing(token, rows, users) \in Role \cup {0}
BY DEF Standing

LEMMA StandingNow ==
  ASSUME Tables
  PROVE  /\ \A token : Standing(token, sessions, account) \in Role \cup {0}
         /\ \A s \in sessions : /\ Standing(s.token, sessions, account) = account[s.user].role
                                /\ account[s.user].role \in Role
<1>1. \A s \in sessions : s.user \in User /\ s.password \in Nat /\ 0 < s.password
  BY DEF Tables, SessionRow
<1>2. \A s \in sessions : account[s.user].role \in Role \cup {0}
  BY <1>1, RoleOfAccount
<1>3. ASSUME NEW s \in sessions
      PROVE  /\ Standing(s.token, sessions, account) = account[s.user].role
             /\ account[s.user].role \in Role
  <2>1. s.user \in User /\ 0 < account[s.user].password
    <3>1. s.password <= account[s.user].password
      BY DEF Tables
    <3>2. account[s.user].password \in Nat
      BY <1>1, RoleOfAccount
    <3> QED BY <1>1, <3>1, <3>2
  <2>2. account[s.user].role \in Role
    BY <2>1, RoleOfAccount
  <2>3. \A r \in sessions : r.token = s.token => r = s
    BY DEF Tables
  <2>4. (CHOOSE r \in sessions : r.token = s.token) = s
    BY <2>3
  <2> QED BY <2>2, <2>4 DEF Standing
<1> QED BY <1>2, <1>3, StandingType

LEMMA RowLevels ==
  ASSUME NEW row \in ChannelRow \cup {Unmade, Deleted}
  PROVE  row.post \in Role \cup {Nobody} /\ row.read \in Role \cup {Nobody}
<1>1. CASE row \in ChannelRow
  BY <1>1 DEF ChannelRow
<1>2. Unmade.post = Nobody /\ Unmade.read = Nobody
  BY DEF Unmade
<1>3. Deleted.post = Nobody /\ Deleted.read = Nobody
  BY DEF Deleted, Unmade
<1> QED BY <1>1, <1>2, <1>3

LEMMA ThresholdType ==
  ASSUME Tables, NEW c \in Channel, NEW op
  PROVE  Threshold(c, op, channel) \in Role \cup {Nobody}
<1>1. channel[c] \in ChannelRow \cup {Unmade, Deleted}
  BY DEF Tables
<1>2. channel[c].post \in Role \cup {Nobody} /\ channel[c].read \in Role \cup {Nobody}
  BY <1>1, RowLevels
<1> QED BY <1>2, Levels DEF Threshold

LEMMA ThresholdOfOp ==
  ASSUME NEW c, NEW rows
  PROVE  /\ Threshold(c, "logout", rows) = Member
         /\ \A op \in Op \ {"post", "read", "list", "logout"} : Threshold(c, op, rows) = Admin
BY DEF Threshold, Op

LEMMA HigherLower ==
  /\ \A a, b \in Role \cup {0} :
       Higher(a, b) \in Role \cup {0} /\ a <= Higher(a, b) /\ b <= Higher(a, b)
  /\ \A a, b \in Role \cup {0, Nobody} :
       Lower(a, b) \in Role \cup {0, Nobody} /\ Lower(a, b) <= a /\ Lower(a, b) <= b
BY Levels DEF Higher, Lower

-----------------------------------------------------------------------------
(* What is remembered grows. *)

\* What a step makes of what is remembered of a request that was at work before.
GrowsFor(u) ==
  /\ best[u] <= best'[u]
  /\ least'[u] <= least[u]
  /\ pc'[u] \in InFlight =>
       /\ Standing(call[u].token, sessions', account') <= best'[u]
       /\ least'[u] <= Threshold(call[u].channel, call[u].op, channel')

Remembered ==
  /\ best' \in [Task -> Role \cup {0}]
  /\ least' \in [Task -> Role \cup {0, Nobody}]

LEMMA WatchGrows ==
  ASSUME TypeOK, Tables', Watch, \A u \in Task : pc'[u] \in InFlight => pc[u] \in InFlight
  PROVE  Remembered /\ \A u \in Task : GrowsFor(u)
<1>1. \A token : Standing(token, sessions', account') \in Role \cup {0}
  <2>1. \A s \in sessions' : s.user \in User
    BY DEF Tables, SessionRow
  <2>2. \A u \in User : account'[u].role \in Role \cup {0}
    <3>1. SUFFICES ASSUME NEW u \in User PROVE account'[u].role \in Role \cup {0}
      OBVIOUS
    <3>2. account'[u] \in AccountRow \/ account'[u] = NoAccount
      BY DEF Tables
    <3> QED BY <3>2 DEF AccountRow, NoAccount
  <2> QED BY <2>1, <2>2, StandingType
<1>2. ASSUME NEW u \in Task, pc'[u] \in InFlight
      PROVE  Threshold(call[u].channel, call[u].op, channel') \in Role \cup {0, Nobody}
  <2>1. call[u] \in Request
    <3>1. CallType(u) /\ pc[u] \in InFlight
      BY <1>2, TypeParts
    <3> QED BY <3>1 DEF CallType, InFlight
  <2>2. call[u].channel \in Channel
    BY <2>1 DEF Request
  <2>3. channel'[call[u].channel] \in ChannelRow \cup {Unmade, Deleted}
    BY <2>2 DEF Tables, ChannelRow
  <2>4. /\ channel'[call[u].channel].post \in Role \cup {Nobody}
        /\ channel'[call[u].channel].read \in Role \cup {Nobody}
    BY <2>3, RowLevels
  <2> QED BY <2>4, Levels DEF Threshold
<1>3. /\ best \in [Task -> Role \cup {0}]
      /\ least \in [Task -> Role \cup {0, Nobody}]
  BY TypeParts DEF History
<1>4. ASSUME NEW u \in Task
      PROVE  /\ best'[u] \in Role \cup {0} /\ least'[u] \in Role \cup {0, Nobody}
             /\ best[u] <= best'[u] /\ least'[u] <= least[u]
             /\ pc'[u] \in InFlight =>
                  /\ Standing(call[u].token, sessions', account') <= best'[u]
                  /\ least'[u] <= Threshold(call[u].channel, call[u].op, channel')
  <2>1. best[u] \in Role \cup {0} /\ least[u] \in Role \cup {0, Nobody}
    BY <1>3
  <2>2. best[u] <= best[u] /\ least[u] <= least[u]
    BY <2>1, Levels
  <2>3. CASE pc'[u] \in InFlight
    <3>1. /\ best'[u] = Higher(best[u], Standing(call[u].token, sessions', account'))
          /\ least'[u] = Lower(least[u], Threshold(call[u].channel, call[u].op, channel'))
      BY <2>3 DEF Watch
    <3> QED BY <2>1, <2>3, <3>1, <1>1, <1>2, HigherLower
  <2>4. CASE pc'[u] \notin InFlight
    <3>1. best'[u] = best[u] /\ least'[u] = least[u]
      BY <2>4 DEF Watch
    <3> QED BY <2>1, <2>2, <2>4, <3>1
  <2> QED BY <2>3, <2>4
<1>5. /\ best' = [u \in Task |-> best'[u]] /\ least' = [u \in Task |-> least'[u]]
  BY DEF Watch
<1> QED
  BY <1>4, <1>5 DEF Remembered, GrowsFor

\* A step after which no session stands for more than before.
LEMMA StillGrows ==
  ASSUME Inv, NEW u \in Task, pc'[u] \in InFlight => pc[u] \in InFlight,
         best'[u] = best[u], least'[u] = least[u], UNCHANGED channel,
         \A token : /\ Standing(token, sessions', account') \in Role \cup {0}
                    /\ Standing(token, sessions', account') <= Standing(token, sessions, account)
  PROVE  GrowsFor(u)
<1>1. best[u] \in Role \cup {0} /\ least[u] \in Role \cup {0, Nobody}
  BY TypeParts DEF Inv, History
<1>2. best[u] <= best[u] /\ least[u] <= least[u]
  BY <1>1, Levels
<1>3. ASSUME pc[u] \in InFlight
      PROVE  Standing(call[u].token, sessions', account') <= best[u]
  <2>1. Standing(call[u].token, sessions, account) <= best[u]
    BY <1>3 DEF Inv, Honest
  <2>2. Standing(call[u].token, sessions, account) \in Role \cup {0}
    BY StandingNow, TypeParts DEF Inv
  <2>3. Standing(call[u].token, sessions', account') <= Standing(call[u].token, sessions, account)
    OBVIOUS
  <2>4. Standing(call[u].token, sessions', account') \in Role \cup {0}
    OBVIOUS
  <2> QED BY <1>1, <2>1, <2>2, <2>3, <2>4, Levels
<1> QED
  BY <1>2, <1>3 DEF GrowsFor, Inv, Honest

-----------------------------------------------------------------------------
(* A step of request t. *)

LEMMA AtWork ==
  ASSUME Inv, NEW t \in Task, pc[t] # "idle"
  PROVE  up
BY DEF Inv, Down

\* What has to be shown of a handler's step for the invariant to hold after it.
LEMMA HandlerStep ==
  ASSUME Inv, up, NEW t \in Task, NEW to, NEW c,
         pc' = [pc EXCEPT ![t] = to], call' = [call EXCEPT ![t] = c],
         UNCHANGED <<up, renewed, stops>>, requests' \in Nat,
         Tables', \A s \in sessions' \ sessions : s.password < renewed[s.user] => s.late,
         \A u \in User : account[u].password <= account'[u].password,
         CallType(t)',
         to = "verified" => ~(c.password < renewed[c.user]),
         Remembered, \A u \in Task \ {t} : GrowsFor(u), Honest(t)'
  PROVE  Inv'
<1>1. /\ pc'[t] = to /\ call'[t] = c
      /\ \A u \in Task \ {t} : pc'[u] = pc[u] /\ call'[u] = call[u]
      /\ Functional'
  BY DEF Inv, Functional
<1>2. \A u \in User : account[u].password \in Nat
  BY TypeParts, RoleOfAccount DEF Inv
<1>3. \A u \in User : account'[u].password \in Nat
  <2>1. ASSUME NEW u \in User PROVE account'[u].password \in Nat
    <3>1. account'[u] \in AccountRow \/ account'[u] = NoAccount
      BY DEF Tables
    <3> QED BY <3>1 DEF AccountRow, NoAccount
  <2> QED BY <2>1
<1>4. TypeOK'
  <2>1. ASSUME NEW u \in Task PROVE CallType(u)'
    <3>1. CASE u = t
      BY <3>1
    <3>2. CASE u # t
      <4>1. CallType(u) /\ pc'[u] = pc[u] /\ call'[u] = call[u]
        BY <3>2, <1>1, TypeParts DEF Inv
      <4>2. call[u] \in Request \cup LoginCall => call[u].user \in User /\ call[u].password \in Nat
        BY DEF Request, LoginCall
      <4> QED BY <4>1, <4>2, <1>2, <1>3 DEF CallType
    <3> QED BY <3>1, <3>2
  <2>2. History'
    BY TypeParts DEF Inv, History, Remembered
  <2> QED BY <2>1, <2>2 DEF TypeOK, Tables, History, CallType, AccountRow, ChannelRow, SessionRow
<1>5. Down'
  BY DEF Down
<1>6. \A u \in Task : Honest(u)'
  <2>1. ASSUME NEW u \in Task \ {t} PROVE Honest(u)'
    <3>1. Honest(u) /\ GrowsFor(u) /\ pc'[u] = pc[u] /\ call'[u] = call[u]
      BY <1>1 DEF Inv
    <3>2. /\ best[u] \in Role \cup {0} /\ best'[u] \in Role \cup {0}
          /\ least[u] \in Role \cup {0, Nobody} /\ least'[u] \in Role \cup {0, Nobody}
      BY TypeParts DEF Inv, History, Remembered
    <3>3. pc[u] \in {"checked", "cleared", "updated"} => call[u].role \in Role /\ call[u].role <= best'[u]
      BY <3>1, <3>2, Levels DEF Honest, GrowsFor
    <3>4. pc[u] \in {"cleared", "updated", "done"} => least'[u] <= best'[u]
      BY <3>1, <3>2, Levels DEF Honest, GrowsFor
    <3> QED BY <3>1, <3>3, <3>4 DEF Honest, GrowsFor
  <2> QED BY <2>1
<1>7. Renewed'
  <2>1. ASSUME NEW u \in User PROVE renewed'[u] <= account'[u].password
    <3>1. renewed[u] <= account[u].password /\ renewed[u] \in Nat
      BY TypeParts DEF Inv, Renewed, History
    <3> QED BY <3>1, <1>2, <1>3
  <2> QED BY <2>1, <1>1 DEF Inv, Renewed
<1>8. Revoked'
  BY DEF Inv, Revoked
<1> QED
  BY <1>1, <1>4, <1>5, <1>6, <1>7, <1>8 DEF Inv

\* The same for a step that changes only where t is and what it knows.
LEMMA OwnStep ==
  ASSUME Inv, up, NEW t \in Task, NEW to, NEW c,
         pc' = [pc EXCEPT ![t] = to], call' = [call EXCEPT ![t] = c],
         UNCHANGED <<up, database, history>>,
         CallType(t)',
         to = "verified" => ~(c.password < renewed[c.user]),
         Honest(t)'
  PROVE  Inv'
<1>1. UNCHANGED <<up, account, sessions, channel, tokens, requests, renewed, best, least, stops>>
  BY DEF database, history
<1>2. Tables'
  BY <1>1, TypeParts DEF Inv, Tables, SessionRow
<1>3. \A u \in User : account[u].password <= account'[u].password
  <2>1. \A u \in User : account[u].password \in Nat
    BY TypeParts, RoleOfAccount DEF Inv
  <2> QED BY <2>1, <1>1
<1>4. Remembered /\ requests' \in Nat
  BY <1>1, TypeParts DEF Inv, History, Remembered
<1>5. ASSUME NEW u \in Task \ {t} PROVE GrowsFor(u)
  <2>1. \A token : /\ Standing(token, sessions, account) \in Role \cup {0}
                   /\ Standing(token, sessions, account) <= Standing(token, sessions, account)
    <3>1. \A token : Standing(token, sessions, account) \in Role \cup {0}
      BY StandingNow, TypeParts DEF Inv
    <3>2. \A z \in Role \cup {0} : z <= z
      BY Levels
    <3> QED BY <3>1, <3>2
  <2>2. \A token : /\ Standing(token, sessions', account') \in Role \cup {0}
                   /\ Standing(token, sessions', account') <= Standing(token, sessions, account)
    BY <2>1, <1>1
  <2>3. pc'[u] = pc[u]
    BY DEF Inv, Functional
  <2> QED BY <2>2, <2>3, <1>1, StillGrows
<1> QED
  BY <1>1, <1>2, <1>3, <1>4, <1>5, HandlerStep

-----------------------------------------------------------------------------
(* The steps that change only where a request is and what it knows. *)

LEMMA AfterRequest ==
  ASSUME Inv, NEW t \in Task
  PROVE  /\ \A to : pc' = [pc EXCEPT ![t] = to] => pc'[t] = to
         /\ \A c : call' = [call EXCEPT ![t] = c] => call'[t] = c
         /\ call = [call EXCEPT ![t] = call[t]]
BY DEF Inv, Functional

LEMMA Working ==
  ASSUME Inv, NEW t \in Task, pc[t] \notin {"idle", "verified"}
  PROVE  /\ up
         /\ call[t] \in Request
         /\ call[t].op \in Op /\ call[t].channel \in Channel /\ call[t].user \in User
         /\ Threshold(call[t].channel, call[t].op, channel) \in Role \cup {Nobody}
         /\ best[t] \in Role \cup {0} /\ least[t] \in Role \cup {0, Nobody}
<1>1. CallType(t)
  BY TypeParts DEF Inv
<1>2. call[t] \in Request
  BY <1>1 DEF CallType
<1>3. up
  BY AtWork
<1>4. call[t].op \in Op /\ call[t].channel \in Channel /\ call[t].user \in User
  BY <1>2 DEF Request
<1>5. Threshold(call[t].channel, call[t].op, channel) \in Role \cup {Nobody}
  BY <1>4, TypeParts, ThresholdType DEF Inv
<1>6. best[t] \in Role \cup {0} /\ least[t] \in Role \cup {0, Nobody}
  BY TypeParts DEF Inv, History
<1> QED BY <1>2, <1>3, <1>4, <1>5, <1>6

\* A request whose role reaches a threshold that is still the one it had to reach.
LEMMA Enough ==
  ASSUME Inv, NEW t \in Task, pc[t] = "checked",
         HasAtLeast(call[t].role, Threshold(call[t].channel, call[t].op, channel))
  PROVE  least[t] <= best[t]
<1>1. Honest(t) /\ pc[t] \in InFlight
  BY DEF Inv, InFlight
<1>2. /\ Threshold(call[t].channel, call[t].op, channel) \in Role \cup {Nobody}
      /\ best[t] \in Role \cup {0} /\ least[t] \in Role \cup {0, Nobody}
  BY Working
<1> QED BY <1>1, <1>2, Levels DEF Honest, HasAtLeast

LEMMA LogInStep ==
  ASSUME Inv, NEW t \in Task, NEW u \in User, LogIn(t, u)
  PROVE  Inv'
<1> DEFINE c == [op |-> "login", user |-> u, password |-> account[u].password, late |-> FALSE]
<1>1. /\ up /\ account[u] # NoAccount
      /\ pc' = [pc EXCEPT ![t] = "verified"] /\ call' = [call EXCEPT ![t] = c]
      /\ UNCHANGED <<up, database, history>>
  BY DEF LogIn, Free
<1>2. pc'[t] = "verified" /\ call'[t] = c
  BY <1>1, AfterRequest
<1>3. account[u] \in AccountRow
  BY <1>1, TypeParts DEF Inv, Tables
<1>4. account[u].password \in Nat /\ 0 < account[u].password
  BY <1>3 DEF AccountRow
<1>5. c \in LoginCall /\ c.user = u /\ c.password = account[u].password
  BY <1>4 DEF LoginCall
<1>6. account' = account
  BY <1>1 DEF database
<1>7. CallType(t)'
  BY <1>2, <1>4, <1>5, <1>6 DEF CallType
<1>8. ~(c.password < renewed[c.user])
  <2>1. renewed[u] <= account[u].password /\ renewed[u] \in Nat
    BY TypeParts DEF Inv, Renewed, History
  <2> QED BY <2>1, <1>4, <1>5
<1>9. Honest(t)'
  BY <1>2 DEF Honest, InFlight
<1> HIDE DEF c
<1> QED BY <1>1, <1>7, <1>8, <1>9, OwnStep

LEMMA RefuseStep ==
  ASSUME Inv, up, NEW t \in Task, Refuse(t)
  PROVE  Inv'
<1>1. /\ pc' = [pc EXCEPT ![t] = "idle"] /\ call' = [call EXCEPT ![t] = NoCall]
      /\ UNCHANGED <<up, database, history>>
  BY DEF Refuse
<1>2. pc'[t] = "idle" /\ call'[t] = NoCall
  BY <1>1, AfterRequest
<1>3. CallType(t)'
  BY <1>2 DEF CallType
<1>4. Honest(t)'
  BY <1>2 DEF Honest, InFlight
<1> QED BY <1>1, <1>3, <1>4, OwnStep

LEMMA RefusalsStep ==
  ASSUME Inv, NEW t \in Task,
         Unauthorized(t) \/ Forbidden(t) \/ BelowThreshold(t) \/ InsertFails(t)
  PROVE  Inv'
<1>1. pc[t] # "idle" /\ Refuse(t)
  BY DEF Unauthorized, Forbidden, BelowThreshold, InsertFails
<1> QED BY <1>1, AtWork, RefuseStep

LEMMA AuthenticateStep ==
  ASSUME Inv, NEW t \in Task, Authenticate(t)
  PROVE  Inv'
<1>1. PICK s \in sessions :
        /\ s.token = call[t].token
        /\ call' = [call EXCEPT ![t].user = s.user, ![t].role = account[s.user].role]
  BY DEF Authenticate
<1>2. /\ pc[t] = "received" /\ pc' = [pc EXCEPT ![t] = "checked"]
      /\ UNCHANGED <<up, database, history>>
  BY DEF Authenticate
<1> DEFINE c == [call[t] EXCEPT !.user = s.user, !.role = account[s.user].role]
<1>3. call' = [call EXCEPT ![t] = c]
  BY <1>1 DEF Inv, Functional
<1>4. pc'[t] = "checked" /\ call'[t] = c
  BY <1>2, <1>3, AfterRequest
<1>5. call[t] \in Request /\ up
  BY <1>2, Working
<1>6. s.user \in User
  BY TypeParts DEF Inv, Tables, SessionRow
<1>7. /\ Standing(s.token, sessions, account) = account[s.user].role
      /\ account[s.user].role \in Role
  BY StandingNow, TypeParts DEF Inv
<1>8. /\ c \in Request /\ c.role = account[s.user].role
      /\ c.token = call[t].token /\ c.channel = call[t].channel /\ c.op = call[t].op
  BY <1>5, <1>6, <1>7 DEF Request
<1>9. Honest(t) /\ pc[t] \in InFlight
  BY <1>2 DEF Inv, InFlight
<1>10. /\ sessions' = sessions /\ account' = account /\ channel' = channel
       /\ best' = best /\ least' = least
  BY <1>2 DEF database, history
<1>11. CallType(t)'
  BY <1>4, <1>8 DEF CallType
<1>12. /\ Standing(call[t].token, sessions, account) <= best[t]
       /\ least[t] <= Threshold(call[t].channel, call[t].op, channel)
       /\ account[s.user].role <= best[t]
  BY <1>1, <1>7, <1>9 DEF Honest
<1> HIDE DEF c
<1>13. Honest(t)'
  BY <1>4, <1>7, <1>8, <1>10, <1>12 DEF Honest
<1> QED BY <1>2, <1>3, <1>5, <1>11, <1>13, OwnStep

\* A step that moves t on to "cleared" or to the end, all else as it was.
LEMMA PassStep ==
  ASSUME Inv, NEW t \in Task, NEW to,
         \/ to = "cleared" /\ pc[t] = "checked" /\ call[t].op \in {"post", "read"}
         \/ to = "done" /\ pc[t] \in {"checked", "cleared"},
         pc' = [pc EXCEPT ![t] = to], UNCHANGED <<up, database, call, history>>,
         least[t] <= best[t]
  PROVE  Inv'
<1>1. pc'[t] = to /\ call' = [call EXCEPT ![t] = call[t]] /\ call'[t] = call[t]
  BY AfterRequest
<1>2. up /\ call[t] \in Request
  BY Working
<1>3. Honest(t) /\ pc[t] \in InFlight
  BY DEF Inv, InFlight
<1>4. /\ sessions' = sessions /\ account' = account /\ channel' = channel
      /\ best' = best /\ least' = least
  BY DEF database, history
<1>5. CallType(t)'
  BY <1>1, <1>2 DEF CallType
<1>6. Honest(t)'
  BY <1>1, <1>3, <1>4 DEF Honest, InFlight
<1> QED BY <1>1, <1>2, <1>5, <1>6, OwnStep

LEMMA MessagesStep ==
  ASSUME Inv, NEW t \in Task, Clear(t) \/ Insert(t) \/ SelectMessages(t) \/ SelectChannels(t)
  PROVE  Inv'
<1>1. CASE Clear(t)
  BY <1>1, Enough, PassStep DEF Clear
<1>2. CASE Insert(t) \/ SelectMessages(t)
  <2>1. /\ pc[t] = "cleared" /\ pc' = [pc EXCEPT ![t] = "done"]
        /\ UNCHANGED <<up, database, call, history>>
    BY <1>2 DEF Insert, SelectMessages, Finish
  <2>2. least[t] <= best[t]
    BY <2>1 DEF Inv, Honest
  <2> QED BY <2>1, <2>2, PassStep
<1>3. CASE SelectChannels(t)
  BY <1>3, Enough, PassStep DEF SelectChannels, Finish
<1> QED BY <1>1, <1>2, <1>3

-----------------------------------------------------------------------------
(* The steps that change the tables. *)

\* A handler's last query, which its caller's role was enough for.
LEMMA DoneStep ==
  ASSUME Inv, NEW t \in Task, pc[t] = "checked",
         call[t].op \notin {"post", "read", "list"},
         call[t].op = "logout" \/ HasAtLeast(call[t].role, Admin),
         Finish(t), UNCHANGED <<up, call, tokens, requests, renewed, stops>>, Watch,
         Tables', sessions' \subseteq sessions,
         \A u \in User : account[u].password <= account'[u].password
  PROVE  Inv'
<1>1. up /\ call[t] \in Request /\ call[t].op \in Op
  BY Working
<1>2. /\ pc' = [pc EXCEPT ![t] = "done"] /\ pc'[t] = "done"
      /\ call' = [call EXCEPT ![t] = call[t]] /\ call'[t] = call[t]
  BY AfterRequest DEF Finish
<1>3. HasAtLeast(call[t].role, Threshold(call[t].channel, call[t].op, channel))
  <2>1. call[t].role \in Role
    BY DEF Inv, Honest
  <2>2. CASE call[t].op = "logout"
    BY <2>1, <2>2, Levels, ThresholdOfOp DEF HasAtLeast
  <2>3. CASE call[t].op # "logout"
    <3>1. Threshold(call[t].channel, call[t].op, channel) = Admin
      BY <2>3, <1>1, ThresholdOfOp
    <3> QED BY <2>3, <3>1
  <2> QED BY <2>2, <2>3
<1>4. least[t] <= best[t]
  BY <1>3, Enough
<1>5. \A u \in Task : pc'[u] \in InFlight => pc[u] \in InFlight
  BY <1>2 DEF InFlight, Inv, Functional
<1>6. Remembered /\ \A u \in Task : GrowsFor(u)
  BY <1>5, TypeParts, WatchGrows DEF Inv
<1>7. least'[t] <= best'[t]
  <2>1. /\ best[t] \in Role \cup {0} /\ best'[t] \in Role \cup {0}
        /\ least[t] \in Role \cup {0, Nobody} /\ least'[t] \in Role \cup {0, Nobody}
    BY <1>6, TypeParts DEF Inv, History, Remembered
  <2>2. best[t] <= best'[t] /\ least'[t] <= least[t]
    BY <1>6 DEF GrowsFor
  <2> QED BY <2>1, <2>2, <1>4, Levels
<1>8. Honest(t)'
  BY <1>2, <1>7 DEF Honest, InFlight
<1>9. CallType(t)'
  BY <1>1, <1>2 DEF CallType
<1>10. requests' \in Nat
  BY TypeParts DEF Inv, History
<1> QED BY <1>1, <1>2, <1>6, <1>8, <1>9, <1>10, HandlerStep

\* Passwords that stay, and rows that stay rows.
LEMMA SamePasswords ==
  ASSUME Inv, \A u \in User : account'[u].password = account[u].password
  PROVE  \A u \in User : account[u].password <= account'[u].password
<1>1. \A u \in User : account[u].password \in Nat
  BY TypeParts, RoleOfAccount DEF Inv
<1> QED BY <1>1

LEMMA LogOutStep ==
  ASSUME Inv, NEW t \in Task, LogOut(t)
  PROVE  Inv'
<1>1. /\ pc[t] = "checked" /\ call[t].op = "logout" /\ sessions' \subseteq sessions
      /\ Finish(t) /\ Watch
      /\ UNCHANGED <<up, account, channel, call, tokens, requests, renewed, stops>>
  BY DEF LogOut
<1>2. Tables'
  BY <1>1, TypeParts DEF Inv, Tables, SessionRow
<1>3. \A u \in User : account[u].password <= account'[u].password
  BY <1>1, SamePasswords
<1> QED BY <1>1, <1>2, <1>3, DoneStep

LEMMA AdminStep ==
  ASSUME Inv, NEW t \in Task, NEW op \in Op \ {"post", "read", "list"}, AsAdmin(t, op),
         Finish(t), UNCHANGED <<up, sessions, call, tokens, requests, renewed, stops>>, Watch,
         Tables', \A u \in User : account[u].password <= account'[u].password
  PROVE  Inv'
<1>1. pc[t] = "checked" /\ call[t].op = op /\ HasAtLeast(call[t].role, Admin)
  BY DEF AsAdmin
<1> QED BY <1>1, DoneStep

LEMMA CreateUserStep ==
  ASSUME Inv, NEW t \in Task, NEW u \in User, NEW role \in Role, CreateUser(t, u, role)
  PROVE  Inv'
<1> DEFINE row == [role |-> role, password |-> 1]
<1>1. /\ AsAdmin(t, "create_user") /\ account[u] = NoAccount
      /\ account' = [account EXCEPT ![u] = row]
      /\ Finish(t) /\ Watch
      /\ UNCHANGED <<up, sessions, channel, call, tokens, requests, renewed, stops>>
  BY DEF CreateUser
<1>2. row \in AccountRow /\ row.password = 1
  BY DEF AccountRow
<1>3. account[u].password = 0
  BY <1>1 DEF NoAccount
<1>4. Tables
  BY TypeParts DEF Inv
<1> HIDE DEF row
<1>5. \A v \in User : account'[v] = IF v = u THEN row ELSE account[v]
  BY <1>1, <1>4 DEF Tables
<1>6. \A v \in User : account[v].password <= account'[v].password
  <2>1. \A v \in User : account[v].password \in Nat
    BY <1>4, RoleOfAccount
  <2> QED BY <2>1, <1>2, <1>3, <1>5
<1>7. \A s \in sessions : s.password <= account'[s.user].password
  <2>1. ASSUME NEW s \in sessions PROVE s.password <= account'[s.user].password
    <3>1. s.user \in User /\ s.password \in Nat /\ s.password <= account[s.user].password
      BY <1>4 DEF Tables, SessionRow
    <3>2. account[s.user].password \in Nat
      BY <3>1, <1>4, RoleOfAccount
    <3>3. account'[s.user].password \in Nat /\ account[s.user].password <= account'[s.user].password
      BY <3>1, <3>2, <1>2, <1>5, <1>6
    <3> QED BY <3>1, <3>2, <3>3
  <2> QED BY <2>1
<1>8. account' \in [User -> AccountRow \cup {NoAccount}]
  BY <1>1, <1>2, <1>4 DEF Tables
<1>9. Tables'
  BY <1>1, <1>4, <1>7, <1>8 DEF Tables, ChannelRow, AccountRow, SessionRow
<1> QED BY <1>1, <1>6, <1>9, AdminStep DEF Op

LEMMA SetRoleStep ==
  ASSUME Inv, NEW t \in Task, NEW u \in User, NEW role \in Role, SetRole(t, u, role)
  PROVE  Inv'
<1> DEFINE row == [account[u] EXCEPT !.role = role]
<1>1. /\ AsAdmin(t, "set_role") /\ account[u] # NoAccount
      /\ account' = [account EXCEPT ![u].role = role]
      /\ Finish(t) /\ Watch
      /\ UNCHANGED <<up, sessions, channel, call, tokens, requests, renewed, stops>>
  BY DEF SetRole
<1>2. Tables
  BY TypeParts DEF Inv
<1>3. account[u] \in AccountRow
  BY <1>1, <1>2 DEF Tables
<1>4. row \in AccountRow /\ row.password = account[u].password
  BY <1>3 DEF AccountRow
<1>5. account' = [account EXCEPT ![u] = row]
  BY <1>1, <1>2 DEF Tables
<1> HIDE DEF row
<1>6. \A v \in User : account'[v].password = account[v].password
  BY <1>2, <1>4, <1>5 DEF Tables
<1>7. \A s \in sessions : s.password <= account'[s.user].password
  BY <1>2, <1>6 DEF Tables, SessionRow
<1>8. account' \in [User -> AccountRow \cup {NoAccount}]
  BY <1>2, <1>4, <1>5 DEF Tables
<1>9. Tables'
  BY <1>1, <1>2, <1>7, <1>8 DEF Tables, ChannelRow, AccountRow, SessionRow
<1> QED BY <1>1, <1>6, <1>9, SamePasswords, AdminStep DEF Op

\* Any change of one channel's row to one that a row can be.
LEMMA ChannelsStep ==
  ASSUME Inv, NEW t \in Task, NEW op \in Op \ {"post", "read", "list"}, AsAdmin(t, op),
         NEW c \in Channel, NEW row \in ChannelRow \cup {Unmade, Deleted},
         channel' = [channel EXCEPT ![c] = row], Finish(t), Watch,
         UNCHANGED <<up, account, sessions, call, tokens, requests, renewed, stops>>
  PROVE  Inv'
<1>1. Tables'
  <2>1. Tables
    BY TypeParts DEF Inv
  <2>2. channel' \in [Channel -> ChannelRow \cup {Unmade, Deleted}]
    BY <2>1 DEF Tables
  <2> QED BY <2>1, <2>2 DEF Tables, ChannelRow, AccountRow, SessionRow
<1>2. \A u \in User : account[u].password <= account'[u].password
  BY SamePasswords
<1> QED BY <1>1, <1>2, AdminStep

LEMMA CreateChannelStep ==
  ASSUME Inv, NEW t \in Task, NEW c \in Channel, NEW post \in Role, NEW read \in Role,
         CreateChannel(t, c, post, read)
  PROVE  Inv'
<1>1. [post |-> post, read |-> read, made |-> TRUE] \in ChannelRow
  BY DEF ChannelRow
<1> QED BY <1>1, ChannelsStep DEF CreateChannel, Op

LEMMA SetChannelStep ==
  ASSUME Inv, NEW t \in Task,
         DeleteChannel(t) \/ \E role \in Role : SetMinPostRole(t, role) \/ SetMinReadRole(t, role)
  PROVE  Inv'
<1>1. ASSUME NEW op \in {"delete_channel", "set_min_post_role", "set_min_read_role"}, NEW row,
             SetChannel(t, op, row), call[t].channel \in Channel => row \in ChannelRow \cup {Deleted}
      PROVE  Inv'
  <2>1. /\ AsAdmin(t, op) /\ Finish(t) /\ Watch
        /\ channel' = [channel EXCEPT ![call[t].channel] = row]
        /\ UNCHANGED <<up, account, sessions, call, tokens, requests, renewed, stops>>
    BY <1>1 DEF SetChannel
  <2>2. call[t].channel \in Channel
    BY <2>1, Working DEF AsAdmin
  <2> QED BY <2>1, <2>2, <1>1, ChannelsStep DEF Op
<1>2. CASE DeleteChannel(t)
  BY <1>1, <1>2 DEF DeleteChannel
<1>3. ASSUME NEW role \in Role, call[t].channel \in Channel, Exists(call[t].channel)
      PROVE  /\ [channel[call[t].channel] EXCEPT !.post = role] \in ChannelRow
             /\ [channel[call[t].channel] EXCEPT !.read = role] \in ChannelRow
  <2>1. channel[call[t].channel] \in ChannelRow
    BY <1>3, TypeParts DEF Inv, Tables, Exists, Unmade, Deleted
  <2> QED BY <2>1 DEF ChannelRow
<1>4. ASSUME NEW role \in Role, SetMinPostRole(t, role)
      PROVE  Inv'
  <2>1. SetChannel(t, "set_min_post_role", [channel[call[t].channel] EXCEPT !.post = role])
    BY <1>4 DEF SetMinPostRole
  <2>2. Exists(call[t].channel)
    BY <2>1 DEF SetChannel
  <2> QED BY <1>1, <1>3, <2>1, <2>2
<1>5. ASSUME NEW role \in Role, SetMinReadRole(t, role)
      PROVE  Inv'
  <2>1. SetChannel(t, "set_min_read_role", [channel[call[t].channel] EXCEPT !.read = role])
    BY <1>5 DEF SetMinReadRole
  <2>2. Exists(call[t].channel)
    BY <2>1 DEF SetChannel
  <2> QED BY <1>1, <1>3, <2>1, <2>2
<1> QED BY <1>2, <1>4, <1>5

LEMMA SetPasswordStep ==
  ASSUME Inv, NEW t \in Task, NEW u \in User, SetPassword(t, u)
  PROVE  Inv'
<1> DEFINE row == [account[u] EXCEPT !.password = @ + 1]
           c == [call[t] EXCEPT !.user = u, !.password = account'[u].password]
<1>1. /\ AsAdmin(t, "reset_password") /\ account[u] # NoAccount
      /\ account' = [account EXCEPT ![u].password = @ + 1]
      /\ pc' = [pc EXCEPT ![t] = "updated"]
      /\ UNCHANGED <<up, sessions, channel, tokens, requests, renewed, best, least, stops>>
  BY DEF SetPassword, history
<1>2. call' = [call EXCEPT ![t] = c]
  <2>1. PICK z : z = account'[u].password
    OBVIOUS
  <2>2. call' = [call EXCEPT ![t].user = u, ![t].password = z]
    BY <2>1 DEF SetPassword
  <2>3. c = [call[t] EXCEPT !.user = u, !.password = z]
    BY <2>1
  <2> HIDE DEF c
  <2> QED BY <2>2, <2>3 DEF Inv, Functional
<1>3. Tables
  BY TypeParts DEF Inv
<1>4. account[u] \in AccountRow
  BY <1>1, <1>3 DEF Tables
<1>5. /\ row \in AccountRow /\ row.role = account[u].role
      /\ row.password \in Nat /\ account[u].password <= row.password
  BY <1>4 DEF AccountRow
<1>6. account' = [account EXCEPT ![u] = row]
  BY <1>1, <1>3 DEF Tables
<1> HIDE DEF row
<1>7. /\ \A v \in User : account'[v].role = account[v].role
      /\ account'[u] = row
      /\ \A v \in User \ {u} : account'[v] = account[v]
  BY <1>3, <1>5, <1>6 DEF Tables
<1>8. \A v \in User : account[v].password <= account'[v].password
  <2>1. \A v \in User : account[v].password \in Nat
    BY <1>3, RoleOfAccount
  <2> QED BY <2>1, <1>5, <1>7
<1>9. \A s \in sessions : s.password <= account'[s.user].password
  <2>1. ASSUME NEW s \in sessions PROVE s.password <= account'[s.user].password
    <3>1. s.user \in User /\ s.password \in Nat /\ s.password <= account[s.user].password
      BY <1>3 DEF Tables, SessionRow
    <3>2. account[s.user].password \in Nat
      BY <3>1, <1>3, RoleOfAccount
    <3>3. account'[s.user].password \in Nat /\ account[s.user].password <= account'[s.user].password
      BY <3>1, <3>2, <1>5, <1>7, <1>8
    <3> QED BY <3>1, <3>2, <3>3
  <2> QED BY <2>1
<1>10. Tables'
  <2>1. account' \in [User -> AccountRow \cup {NoAccount}]
    BY <1>3, <1>5, <1>6 DEF Tables
  <2> QED BY <2>1, <1>1, <1>3, <1>9 DEF Tables, ChannelRow, AccountRow, SessionRow
<1>11. \A token : /\ Standing(token, sessions', account') \in Role \cup {0}
                  /\ Standing(token, sessions', account') <= Standing(token, sessions, account)
  <2>1. ASSUME NEW token
        PROVE  Standing(token, sessions', account') = Standing(token, sessions, account)
    <3>1. CASE \E s \in sessions : s.token = token
      <4>1. (CHOOSE s \in sessions : s.token = token) \in sessions
        BY <3>1
      <4>2. (CHOOSE s \in sessions : s.token = token).user \in User
        BY <4>1, <1>3 DEF Tables, SessionRow
      <4> QED BY <1>1, <1>7, <4>2 DEF Standing
    <3>2. CASE ~\E s \in sessions : s.token = token
      BY <3>2, <1>1 DEF Standing
    <3> QED BY <3>1, <3>2
  <2>2. \A token : Standing(token, sessions, account) \in Role \cup {0}
    BY <1>3, StandingNow
  <2> QED BY <2>1, <2>2, Levels
<1>12. pc[t] = "checked" /\ call[t].op = "reset_password" /\ HasAtLeast(call[t].role, Admin)
  BY <1>1 DEF AsAdmin
<1>13. up /\ call[t] \in Request
  BY <1>12, Working
<1>14. least[t] <= best[t]
  <2>1. Threshold(call[t].channel, call[t].op, channel) = Admin
    BY <1>12, ThresholdOfOp DEF Op
  <2> QED BY <2>1, <1>12, Enough
<1>15. /\ pc'[t] = "updated" /\ call'[t] = c
       /\ \A o \in Task \ {t} : pc'[o] = pc[o]
  BY <1>1, <1>2 DEF Inv, Functional
<1>16. /\ c \in Request /\ c.op = "reset_password" /\ c.user = u
       /\ c.password = account'[u].password /\ c.role = call[t].role
       /\ c.token = call[t].token /\ c.channel = call[t].channel
  BY <1>5, <1>7, <1>12, <1>13 DEF Request
<1> HIDE DEF c
<1>17. CallType(t)'
  BY <1>5, <1>7, <1>15, <1>16 DEF CallType
<1>18. \A o \in Task : GrowsFor(o)
  <2>1. ASSUME NEW o \in Task PROVE GrowsFor(o)
    <3>1. pc'[o] \in InFlight => pc[o] \in InFlight
      BY <1>12, <1>15 DEF InFlight
    <3> QED BY <3>1, <1>1, <1>11, StillGrows
  <2> QED BY <2>1
<1>19. Honest(t)'
  <2>1. Honest(t) /\ GrowsFor(t) /\ best' = best /\ least' = least /\ channel' = channel
    BY <1>1, <1>18 DEF Inv
  <2>2. pc'[t] \in InFlight
    BY <1>15 DEF InFlight
  <2>3. /\ Standing(c.token, sessions', account') <= best'[t]
        /\ least'[t] <= Threshold(c.channel, c.op, channel')
    BY <2>1, <2>2, <1>12, <1>16 DEF GrowsFor
  <2> QED BY <2>1, <2>3, <1>12, <1>14, <1>15, <1>16 DEF Honest
<1>20. Remembered /\ requests' \in Nat
  BY <1>1, TypeParts DEF Inv, History, Remembered
<1> QED BY <1>1, <1>2, <1>8, <1>10, <1>13, <1>15, <1>17, <1>18, <1>19, <1>20, HandlerStep

LEMMA ReceiveStep ==
  ASSUME Inv, NEW t \in Task, NEW token \in 1 .. tokens, NEW op \in Op, NEW h \in Channel,
         Receive(t, token, op, h)
  PROVE  Inv'
<1> DEFINE c == [op |-> op, token |-> token, channel |-> h,
                 user |-> Operator, role |-> 0, password |-> 0]
<1>1. /\ up /\ requests' = requests + 1
      /\ pc' = [pc EXCEPT ![t] = "received"] /\ call' = [call EXCEPT ![t] = c]
      /\ best' = [best EXCEPT ![t] = Standing(token, sessions, account)]
      /\ least' = [least EXCEPT ![t] = Threshold(h, op, channel)]
      /\ UNCHANGED <<up, account, sessions, channel, tokens, renewed, stops>>
  BY DEF Receive, Free, database
<1>2. pc'[t] = "received" /\ call'[t] = c /\ \A o \in Task \ {t} : pc'[o] = pc[o]
  BY <1>1 DEF Inv, Functional
<1>3. Tables /\ History
  BY TypeParts DEF Inv
<1>4. /\ c \in Request /\ c.token = token /\ c.channel = h /\ c.op = op
  BY <1>3, OperatorAssumption DEF Request, Tables
<1> HIDE DEF c
<1>5. \A k : Standing(k, sessions, account) \in Role \cup {0}
  BY <1>3, StandingNow
<1>6. Threshold(h, op, channel) \in Role \cup {Nobody}
  BY <1>3, ThresholdType
<1>7. Remembered /\ requests' \in Nat
  BY <1>1, <1>3, <1>5, <1>6 DEF Remembered, History
<1>8. /\ best'[t] = Standing(token, sessions, account) /\ least'[t] = Threshold(h, op, channel)
      /\ \A o \in Task \ {t} : best'[o] = best[o] /\ least'[o] = least[o]
  BY <1>1, <1>3 DEF History
<1>9. Tables'
  BY <1>1, <1>3 DEF Tables, SessionRow
<1>10. \A k : /\ Standing(k, sessions', account') \in Role \cup {0}
              /\ Standing(k, sessions', account') <= Standing(k, sessions, account)
  BY <1>1, <1>5, Levels
<1>11. \A o \in Task \ {t} : GrowsFor(o)
  <2>1. ASSUME NEW o \in Task \ {t} PROVE GrowsFor(o)
    BY <1>1, <1>2, <1>8, <1>10, StillGrows
  <2> QED BY <2>1
<1>12. CallType(t)'
  BY <1>2, <1>4 DEF CallType
<1>13. Honest(t)'
  <2>1. Standing(token, sessions', account') <= best'[t]
    BY <1>1, <1>8, <1>10
  <2>2. least'[t] <= Threshold(h, op, channel')
    <3>1. \A x \in Role \cup {Nobody} : x <= x
      BY Levels
    <3> QED BY <3>1, <1>1, <1>6, <1>8
  <2> QED BY <2>1, <2>2, <1>2, <1>4 DEF Honest
<1>14. \A u \in User : account[u].password <= account'[u].password
  BY <1>1, SamePasswords
<1> QED BY <1>1, <1>2, <1>7, <1>9, <1>11, <1>12, <1>13, <1>14, HandlerStep

LEMMA OpenSessionStep ==
  ASSUME Inv, NEW t \in Task, OpenSession(t)
  PROVE  Inv'
<1> DEFINE row == [token |-> tokens + 1, user |-> call[t].user,
                   password |-> call[t].password, late |-> call[t].late]
<1>1. /\ pc[t] = "verified" /\ tokens' = tokens + 1 /\ sessions' = sessions \cup {row}
      /\ pc' = [pc EXCEPT ![t] = "idle"] /\ call' = [call EXCEPT ![t] = NoCall]
      /\ UNCHANGED <<up, account, channel, requests, renewed, stops>> /\ Watch
  BY DEF OpenSession
<1>2. Tables /\ CallType(t)
  BY TypeParts DEF Inv
<1>3. /\ call[t] \in LoginCall /\ 0 < call[t].password
      /\ call[t].password <= account[call[t].user].password
  BY <1>1, <1>2 DEF CallType
<1>4. /\ row.token = tokens + 1 /\ row.user = call[t].user /\ row.user \in User
      /\ row.password = call[t].password /\ row.password \in Nat \ {0}
      /\ row.late = call[t].late /\ row.late \in BOOLEAN
      /\ row = [token |-> row.token, user |-> row.user, password |-> row.password, late |-> row.late]
  BY <1>3 DEF LoginCall
<1> HIDE DEF row
<1>5. Tables'
  <2>1. sessions' \subseteq SessionRow'
    <3>1. tokens \in Nat /\ sessions \subseteq SessionRow
      BY <1>2 DEF Tables
    <3>2. 1 .. tokens \subseteq 1 .. tokens' /\ row.token \in 1 .. tokens'
      BY <3>1, <1>1, <1>4
    <3>3. row \in SessionRow'
      BY <3>2, <1>4 DEF SessionRow
    <3>4. SessionRow \subseteq SessionRow'
      BY <3>2 DEF SessionRow
    <3> QED BY <1>1, <3>1, <3>3, <3>4
  <2>2. \A r, s \in sessions' : r.token = s.token => r = s
    <3>1. \A s \in sessions : s.token # row.token
      BY <1>2, <1>4 DEF Tables, SessionRow
    <3> QED BY <3>1, <1>1, <1>2 DEF Tables
  <2>3. \A s \in sessions' : s.password <= account'[s.user].password
    BY <1>1, <1>2, <1>3, <1>4 DEF Tables
  <2>4. account' \in [User -> AccountRow \cup {NoAccount}]
    BY <1>1, <1>2 DEF Tables
  <2>5. channel' \in [Channel -> ChannelRow \cup {Unmade, Deleted}]
    BY <1>1, <1>2 DEF Tables
  <2>6. tokens' \in Nat
    BY <1>1, <1>2 DEF Tables
  <2> QED BY <2>1, <2>2, <2>3, <2>4, <2>5, <2>6 DEF Tables
<1>6. pc'[t] = "idle" /\ call'[t] = NoCall /\ \A o \in Task \ {t} : pc'[o] = pc[o]
  BY <1>1 DEF Inv, Functional
<1>7. Remembered /\ \A o \in Task : GrowsFor(o)
  <2>1. \A o \in Task : pc'[o] \in InFlight => pc[o] \in InFlight
    BY <1>6 DEF InFlight
  <2> QED BY <2>1, <1>1, <1>5, WatchGrows DEF Inv
<1>8. \A s \in sessions' \ sessions : s.password < renewed[s.user] => s.late
  <2>1. call[t].password < renewed[call[t].user] => call[t].late
    BY <1>1 DEF Inv, Renewed
  <2> QED BY <2>1, <1>1, <1>4
<1>9. CallType(t)' /\ Honest(t)'
  BY <1>6 DEF CallType, Honest, InFlight
<1>10. up /\ requests' \in Nat
  BY <1>1, AtWork, TypeParts DEF Inv, History
<1>11. \A u \in User : account[u].password <= account'[u].password
  BY <1>1, SamePasswords
<1> QED BY <1>1, <1>5, <1>7, <1>8, <1>9, <1>10, <1>11, HandlerStep

\* The answer to a reset: the sessions are gone, and logins in the making are marked late.
LEMMA EndSessionsStep ==
  ASSUME Inv, NEW t \in Task, EndSessions(t)
  PROVE  Inv'
<1> DEFINE v == call[t].user
<1>1. /\ pc[t] = "updated" /\ sessions' = {s \in sessions : s.user # v}
      /\ renewed' = [renewed EXCEPT ![v] = Higher(@, call[t].password)]
      /\ pc' = [pc EXCEPT ![t] = "done"]
      /\ call' = [o \in Task |-> IF pc[o] = "verified" /\ call[o].user = v
                                   THEN [call[o] EXCEPT !.late = TRUE] ELSE call[o]]
      /\ UNCHANGED <<up, account, channel, tokens, requests, stops>> /\ Watch
  BY DEF EndSessions, SessionsKept, Finish
<1>2. /\ up /\ v \in User /\ call[t] \in Request
  BY <1>1, Working
<1>3. Tables /\ History /\ \A o \in Task : CallType(o)
  BY TypeParts DEF Inv
<1>4. call[t].password \in Nat /\ call[t].password <= account[v].password
  BY <1>1, <1>2, <1>3 DEF CallType, Request
<1> HIDE DEF v
<1>5. /\ pc'[t] = "done" /\ call'[t] = call[t]
      /\ \A o \in Task \ {t} : pc'[o] = pc[o]
      /\ \A o \in Task : pc[o] # "verified" => call'[o] = call[o]
      /\ Functional'
  BY <1>1 DEF Inv, Functional
<1>6. ASSUME NEW o \in Task, pc[o] = "verified"
      PROVE  /\ call[o] \in LoginCall /\ call'[o] \in LoginCall
             /\ call'[o].user = call[o].user /\ call'[o].password = call[o].password
             /\ call[o].user = v => call'[o].late
             /\ call[o].late => call'[o].late
  <2>1. call[o] \in LoginCall
    BY <1>3, <1>6 DEF CallType
  <2>2. call'[o] = IF call[o].user = v THEN [call[o] EXCEPT !.late = TRUE] ELSE call[o]
    BY <1>1, <1>6
  <2> QED BY <2>1, <2>2 DEF LoginCall
<1>7. \A u \in User : account[u].password \in Nat /\ renewed[u] \in Nat
  BY <1>3, RoleOfAccount DEF History
<1>8. /\ renewed'[v] \in Nat /\ renewed'[v] <= account[v].password
      /\ \A u \in User \ {v} : renewed'[u] = renewed[u]
      /\ renewed' \in [User -> Nat]
  <2>1. renewed[v] <= account[v].password
    BY <1>2 DEF Inv, Renewed
  <2>2. /\ Higher(renewed[v], call[t].password) \in Nat
        /\ Higher(renewed[v], call[t].password) <= account[v].password
    BY <2>1, <1>2, <1>4, <1>7 DEF Higher
  <2> QED BY <2>2, <1>1, <1>2, <1>3 DEF History
<1>9. Tables'
  <2>1. sessions' \subseteq sessions /\ account' = account /\ channel' = channel /\ tokens' = tokens
    BY <1>1
  <2> QED BY <2>1, <1>3 DEF Tables, SessionRow
<1>10. Remembered /\ \A o \in Task : GrowsFor(o)
  <2>1. \A o \in Task : pc'[o] \in InFlight => pc[o] \in InFlight
    BY <1>5 DEF InFlight
  <2> QED BY <2>1, <1>1, <1>9, WatchGrows DEF Inv
<1>11. TypeOK'
  <2>1. ASSUME NEW o \in Task PROVE CallType(o)'
    <3>1. CASE o = t
      BY <3>1, <1>2, <1>5 DEF CallType
    <3>2. CASE o # t /\ pc[o] = "verified"
      <4>1. /\ pc'[o] = "verified" /\ call'[o] \in LoginCall
            /\ call'[o].user = call[o].user /\ call'[o].password = call[o].password
        BY <3>2, <1>5, <1>6
      <4>2. 0 < call[o].password /\ call[o].password <= account[call[o].user].password
        BY <3>2, <1>3 DEF CallType
      <4> QED BY <4>1, <4>2, <1>1 DEF CallType
    <3>3. CASE o # t /\ pc[o] # "verified"
      <4>1. pc'[o] = pc[o] /\ call'[o] = call[o] /\ CallType(o)
        BY <3>3, <1>3, <1>5
      <4> QED BY <4>1, <3>3, <1>1 DEF CallType
    <3> QED BY <3>1, <3>2, <3>3
  <2>2. History'
    BY <1>1, <1>3, <1>8, <1>10 DEF History, Remembered
  <2> QED BY <2>1, <2>2, <1>9
        DEF TypeOK, Tables, History, CallType, AccountRow, ChannelRow, SessionRow
<1>12. Down'
  BY <1>1, <1>2 DEF Down
<1>13. \A o \in Task : Honest(o)'
  <2>1. ASSUME NEW o \in Task PROVE Honest(o)'
    <3>1. Honest(o) /\ GrowsFor(o)
      BY <1>10 DEF Inv
    <3>2. /\ best[o] \in Role \cup {0} /\ best'[o] \in Role \cup {0}
          /\ least[o] \in Role \cup {0, Nobody} /\ least'[o] \in Role \cup {0, Nobody}
      BY <1>3, <1>10 DEF History, Remembered
    <3>3. pc[o] \in {"checked", "cleared", "updated"} => call[o].role \in Role /\ call[o].role <= best'[o]
      BY <3>1, <3>2, Levels DEF Honest, GrowsFor
    <3>4. pc[o] \in {"cleared", "updated", "done"} => least'[o] <= best'[o]
      BY <3>1, <3>2, Levels DEF Honest, GrowsFor
    <3>5. CASE o = t
      BY <3>4, <3>5, <1>1, <1>5 DEF Honest, InFlight
    <3>6. CASE o # t /\ pc[o] = "verified"
      BY <3>6, <1>5 DEF Honest, InFlight
    <3>7. CASE o # t /\ pc[o] # "verified"
      <4>1. pc'[o] = pc[o] /\ call'[o] = call[o]
        BY <3>7, <1>5
      <4> QED BY <4>1, <3>1, <3>3, <3>4 DEF Honest, GrowsFor
    <3> QED BY <3>5, <3>6, <3>7
  <2> QED BY <2>1
<1>14. Renewed'
  <2>1. \A u \in User : renewed'[u] <= account'[u].password
    BY <1>1, <1>8 DEF Inv, Renewed
  <2>2. ASSUME NEW o \in Task, pc'[o] = "verified", call'[o].password < renewed'[call'[o].user]
        PROVE  call'[o].late
    <3>1. pc[o] = "verified"
      BY <2>2, <1>5
    <3>2. call[o].user \in User
      BY <3>1, <1>6 DEF LoginCall
    <3>3. CASE call[o].user = v
      BY <3>1, <3>3, <1>6
    <3>4. CASE call[o].user # v
      <4>1. call[o].password < renewed[call[o].user]
        BY <2>2, <3>1, <3>2, <3>4, <1>6, <1>8
      <4>2. call[o].late
        BY <4>1, <3>1 DEF Inv, Renewed
      <4> QED BY <4>2, <3>1, <1>6
    <3> QED BY <3>3, <3>4
  <2> QED BY <2>1, <2>2 DEF Renewed
<1>15. Revoked'
  <2>1. ASSUME NEW s \in sessions', s.password < renewed'[s.user] PROVE s.late
    <3>1. s \in sessions /\ s.user # v /\ s.user \in User
      BY <2>1, <1>1, <1>3 DEF Tables, SessionRow
    <3>2. s.password < renewed[s.user]
      BY <2>1, <3>1, <1>8
    <3> QED BY <3>1, <3>2 DEF Inv, Revoked
  <2> QED BY <2>1 DEF Revoked
<1> QED
  BY <1>5, <1>11, <1>12, <1>13, <1>14, <1>15 DEF Inv

-----------------------------------------------------------------------------
(* The steps that are no request's. *)

LEMMA QuietStep ==
  ASSUME Inv, UNCHANGED <<channel, pc, call, history>>, up' \in BOOLEAN, Down',
         Tables', sessions' \subseteq sessions,
         \A u \in User : account[u].password <= account'[u].password,
         \A o \in Task : GrowsFor(o)
  PROVE  Inv'
<1>1. /\ channel' = channel /\ pc' = pc /\ call' = call
      /\ UNCHANGED <<tokens, requests, renewed, best, least, stops>>
  BY DEF history
<1>2. \A u \in User : account[u].password \in Nat /\ renewed[u] \in Nat
  BY TypeParts, RoleOfAccount DEF Inv, History
<1>3. \A u \in User : account'[u].password \in Nat
  <2>1. ASSUME NEW u \in User PROVE account'[u].password \in Nat
    <3>1. account'[u] \in AccountRow \/ account'[u] = NoAccount
      BY DEF Tables
    <3> QED BY <3>1 DEF AccountRow, NoAccount
  <2> QED BY <2>1
<1>4. TypeOK'
  <2>1. ASSUME NEW u \in Task PROVE CallType(u)'
    <3>1. CallType(u)
      BY TypeParts DEF Inv
    <3>2. call[u] \in Request \cup LoginCall => call[u].user \in User /\ call[u].password \in Nat
      BY DEF Request, LoginCall
    <3> QED BY <3>1, <3>2, <1>1, <1>2, <1>3 DEF CallType
  <2>2. History'
    BY <1>1, TypeParts DEF Inv, History
  <2> QED BY <2>1, <2>2 DEF TypeOK, Tables, History, CallType, AccountRow, ChannelRow, SessionRow
<1>5. \A o \in Task : Honest(o)'
  <2>1. ASSUME NEW o \in Task PROVE Honest(o)'
    <3>1. Honest(o) /\ GrowsFor(o)
      BY DEF Inv
    <3> QED BY <3>1, <1>1 DEF Honest, GrowsFor
  <2> QED BY <2>1
<1>6. Renewed'
  <2>1. \A u \in User : renewed'[u] <= account'[u].password
    <3>1. ASSUME NEW u \in User PROVE renewed[u] <= account'[u].password
      <4>1. renewed[u] <= account[u].password
        BY DEF Inv, Renewed
      <4> QED BY <4>1, <1>2, <1>3
    <3> QED BY <3>1, <1>1
  <2> QED BY <2>1, <1>1 DEF Inv, Renewed
<1>7. Revoked' /\ Functional'
  BY <1>1 DEF Inv, Revoked, Functional
<1> QED
  BY <1>4, <1>5, <1>6, <1>7 DEF Inv

LEMMA ExpireStep ==
  ASSUME Inv, NEW s \in sessions, Expire(s)
  PROVE  Inv'
<1>1. /\ sessions' = sessions \ {s} /\ UNCHANGED <<up, account, channel, pc, call, history>>
      /\ UNCHANGED <<tokens, best, least>>
  BY DEF Expire, history
<1>2. Tables
  BY TypeParts DEF Inv
<1>3. Tables'
  BY <1>1, <1>2 DEF Tables, SessionRow
<1>4. \A token : /\ Standing(token, sessions', account') \in Role \cup {0}
                 /\ Standing(token, sessions', account') <= Standing(token, sessions, account)
  <2>1. ASSUME NEW token
        PROVE  \/ Standing(token, sessions', account') = Standing(token, sessions, account)
               \/ Standing(token, sessions', account') = 0
    <3>1. CASE \E r \in sessions' : r.token = token
      <4>1. PICK r \in sessions' : r.token = token
        BY <3>1
      <4>2. (CHOOSE z \in sessions' : z.token = token) = r
        <5>1. \A z \in sessions' : z.token = token => z = r
          BY <4>1, <1>3 DEF Tables
        <5> QED BY <4>1, <5>1
      <4>3. (CHOOSE z \in sessions : z.token = token) = r
        <5>1. r \in sessions /\ \A z \in sessions : z.token = token => z = r
          BY <4>1, <1>1, <1>2 DEF Tables
        <5> QED BY <4>1, <5>1
      <4>4. \E z \in sessions : z.token = token
        BY <4>1, <1>1
      <4> QED BY <3>1, <4>2, <4>3, <4>4, <1>1 DEF Standing
    <3>2. CASE ~\E r \in sessions' : r.token = token
      BY <3>2 DEF Standing
    <3> QED BY <3>1, <3>2
  <2>2. \A token : Standing(token, sessions, account) \in Role \cup {0}
    BY <1>2, StandingNow
  <2> QED BY <2>1, <2>2, Levels
<1>5. \A o \in Task : GrowsFor(o)
  <2>1. ASSUME NEW o \in Task PROVE GrowsFor(o)
    BY <1>1, <1>4, StillGrows
  <2> QED BY <2>1
<1>6. \A u \in User : account[u].password <= account'[u].password
  BY <1>1, SamePasswords
<1>7. up' \in BOOLEAN /\ Down'
  BY <1>1, TypeParts DEF Inv, History, Down
<1> QED BY <1>1, <1>3, <1>5, <1>6, <1>7, QuietStep

LEMMA StartStep ==
  ASSUME Inv, Start
  PROVE  Inv'
<1> DEFINE row == [role |-> Admin, password |-> 1]
           empty == \A u \in User : account[u] = NoAccount
<1>1. /\ ~up /\ up' = TRUE
      /\ account' = IF empty THEN [account EXCEPT ![Operator] = row] ELSE account
      /\ UNCHANGED <<sessions, channel, pc, call, history>>
      /\ UNCHANGED <<tokens, best, least>>
  BY DEF Start, history
<1>2. Tables /\ History
  BY TypeParts DEF Inv
<1>3. row \in AccountRow /\ row.password = 1
  BY Levels DEF AccountRow
<1>4. empty => sessions = {}
  <2>1. ASSUME NEW s \in sessions, empty PROVE FALSE
    <3>1. s.user \in User /\ s.password \in Nat \ {0} /\ s.password <= account[s.user].password
      BY <1>2 DEF Tables, SessionRow
    <3>2. account[s.user].password = 0
      BY <2>1, <3>1 DEF NoAccount
    <3> QED BY <3>1, <3>2
  <2> QED BY <2>1
<1>5. empty => \A u \in User : account[u].password = 0
  BY DEF NoAccount
<1> HIDE DEF row
<1>6. /\ empty => /\ \A u \in User : account'[u] = IF u = Operator THEN row ELSE account[u]
                  /\ account' \in [User -> AccountRow \cup {NoAccount}]
      /\ ~empty => account' = account
  BY <1>1, <1>2, <1>3, OperatorAssumption DEF Tables
<1> HIDE DEF empty
<1>7. Tables'
  <2>1. CASE empty
    BY <2>1, <1>1, <1>2, <1>4, <1>6 DEF Tables, ChannelRow, AccountRow, SessionRow
  <2>2. CASE ~empty
    BY <2>2, <1>1, <1>2, <1>6 DEF Tables, ChannelRow, AccountRow, SessionRow
  <2> QED BY <2>1, <2>2
<1>8. \A u \in User : account[u].password <= account'[u].password
  <2>1. \A u \in User : account[u].password \in Nat
    BY <1>2, RoleOfAccount
  <2>2. CASE empty
    BY <2>1, <2>2, <1>3, <1>5, <1>6
  <2>3. CASE ~empty
    BY <2>1, <2>3, <1>6
  <2> QED BY <2>2, <2>3
<1>9. \A o \in Task : GrowsFor(o)
  <2>1. ASSUME NEW o \in Task PROVE GrowsFor(o)
    <3>1. pc'[o] \notin InFlight
      BY <1>1 DEF Inv, Down, InFlight
    <3>2. best[o] <= best[o] /\ least[o] <= least[o]
      BY <1>2, Levels DEF History
    <3> QED BY <3>1, <3>2, <1>1 DEF GrowsFor
  <2> QED BY <2>1
<1>10. up' \in BOOLEAN /\ Down'
  BY <1>1 DEF Down
<1> QED BY <1>1, <1>7, <1>8, <1>9, <1>10, QuietStep

LEMMA StopStep ==
  ASSUME Inv, Stop
  PROVE  Inv'
<1>1. /\ up' = FALSE /\ stops' = stops + 1
      /\ pc' = [t \in Task |-> "idle"] /\ call' = [t \in Task |-> NoCall]
      /\ UNCHANGED <<account, sessions, channel, tokens, requests, renewed, best, least>>
  BY DEF Stop, database
<1>2. Tables /\ History
  BY TypeParts DEF Inv
<1>3. \A t \in Task : pc'[t] = "idle" /\ call'[t] = NoCall
  BY <1>1
<1>4. TypeOK'
  <2>1. Tables'
    BY <1>1, <1>2 DEF Tables, SessionRow
  <2>2. History'
    <3>1. up' \in BOOLEAN
      BY <1>1
    <3> QED BY <3>1, <1>1, <1>2 DEF History
  <2>3. \A t \in Task : CallType(t)'
    BY <1>3 DEF CallType
  <2> QED BY <2>1, <2>2, <2>3
        DEF TypeOK, Tables, History, CallType, AccountRow, ChannelRow, SessionRow
<1>5. \A t \in Task : Honest(t)'
  BY <1>3 DEF Honest, InFlight
<1>6. Down' /\ Functional'
  BY <1>1, <1>3 DEF Down, Functional
<1>7. Renewed' /\ Revoked'
  BY <1>1, <1>3 DEF Inv, Renewed, Revoked
<1> QED
  BY <1>4, <1>5, <1>6, <1>7 DEF Inv

-----------------------------------------------------------------------------

LEMMA InvInit ==
  ASSUME Init
  PROVE  Inv
<1>1. TypeOK
  <2>1. Tables
    BY DEF Init, Tables
  <2>2. History
    <3>1. 0 \in Role \cup {0} /\ 0 \in Role \cup {0, Nobody}
      OBVIOUS
    <3>2. best \in [Task -> Role \cup {0}] /\ least \in [Task -> Role \cup {0, Nobody}]
      BY <3>1 DEF Init
    <3> QED BY <3>2 DEF Init, History
  <2>3. \A t \in Task : CallType(t)
    BY DEF Init, CallType
  <2> QED BY <2>1, <2>2, <2>3, TypeParts
<1>2. Functional /\ Down
  BY DEF Init, Functional, Down
<1>3. \A t \in Task : Honest(t)
  BY DEF Init, Honest, InFlight
<1>4. Renewed /\ Revoked
  BY DEF Init, Renewed, Revoked, NoAccount
<1> QED BY <1>1, <1>2, <1>3, <1>4 DEF Inv

LEMMA InvNext ==
  ASSUME Inv, [Next]_vars
  PROVE  Inv'
<1>1. CASE Start \/ Stop
  BY <1>1, StartStep, StopStep
<1>2. CASE \E s \in sessions : Expire(s)
  BY <1>2, ExpireStep
<1>3. ASSUME NEW t \in Task, OpenSession(t) \/ Authenticate(t) \/ LogOut(t) \/ EndSessions(t)
      PROVE  Inv'
  BY <1>3, OpenSessionStep, AuthenticateStep, LogOutStep, EndSessionsStep
<1>4. ASSUME NEW t \in Task,
             Unauthorized(t) \/ Forbidden(t) \/ BelowThreshold(t) \/ InsertFails(t)
      PROVE  Inv'
  BY <1>4, RefusalsStep
<1>5. ASSUME NEW t \in Task, Clear(t) \/ Insert(t) \/ SelectMessages(t) \/ SelectChannels(t)
      PROVE  Inv'
  BY <1>5, MessagesStep
<1>6. ASSUME NEW t \in Task, NEW u \in User, LogIn(t, u) \/ SetPassword(t, u)
      PROVE  Inv'
  BY <1>6, LogInStep, SetPasswordStep
<1>7. ASSUME NEW t \in Task, NEW u \in User, NEW role \in Role,
             CreateUser(t, u, role) \/ SetRole(t, u, role)
      PROVE  Inv'
  BY <1>7, CreateUserStep, SetRoleStep
<1>8. ASSUME NEW t \in Task,
             DeleteChannel(t) \/ \E role \in Role : SetMinPostRole(t, role) \/ SetMinReadRole(t, role)
      PROVE  Inv'
  BY <1>8, SetChannelStep
<1>9. ASSUME NEW t \in Task, NEW c \in Channel, NEW post \in Role, NEW read \in Role,
             CreateChannel(t, c, post, read)
      PROVE  Inv'
  BY <1>9, CreateChannelStep
<1>10. ASSUME NEW t \in Task, NEW token \in 1 .. tokens, NEW op \in Op, NEW c \in Channel,
              Receive(t, token, op, c)
       PROVE  Inv'
  BY <1>10, ReceiveStep
<1>11. CASE UNCHANGED vars
  <2>1. UNCHANGED <<up, account, sessions, channel, pc, call,
                    tokens, requests, renewed, best, least, stops>>
    BY <1>11 DEF vars, database, history
  <2>2. TypeOK'
    BY <2>1 DEF Inv, TypeOK
  <2>3. Functional' /\ Down' /\ Renewed' /\ Revoked' /\ \A t \in Task : Honest(t)'
    BY <2>1 DEF Inv, Functional, Down, Renewed, Revoked, Honest
  <2> QED BY <2>2, <2>3 DEF Inv
<1> QED
  BY <1>1, <1>2, <1>3, <1>4, <1>5, <1>6, <1>7, <1>8, <1>9, <1>10, <1>11 DEF Next

LEMMA AlwaysInv == Spec => []Inv
<1>1. Init => Inv
  BY InvInit
<1>2. Inv /\ [Next]_vars => Inv'
  BY InvNext
<1> QED BY <1>1, <1>2, PTL DEF Spec

\* Every table holds rows, and every request is where its handler can be, whatever runs at
\* once and wherever the server stops (app.rs, auth/mod.rs).
THEOREM AccountsTypeCorrect == Spec => []TypeOK
<1>1. Inv => TypeOK
  BY DEF Inv
<1> QED BY <1>1, AlwaysInv, PTL

\* A password reset that was answered leaves no session of an earlier password, but for one
\* whose login raced it (admin.rs, reset_password).
THEOREM SessionsRevoked == Spec => []Revoked
<1>1. Inv => Revoked
  BY DEF Inv
<1> QED BY <1>1, AlwaysInv, PTL

\* A request that did its work was its caller's to make at some time since it came in,
\* however roles, thresholds and sessions changed between its queries (middleware and
\* handlers).
THEOREM RequestsAllowed == Spec => []Allowed
<1>1. Inv => Allowed
  <2> SUFFICES ASSUME Inv, NEW t \in Task, pc[t] = "done"
               PROVE  best[t] >= least[t]
    BY DEF Allowed
  <2>1. least[t] <= best[t]
    BY DEF Inv, Honest
  <2>2. best[t] \in Role \cup {0} /\ least[t] \in Role \cup {0, Nobody}
    BY TypeParts DEF Inv, History
  <2> QED BY <2>1, <2>2, Levels
<1> QED BY <1>1, AlwaysInv, PTL
=============================================================================
