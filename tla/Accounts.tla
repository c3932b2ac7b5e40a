------------------------------ MODULE Accounts ------------------------------
(***************************************************************************)
(* The accounts, sessions and channel thresholds of the Pabianice OS       *)
(* server (pabianice-os/server): login, logout, the session middleware,    *)
(* the handlers that an administrator calls and the two that read and      *)
(* write messages.  Requests run at once; every query of a handler is a    *)
(* step of its own, and what it returned is used later as it was then.     *)
(* There are no transactions, so a stop of the process between two queries *)
(* leaves the first one's change.                                          *)
(*                                                                         *)
(* An answer that refuses changes nothing; a request that got one is idle  *)
(* again.  Messages themselves are left out: a post or a list that went    *)
(* through ends in "done".                                                 *)
(***************************************************************************)
EXTENDS Naturals, FiniteSets, TLC

CONSTANTS
  User,
  Operator,     \* the name in ADMIN_BOOTSTRAP_USERNAME
  Channel,      \* channel identifiers: each is given out once
  Task,         \* the requests at work at once
  MaxTokens,    \* bound on sessions ever opened
  MaxRequests,  \* bound on authenticated requests
  MaxPasswords, \* bound on the passwords an account has had
  MaxStops      \* bound on stops of the server

ASSUME OperatorAssumption == Operator \in User
ASSUME BoundAssumption == {MaxTokens, MaxRequests, MaxPasswords, MaxStops} \subseteq Nat

\* roles.rs: the order of the variants is the order of the levels.
Member == 1
Moderator == 2
Admin == 3
Role == Member .. Admin

VARIABLES
  up,           \* the server runs
  \* the database
  account,      \* account[u]: role and password of u's row, NoAccount if none
  sessions,     \* the rows of table sessions that have not expired
  channel,      \* channel[c]: the thresholds of c's row
  \* the requests
  pc,           \* pc[t]: where t is
  call,         \* call[t]: what t is and what its queries returned
  \* history
  tokens,       \* sessions opened
  requests,
  renewed,      \* renewed[u]: the last password of u whose reset was answered
  best,         \* best[t]: the highest role the caller's session stood for so far
  least,        \* least[t]: the lowest threshold of what t asks for so far
  stops

database == <<account, sessions, channel>>
history  == <<tokens, requests, renewed, best, least, stops>>
vars     == <<up, database, pc, call, history>>

NoAccount == [role |-> 0, password |-> 0]
\* A channel not created yet, and one deleted: nobody is above its thresholds.
Nobody == Admin + 1
Unmade == [post |-> Nobody, read |-> Nobody, made |-> FALSE]
Deleted == [Unmade EXCEPT !.made = TRUE]

Op == {"post", "read", "list", "create_user", "set_role", "reset_password", "logout",
       "create_channel", "delete_channel", "set_min_post_role", "set_min_read_role"}
NoCall == [op |-> "none"]

InFlight == {"received", "checked", "cleared", "updated"}

-----------------------------------------------------------------------------
(* What a session stands for, and what a request needs. *)

\* The type in the database lists admin first.
HasAtLeastInSqlOrder(role, min) == role <= min
HasAtLeast(role, min) == role >= min

\* rows_affected() == 0, a row not found, a foreign key that refers to nothing.
ExistsUnchecked(c) == TRUE
Exists(c) == channel[c].post # Nobody

Standing(token, rows, users) ==
  IF \E s \in rows : s.token = token
    THEN users[(CHOOSE s \in rows : s.token = token).user].role ELSE 0

Threshold(c, op, rows) ==
  CASE op = "post" -> rows[c].post
    [] op \in {"read", "list"} -> rows[c].read
    [] op = "logout" -> Member
    [] OTHER -> Admin

Higher(a, b) == IF a >= b THEN a ELSE b
Lower(a, b) == IF a <= b THEN a ELSE b

\* Every request still at work after the step has lived through what the step made.
Watch ==
  /\ best' = [t \in Task |-> IF pc'[t] \in InFlight
                THEN Higher(best[t], Standing(call[t].token, sessions', account')) ELSE best[t]]
  /\ least' = [t \in Task |-> IF pc'[t] \in InFlight
                 THEN Lower(least[t], Threshold(call[t].channel, call[t].op, channel')) ELSE least[t]]

-----------------------------------------------------------------------------
(* login, logout and require_session. *)

Free(t) == up /\ pc[t] \in {"idle", "done"}

\* select id, password_hash, role; verify_password: only the password of now goes on.
LogIn(t, u) ==
  /\ Free(t)
  /\ account[u] # NoAccount
  /\ tokens < MaxTokens
  /\ pc' = [pc EXCEPT ![t] = "verified"]
  /\ call' = [call EXCEPT ![t] = [op |-> "login", user |-> u, password |-> account[u].password,
                                  late |-> FALSE]]
  /\ UNCHANGED <<up, database, history>>

\* insert into sessions, under a random token.
OpenSession(t) ==
  /\ pc[t] = "verified"
  /\ tokens < MaxTokens
  /\ tokens' = tokens + 1
  /\ sessions' = sessions \cup {[token |-> tokens', user |-> call[t].user,
                                 password |-> call[t].password, late |-> call[t].late]}
  /\ pc' = [pc EXCEPT ![t] = "idle"]
  /\ call' = [call EXCEPT ![t] = NoCall]
  /\ UNCHANGED <<up, account, channel, requests, renewed, stops>>
  /\ Watch

\* A request comes in with a token that was once given out.
Receive(t, token, op, c) ==
  /\ Free(t)
  /\ requests < MaxRequests
  /\ requests' = requests + 1
  /\ pc' = [pc EXCEPT ![t] = "received"]
  /\ call' = [call EXCEPT ![t] = [op |-> op, token |-> token, channel |-> c,
                                  user |-> Operator, role |-> 0, password |-> 0]]
  /\ best' = [best EXCEPT ![t] = Standing(token, sessions, account)]
  /\ least' = [least EXCEPT ![t] = Threshold(c, op, channel)]
  /\ UNCHANGED <<up, database, tokens, renewed, stops>>

Refuse(t) ==
  /\ pc' = [pc EXCEPT ![t] = "idle"]
  /\ call' = [call EXCEPT ![t] = NoCall]
  /\ UNCHANGED <<up, database, history>>

\* require_session: the role is read here, once, for the whole request.
Authenticate(t) ==
  /\ pc[t] = "received"
  /\ \E s \in sessions :
       /\ s.token = call[t].token
       /\ call' = [call EXCEPT ![t].user = s.user, ![t].role = account[s.user].role]
  /\ pc' = [pc EXCEPT ![t] = "checked"]
  /\ UNCHANGED <<up, database, history>>

Unauthorized(t) ==
  /\ pc[t] = "received"
  /\ \A s \in sessions : s.token # call[t].token
  /\ Refuse(t)

Finish(t) == pc' = [pc EXCEPT ![t] = "done"]

LogOut(t) ==
  /\ pc[t] = "checked" /\ call[t].op = "logout"
  /\ sessions' = {s \in sessions : s.token # call[t].token}
  /\ Finish(t)
  /\ UNCHANGED <<up, account, channel, call, tokens, requests, renewed, stops>>
  /\ Watch

\* expires_at passes.
Expire(s) ==
  /\ s \in sessions
  /\ sessions' = sessions \ {s}
  /\ UNCHANGED <<up, account, channel, pc, call, history>>

-----------------------------------------------------------------------------
(* The handlers of an administrator.  An update of a row that is not there *)
(* is NotFound; accounts are never deleted.                                *)

\* user.require(Role::Admin), then the handler's query.
AsAdmin(t, op) ==
  /\ pc[t] = "checked" /\ call[t].op = op
  /\ HasAtLeast(call[t].role, Admin)

CreateUser(t, u, role) ==
  /\ AsAdmin(t, "create_user")
  /\ account[u] = NoAccount
  /\ account' = [account EXCEPT ![u] = [role |-> role, password |-> 1]]
  /\ Finish(t)
  /\ UNCHANGED <<up, sessions, channel, call, tokens, requests, renewed, stops>>
  /\ Watch

SetRole(t, u, role) ==
  /\ AsAdmin(t, "set_role")
  /\ account[u] # NoAccount
  /\ account' = [account EXCEPT ![u].role = role]
  /\ Finish(t)
  /\ UNCHANGED <<up, sessions, channel, call, tokens, requests, renewed, stops>>
  /\ Watch

\* reset_password, its first query: the new hash.
SetPassword(t, u) ==
  /\ AsAdmin(t, "reset_password")
  /\ account[u] # NoAccount
  /\ account[u].password < MaxPasswords
  /\ account' = [account EXCEPT ![u].password = @ + 1]
  /\ pc' = [pc EXCEPT ![t] = "updated"]
  /\ call' = [call EXCEPT ![t].user = u, ![t].password = account'[u].password]
  /\ UNCHANGED <<up, sessions, channel, history>>

AllSessions(u) == sessions
SessionsKept(u) == {s \in sessions : s.user # u}

\* reset_password, its second query.  A login between its own two queries goes on.
EndSessions(t) ==
  /\ pc[t] = "updated"
  /\ sessions' = SessionsKept(call[t].user)
  /\ renewed' = [renewed EXCEPT ![call[t].user] = Higher(@, call[t].password)]
  /\ Finish(t)
  /\ call' = [o \in Task |-> IF pc[o] = "verified" /\ call[o].user = call[t].user
                               THEN [call[o] EXCEPT !.late = TRUE] ELSE call[o]]
  /\ UNCHANGED <<up, account, channel, tokens, requests, stops>>
  /\ Watch

\* create_channel: under an identifier that no channel has had.
CreateChannel(t, c, post, read) ==
  /\ AsAdmin(t, "create_channel")
  /\ channel[c] = Unmade
  /\ channel' = [channel EXCEPT ![c] = [post |-> post, read |-> read, made |-> TRUE]]
  /\ Finish(t)
  /\ UNCHANGED <<up, account, sessions, call, tokens, requests, renewed, stops>>
  /\ Watch

\* delete_channel, set_min_post_role and set_min_read_role.
SetChannel(t, op, new) ==
  /\ AsAdmin(t, op)
  /\ Exists(call[t].channel)
  /\ channel' = [channel EXCEPT ![call[t].channel] = new]
  /\ Finish(t)
  /\ UNCHANGED <<up, account, sessions, call, tokens, requests, renewed, stops>>
  /\ Watch

DeleteChannel(t) == SetChannel(t, "delete_channel", Deleted)

SetMinPostRole(t, role) ==
  SetChannel(t, "set_min_post_role", [channel[call[t].channel] EXCEPT !.post = role])

SetMinReadRole(t, role) ==
  SetChannel(t, "set_min_read_role", [channel[call[t].channel] EXCEPT !.read = role])

\* Forbidden, Conflict or NotFound.
Forbidden(t) ==
  /\ pc[t] = "checked"
  /\ call[t].op \notin {"post", "read", "list", "logout"}
  /\ \/ ~HasAtLeast(call[t].role, Admin)
     \/ call[t].op = "create_user" /\ \E u \in User : account[u] # NoAccount
     \/ call[t].op \in {"set_role", "reset_password"} /\ \E u \in User : account[u] = NoAccount
     \/ /\ call[t].op \in {"delete_channel", "set_min_post_role", "set_min_read_role"}
        /\ ~Exists(call[t].channel)
  /\ Refuse(t)

-----------------------------------------------------------------------------
(* post_message, list_messages and list_channels. *)

\* The threshold is read and compared before the rows are touched.
Clear(t) ==
  /\ pc[t] = "checked" /\ call[t].op \in {"post", "read"}
  /\ HasAtLeast(call[t].role, Threshold(call[t].channel, call[t].op, channel))
  /\ pc' = [pc EXCEPT ![t] = "cleared"]
  /\ UNCHANGED <<up, database, call, history>>

BelowThreshold(t) ==
  /\ pc[t] = "checked" /\ call[t].op \in {"post", "read", "list"}
  /\ ~HasAtLeast(call[t].role, Threshold(call[t].channel, call[t].op, channel))
  /\ Refuse(t)

\* insert into channel_messages: its channel must still be there.
Insert(t) ==
  /\ pc[t] = "cleared" /\ call[t].op = "post"
  /\ Exists(call[t].channel)
  /\ Finish(t)
  /\ UNCHANGED <<up, database, call, history>>

InsertFails(t) ==
  /\ pc[t] = "cleared" /\ call[t].op = "post"
  /\ ~Exists(call[t].channel)
  /\ Refuse(t)

SelectMessages(t) ==
  /\ pc[t] = "cleared" /\ call[t].op = "read"
  /\ Finish(t)
  /\ UNCHANGED <<up, database, call, history>>

\* list_channels: one query, filtered by the role of the request.
SelectChannels(t) ==
  /\ pc[t] = "checked" /\ call[t].op = "list"
  /\ HasAtLeast(call[t].role, Threshold(call[t].channel, "list", channel))
  /\ Finish(t)
  /\ UNCHANGED <<up, database, call, history>>

-----------------------------------------------------------------------------
(* The process: bootstrap_admin runs before it listens. *)

Start ==
  /\ ~up
  /\ up' = TRUE
  /\ account' = IF \A u \in User : account[u] = NoAccount
                  THEN [account EXCEPT ![Operator] = [role |-> Admin, password |-> 1]] ELSE account
  /\ UNCHANGED <<sessions, channel, pc, call, history>>

Stop ==
  /\ up /\ stops < MaxStops
  /\ up' = FALSE
  /\ stops' = stops + 1
  /\ pc' = [t \in Task |-> "idle"]
  /\ call' = [t \in Task |-> NoCall]
  /\ UNCHANGED <<database, tokens, requests, renewed, best, least>>

Init ==
  /\ up = FALSE
  /\ account = [u \in User |-> NoAccount]
  /\ sessions = {}
  /\ channel = [c \in Channel |-> Unmade]
  /\ pc = [t \in Task |-> "idle"]
  /\ call = [t \in Task |-> NoCall]
  /\ tokens = 0 /\ requests = 0 /\ stops = 0
  /\ renewed = [u \in User |-> 0]
  /\ best = [t \in Task |-> 0]
  /\ least = [t \in Task |-> 0]

Next ==
  \/ Start \/ Stop
  \/ \E s \in sessions : Expire(s)
  \/ \E t \in Task :
       \/ OpenSession(t) \/ Authenticate(t) \/ Unauthorized(t) \/ LogOut(t)
       \/ EndSessions(t) \/ DeleteChannel(t) \/ Forbidden(t)
       \/ Clear(t) \/ BelowThreshold(t) \/ Insert(t) \/ InsertFails(t)
       \/ SelectMessages(t) \/ SelectChannels(t)
       \/ \E u \in User : LogIn(t, u) \/ SetPassword(t, u)
       \/ \E u \in User, role \in Role : CreateUser(t, u, role) \/ SetRole(t, u, role)
       \/ \E role \in Role : SetMinPostRole(t, role) \/ SetMinReadRole(t, role)
       \/ \E c \in Channel, post \in Role, read \in Role : CreateChannel(t, c, post, read)
       \/ \E token \in 1 .. tokens, op \in Op, c \in Channel : Receive(t, token, op, c)

Spec == Init /\ [][Next]_vars

\* The requests are alike (TLC: symmetry).
Alike == Permutations(Task)

-----------------------------------------------------------------------------
Request == [op : Op, token : Nat, channel : Channel, user : User, role : Role \cup {0},
            password : Nat]
LoginCall == [op : {"login"}, user : User, password : Nat, late : BOOLEAN]

\* A row of each table, a call where its handler can be, and no session of an account that
\* is not there or of a password not set yet.
TypeOK ==
  /\ up \in BOOLEAN
  /\ account \in [User -> [role : Role, password : Nat \ {0}] \cup {NoAccount}]
  /\ channel \in [Channel -> [post : Role, read : Role, made : {TRUE}] \cup {Unmade, Deleted}]
  /\ tokens \in Nat /\ requests \in Nat /\ stops \in Nat
  /\ renewed \in [User -> Nat]
  /\ best \in [Task -> Role \cup {0}]
  /\ least \in [Task -> Role \cup {0, Nobody}]
  /\ sessions \subseteq [token : 1 .. tokens, user : User, password : Nat \ {0}, late : BOOLEAN]
  /\ \A s \in sessions : s.password <= account[s.user].password
  /\ \A s, r \in sessions : s.token = r.token => s = r
  /\ \A t \in Task :
       \/ pc[t] = "idle" /\ call[t] = NoCall
       \/ /\ pc[t] = "verified" /\ call[t] \in LoginCall
          /\ 0 < call[t].password /\ call[t].password <= account[call[t].user].password
       \/ pc[t] \in {"received", "checked", "done"} /\ call[t] \in Request
       \/ pc[t] = "cleared" /\ call[t] \in Request /\ call[t].op \in {"post", "read"}
       \/ /\ pc[t] = "updated" /\ call[t] \in Request
          /\ call[t].op = "reset_password"
          /\ call[t].password <= account[call[t].user].password

\* Once a reset of a password was answered, no session opened with an earlier password is
\* left, but for those whose login had read the old hash before the reset and made its row
\* after (users.rs: a change of the password ends every session at once).
Revoked ==
  \A s \in sessions : s.password < renewed[s.user] => s.late

\* Whatever changed between its queries, a request that did its work was its caller's to
\* make: some time since it came in its session was alive and stood for a role that some
\* time since it came in was enough.  Not one moment: the role is read before the threshold.
Allowed ==
  \A t \in Task : pc[t] = "done" => best[t] >= least[t]
=============================================================================
