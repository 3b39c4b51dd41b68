------------------------------ MODULE Accounts ------------------------------
(* Logging in (src/backend/src/routes/auth.ts, repositories/               *)
(* user.repository.ts, database/schema.sql): by GitHub or by a demo name,  *)
(* several at once.  A login looks for its row, creates it, or takes the   *)
(* row that somebody else created in between; the token names the row.     *)
EXTENDS Integers, FiniteSets

CONSTANTS
    Logins,         \* [name, email, github] of those who log in; github = "none" for a demo name
    Attempts        \* bound: the logins, numbered; a row gets the number of its creator as id

VARIABLES
    users,          \* the rows [id, name, email, github]
    attempt         \* [login, step, id] of each login that has begun; history: raced, somebody
                    \* else created a row after it had found none

accountVars == <<users, attempt>>

NotBegun == [step |-> "not begun"]
Demo(l) == l.github = "none"
To(a, step, id) == attempt' = [attempt EXCEPT ![a].step = step, ![a].id = id]

-----------------------------------------------------------------------------
Init == users = {} /\ attempt = [a \in Attempts |-> NotBegun]

(* A demo name is posted; or GitHub has told name, primary email and id. *)
Begin(a, l) ==
    /\ attempt[a] = NotBegun
    /\ attempt' = [attempt EXCEPT ![a] = [login |-> l, step |-> "find", id |-> 0, raced |-> FALSE]]
    /\ UNCHANGED users

(* findByUsernameOrEmail, findByGithubIdOrEmail: the first of the rows the *)
(* database returns, in no particular order. *)
MatchesByName(l) ==   \* a mutant: the email is not asked for
    {u \in users : IF Demo(l) THEN u.name = l.name \/ u.email = l.email ELSE u.github = l.github}
Matches(l) == {u \in users : u.email = l.email \/ IF Demo(l) THEN u.name = l.name ELSE u.github = l.github}
Find(a) ==
    LET l == attempt[a].login IN
    /\ attempt[a].step = "find"
    /\ \/ Matches(l) = {} /\ To(a, "create", 0)
       \/ \E u \in Matches(l) : To(a, IF Demo(l) THEN "token" ELSE "update", u.id)
    /\ UNCHANGED users

(* createUser: username, email and github_id are UNIQUE. *)
Taken(l, others) ==
    \E u \in others : u.name = l.name \/ u.email = l.email \/ (u.github = l.github /\ ~Demo(l))
Create(a) ==
    LET l == attempt[a].login IN
    /\ attempt[a].step = "create"
    /\ IF Taken(l, users)
       THEN users' = users /\ To(a, IF Demo(l) THEN "find by name" ELSE "failed", 0)
       ELSE /\ users' = users \cup {[id |-> a, name |-> l.name, email |-> l.email, github |-> l.github]}
            /\ attempt' = [b \in Attempts |->
                   CASE b = a -> [attempt[b] EXCEPT !.step = "token", !.id = a]
                     [] b # a /\ attempt[b].step = "create" -> [attempt[b] EXCEPT !.raced = TRUE]
                     [] OTHER -> attempt[b]]

(* 23505 of a demo name: somebody else was faster. *)
FindByUsername(a) ==
    LET found == {u \in users : u.name = attempt[a].login.name} IN
    /\ attempt[a].step = "find by name"
    /\ \/ found = {} /\ To(a, "failed", 0)
       \/ \E u \in found : To(a, "token", u.id)
    /\ UNCHANGED users

(* updateGithubInfo, which github_id's UNIQUE may refuse. *)
UpdateGithubInfo(a) ==
    LET l == attempt[a].login
        id == attempt[a].id
        refused == \E u \in users : u.github = l.github /\ u.id # id
    IN
    /\ attempt[a].step = "update"
    /\ users' = IF refused THEN users
                ELSE {IF u.id = id THEN [u EXCEPT !.github = l.github] ELSE u : u \in users}
    /\ To(a, IF refused THEN "failed" ELSE "token", id)

Next == \E a \in Attempts :
            (\E l \in Logins : Begin(a, l)) \/ Find(a) \/ Create(a) \/ FindByUsername(a) \/ UpdateGithubInfo(a)

Spec == Init /\ [][Next]_accountVars

-----------------------------------------------------------------------------
TypeOK ==
    /\ users \subseteq [id : Attempts, name : {l.name : l \in Logins}, email : {l.email : l \in Logins},
                        github : {l.github : l \in Logins}]
    /\ \A a \in Attempts : attempt[a] = NotBegun \/
          /\ attempt[a].login \in Logins /\ attempt[a].id \in Attempts \cup {0}
          /\ attempt[a].step \in {"find", "create", "find by name", "update", "token", "failed"}

(* Whoever logs in twice, even at once and for the first time, gets one    *)
(* account, a row of his own, unless two rows claim him: one by name or    *)
(* GitHub id, one by email.  A login fails only when another account has   *)
(* its name or GitHub id, or when somebody else created the row at the     *)
(* same time: a demo login then fails only for a name in other letters. *)
OtherAccount(l) == \E u \in users : (u.name = l.name \/ (u.github = l.github /\ ~Demo(l))) /\ u.email # l.email
LoginsAgree ==
    \A a \in Attempts : LET p == attempt[a] IN
        /\ p.step = "token" =>
              /\ \E u \in Matches(p.login) : u.id = p.id
              /\ \A b \in Attempts : attempt[b].step = "token" /\ attempt[b].login = p.login =>
                    attempt[b].id = p.id \/ OtherAccount(p.login)
        /\ p.step = "failed" =>
              \/ OtherAccount(p.login)
              \/ p.raced /\ ~Demo(p.login)
              \/ p.raced /\ \E u \in users : u.email = p.login.email /\ u.name # p.login.name

(* The invariant that carries it, by parts.  Rows are apart in all that is *)
(* UNIQUE and hold the GitHub id of somebody with their email; *)
Apart ==
    /\ \A u, w \in users :
          u.id = w.id \/ u.email = w.email \/ (u.github = w.github /\ u.github # "none") => u = w
    /\ \A u \in users : attempt[u.id].step = "token"
    /\ \A u \in users : u.github # "none" =>
          \E l \in Logins : l.email = u.email /\ l.github = u.github
Begun ==
    [login : Logins, step : {"find", "create", "find by name", "update", "token", "failed"},
     id : Attempts \cup {0}, raced : BOOLEAN]

(* a login that goes on knows its row, or why it found none, and one that  *)
(* is over can say so still. *)
KnowsWhy(p) ==
    /\ p.step = "update" => ~Demo(p.login)
    /\ p.step \in {"update", "token"} => \E u \in Matches(p.login) : u.id = p.id
    /\ p.step = "create" /\ ~p.raced => \A u \in users : u.email # p.login.email
    /\ p.step = "find by name" =>
          /\ Demo(p.login)
          /\ \E u \in users : u.name = p.login.name \/ (u.email = p.login.email /\ p.raced)
    /\ p.step = "failed" =>
          \/ OtherAccount(p.login)
          \/ p.raced /\ (Demo(p.login) => \E u \in users : u.email = p.login.email /\ u.name # p.login.name)
AccountsInv ==
    /\ attempt \in [Attempts -> {NotBegun} \cup Begun]
    /\ Apart /\ \A a \in Attempts : KnowsWhy(attempt[a])
=============================================================================
