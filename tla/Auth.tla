-------------------------------- MODULE Auth --------------------------------
(***************************************************************************)
(* Registration and login: the login screen of the terminal programs       *)
(* (ui/auth) and the service that answers them (server/internal/auth).     *)
(*                                                                         *)
(* Each program has a form that is submitted by one of its two modes; the  *)
(* answer is a message for the program's event loop.  The server handles   *)
(* each request in a goroutine of its own, so that two registrations of a  *)
(* name run side by side: each looks the name up, and creates the user     *)
(* with a later statement, which a unique index guards.                    *)
(*                                                                         *)
(* A user is its name; a token is the user it was made for.  It expires    *)
(* some time or other.  Hashing is left out: passwords are compared.       *)
(***************************************************************************)
EXTENDS Naturals

CONSTANTS
  Programs,   \* terminal programs
  Names,      \* user names
  Passwords,
  None,       \* no user, no password, no token
  MaxSubmits, \* bound: forms submitted
  MaxFailures \* bound: statements that fail and answers that are lost

ASSUME AuthAssumption ==
  /\ None \notin Names \cup Passwords
  /\ {MaxSubmits, MaxFailures} \subseteq Nat

VARIABLES
  users,    \* the table of users: passwords by name
  mode,     \* Model.mode of each program, "login" or "register"
  loading,  \* Model.loading
  calls,    \* calls of Login and Register under way
  answers,  \* answers that the programs have not taken
  token,    \* the token each program holds: a user
  password, \* history: the password that each program got its token with
  expired,  \* programs whose token has expired
  created,  \* history: how many registrations of each name succeeded
  submits, failures

authVars == <<users, mode, loading, calls, answers, token, password, expired, created, submits,
              failures>>

Call(p, do, n, w) == [program |-> p, do |-> do, name |-> n, password |-> w, at |-> "lookup"]
Answer(p, n, w) == [program |-> p, name |-> n, password |-> w]
Refusal(p) == Answer(p, None, None)

AuthTypeOK ==
  /\ users \in [Names -> Passwords \cup {None}]
  /\ mode \in [Programs -> {"login", "register"}]
  /\ loading \in [Programs -> BOOLEAN]
  /\ calls \subseteq [program: Programs, do: {"login", "register"}, name: Names,
                      password: Passwords, at: {"lookup", "create"}]
  /\ answers \subseteq [program: Programs, name: Names \cup {None}, password: Passwords \cup {None}]
  /\ token \in [Programs -> Names \cup {None}]
  /\ password \in [Programs -> Passwords \cup {None}]
  /\ expired \subseteq Programs
  /\ created \in [Names -> Nat]
  /\ submits \in Nat /\ failures \in Nat

AuthInit ==
  /\ users = [n \in Names |-> None]
  /\ mode = [p \in Programs |-> "login"]
  /\ loading = [p \in Programs |-> FALSE]
  /\ calls = {} /\ answers = {}
  /\ token = [p \in Programs |-> None] /\ password = [p \in Programs |-> None]
  /\ expired = {} /\ created = [n \in Names |-> 0]
  /\ submits = 0 /\ failures = 0

----------------------------------------------------------------------------
(* The login screen; Update *)

OnScreen(p) == token[p] = None

(* ctrl+t, even while loading *)
ToggleMode(p) ==
  /\ OnScreen(p)
  /\ mode' = [mode EXCEPT ![p] = IF @ = "login" THEN "register" ELSE "login"]
  /\ UNCHANGED <<users, loading, calls, answers, token, password, expired, created, submits,
                 failures>>

(* Mutant of Submit: enter is not ignored while loading. *)
SubmitAgain(p, n, w) ==
  /\ OnScreen(p)
  /\ submits < MaxSubmits
  /\ submits' = submits + 1
  /\ loading' = [loading EXCEPT ![p] = TRUE]
  /\ calls' = calls \cup {Call(p, mode[p], n, w)}
  /\ UNCHANGED <<users, mode, answers, token, password, expired, created, failures>>

(* enter: ignored while loading.  The mode of now is the call's. *)
Submit(p, n, w) ==
  /\ OnScreen(p) /\ ~loading[p]
  /\ submits < MaxSubmits
  /\ submits' = submits + 1
  /\ loading' = [loading EXCEPT ![p] = TRUE]
  /\ calls' = calls \cup {Call(p, mode[p], n, w)}
  /\ UNCHANGED <<users, mode, answers, token, password, expired, created, failures>>

(* enter with an empty field: the answer is an error, without a call. *)
SubmitEmpty(p) ==
  /\ OnScreen(p) /\ ~loading[p]
  /\ submits < MaxSubmits
  /\ submits' = submits + 1
  /\ loading' = [loading EXCEPT ![p] = TRUE]
  /\ answers' = answers \cup {Refusal(p)}
  /\ UNCHANGED <<users, mode, calls, token, password, expired, created, failures>>

(* SuccessMsg: the program leaves the screen with its token. *)
TakeSuccess(a) ==
  /\ a \in answers /\ a.name # None
  /\ answers' = answers \ {a}
  /\ token' = [token EXCEPT ![a.program] = a.name]
  /\ password' = [password EXCEPT ![a.program] = a.password]
  /\ loading' = [loading EXCEPT ![a.program] = FALSE]
  /\ UNCHANGED <<users, mode, calls, expired, created, submits, failures>>

TakeError(a) ==
  /\ a \in answers /\ a.name = None
  /\ answers' = answers \ {a}
  /\ loading' = [loading EXCEPT ![a.program] = FALSE]
  /\ UNCHANGED <<users, mode, calls, token, password, expired, created, submits, failures>>

----------------------------------------------------------------------------
(* The service *)

(* Call c ends with answer a. *)
End(c, a) == calls' = calls \ {c} /\ answers' = answers \cup {a}

(* Register looks the name up: any error counts as not found. *)
Lookup(c) ==
  /\ c \in calls /\ c.do = "register" /\ c.at = "lookup"
  /\ \/ users[c.name] # None /\ End(c, Refusal(c.program)) /\ UNCHANGED failures
     \/ /\ users[c.name] = None \/ failures < MaxFailures
        /\ failures' = IF users[c.name] = None THEN failures ELSE failures + 1
        /\ calls' = (calls \ {c}) \cup {[c EXCEPT !.at = "create"]}
        /\ UNCHANGED answers
  /\ UNCHANGED <<users, mode, loading, token, password, expired, created, submits>>

(* Mutant of CreateUser: the table has no unique index. *)
CreateUserAgain(c) ==
  /\ c \in calls /\ c.at = "create"
  /\ users' = [users EXCEPT ![c.name] = c.password]
  /\ created' = [created EXCEPT ![c.name] = @ + 1]
  /\ End(c, Answer(c.program, c.name, c.password))
  /\ UNCHANGED <<mode, loading, token, password, expired, submits, failures>>

(* CreateUser *)
CreateUser(c) ==
  /\ c \in calls /\ c.at = "create"
  /\ IF users[c.name] = None
     THEN /\ users' = [users EXCEPT ![c.name] = c.password]
          /\ created' = [created EXCEPT ![c.name] = @ + 1]
          /\ End(c, Answer(c.program, c.name, c.password))
     ELSE End(c, Refusal(c.program)) /\ UNCHANGED <<users, created>>
  /\ UNCHANGED <<mode, loading, token, password, expired, submits, failures>>

(* Mutant of Login: any password will do. *)
LoginUnchecked(c) ==
  /\ c \in calls /\ c.do = "login"
  /\ End(c, IF users[c.name] # None THEN Answer(c.program, c.name, c.password)
                                    ELSE Refusal(c.program))
  /\ UNCHANGED <<users, mode, loading, token, password, expired, created, submits, failures>>

Login(c) ==
  /\ c \in calls /\ c.do = "login"
  /\ End(c, IF users[c.name] = c.password THEN Answer(c.program, c.name, c.password)
                                          ELSE Refusal(c.program))
  /\ UNCHANGED <<users, mode, loading, token, password, expired, created, submits, failures>>

(* A statement fails, other than the lookup of Register; or the answer is  *)
(* lost: then what the call did stays.                                     *)
CallFails(c) ==
  /\ c \in calls /\ (c.do = "login" \/ c.at = "create")
  /\ failures < MaxFailures
  /\ failures' = failures + 1
  /\ End(c, Refusal(c.program))
  /\ UNCHANGED <<users, mode, loading, token, password, expired, created, submits>>

AnswerLost(a) ==
  /\ a \in answers /\ a.name # None
  /\ failures < MaxFailures
  /\ failures' = failures + 1
  /\ answers' = (answers \ {a}) \cup {Refusal(a.program)}
  /\ UNCHANGED <<users, mode, loading, calls, token, password, expired, created, submits>>

(* AccessTTL is over. *)
Expire(p) ==
  /\ token[p] # None /\ p \notin expired
  /\ expired' = expired \cup {p}
  /\ UNCHANGED <<users, mode, loading, calls, answers, token, password, created, submits, failures>>

AuthNext ==
  \/ \E p \in Programs : ToggleMode(p) \/ SubmitEmpty(p) \/ Expire(p)
  \/ \E p \in Programs, n \in Names, w \in Passwords : Submit(p, n, w)
  \/ \E c \in calls : Lookup(c) \/ CreateUser(c) \/ Login(c) \/ CallFails(c)
  \/ \E a \in answers : TakeSuccess(a) \/ TakeError(a) \/ AnswerLost(a)

AuthSpec == AuthInit /\ [][AuthNext]_authVars

----------------------------------------------------------------------------
(* A program holds a token only of a user that it named with the user's    *)
(* password, even if the same name was registered twice at once.           *)
TokenIsOwn ==
  \A p \in Programs : token[p] # None => password[p] # None /\ users[token[p]] = password[p]

(* Users and logins as they should be: a name is registered once and for   *)
(* all, and a program logs in with the user's own password, each in one    *)
(* step.  The calls, statements, retries and forms implement that.         *)
Abstract == INSTANCE Accounts WITH accounts <- users, user <- token, key <- password

ImplementsAccounts == Abstract!Spec

(* At most one registration of a name succeeds, ever: the others are told  *)
(* that it failed, also if their lookups did not find the user.            *)
RegisteredOnce == \A n \in Names : created[n] <= 1

(* A form is loading exactly while its one submission is under way: it can *)
(* neither be submitted twice nor be stuck.                                *)
Underway(p) == {x \in calls \cup answers : x.program = p}

LoadingIsUnderway ==
  \A p \in Programs :
     /\ loading[p] <=> Underway(p) # {}
     /\ \A x, y \in Underway(p) : x = y
============================================================================
