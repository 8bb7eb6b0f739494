----------------------------- MODULE AuthProofs -----------------------------
(***************************************************************************)
(* Theorems about registration and login, for any number of programs,      *)
(* names and passwords, and any bounds.                                    *)
(***************************************************************************)
EXTENDS Auth, TLAPS

----------------------------------------------------------------------------
(* The inductive invariant: an answer that grants a token names a user     *)
(* with that password, created counts what is in the table, and a form     *)
(* loads only before its program has a token.                              *)
AnswersAreTrue ==
  \A a \in answers : a.name # None => a.password # None /\ users[a.name] = a.password

CreatedIsStored == \A n \in Names : created[n] = IF users[n] = None THEN 0 ELSE 1

LoadingIsOnScreen == \A p \in Programs : loading[p] => OnScreen(p)

AuthInv ==
  /\ AuthTypeOK /\ TokenIsOwn /\ AnswersAreTrue /\ CreatedIsStored
  /\ LoadingIsUnderway /\ LoadingIsOnScreen

(* A call is no answer. *)
LEMMA CallIsNoAnswer ==
  ASSUME AuthTypeOK, NEW c \in calls
  PROVE  c \notin answers
<1> SUFFICES ASSUME c \in answers PROVE FALSE
  OBVIOUS
<1>1. c \in [program: Programs, do: {"login", "register"}, name: Names,
             password: Passwords, at: {"lookup", "create"}]
  BY DEF AuthTypeOK
<1>2. c \in [program: Programs, name: Names \cup {None}, password: Passwords \cup {None}]
  BY DEF AuthTypeOK
<1>3. "do" \in DOMAIN c
  BY <1>1
<1>4. "do" \notin DOMAIN c
  BY <1>2
<1>5. QED
  BY <1>3, <1>4

(* What a step does to the calls and answers: nothing; it adds the first   *)
(* one of a program that becomes loading; it replaces one of a loading     *)
(* program; or it takes the one of a program that is no longer loading.    *)
LEMMA UnderwayAdded ==
  ASSUME LoadingIsUnderway, loading \in [Programs -> BOOLEAN],
         NEW p \in Programs, NEW x, x.program = p, ~loading[p],
         loading' = [loading EXCEPT ![p] = TRUE],
         calls' \cup answers' = (calls \cup answers) \cup {x}
  PROVE  LoadingIsUnderway'
<1> SUFFICES ASSUME NEW o \in Programs
             PROVE  /\ loading'[o] <=> Underway(o)' # {}
                    /\ \A y, z \in Underway(o)' : y = z
  BY DEF LoadingIsUnderway
<1>1. CASE o = p
  <2>1. Underway(p) = {}
    BY DEF LoadingIsUnderway
  <2>2. Underway(p)' = {x}
    BY <2>1 DEF Underway
  <2>3. QED
    BY <1>1, <2>2
<1>2. CASE o # p
  <2>1. Underway(o)' = Underway(o)
    BY <1>2 DEF Underway
  <2>2. QED
    BY <1>2, <2>1 DEF LoadingIsUnderway
<1>3. QED
  BY <1>1, <1>2

(* An answer takes the place of a call, or of another answer. *)
LEMMA UnderwayReplaced ==
  ASSUME LoadingIsUnderway, loading' = loading,
         NEW x \in calls \cup answers, NEW y, y.program = x.program,
         calls' \cup answers' = ((calls \cup answers) \ {x}) \cup {y}
  PROVE  LoadingIsUnderway'
<1> SUFFICES ASSUME NEW o \in Programs
             PROVE  /\ loading'[o] <=> Underway(o)' # {}
                    /\ \A u, v \in Underway(o)' : u = v
  BY DEF LoadingIsUnderway
<1>1. CASE o = x.program
  <2>1. Underway(o) = {x}
    BY <1>1 DEF LoadingIsUnderway, Underway
  <2>2. Underway(o)' = {y}
    BY <1>1, <2>1 DEF Underway
  <2>3. QED
    BY <2>1, <2>2 DEF LoadingIsUnderway
<1>2. CASE o # x.program
  <2>1. Underway(o)' = Underway(o)
    BY <1>2 DEF Underway
  <2>2. QED
    BY <2>1 DEF LoadingIsUnderway
<1>3. QED
  BY <1>1, <1>2

(* The program takes its answer. *)
LEMMA UnderwayTaken ==
  ASSUME LoadingIsUnderway, loading \in [Programs -> BOOLEAN],
         NEW x \in calls \cup answers, x.program \in Programs,
         loading' = [loading EXCEPT ![x.program] = FALSE],
         calls' \cup answers' = (calls \cup answers) \ {x}
  PROVE  LoadingIsUnderway'
<1> SUFFICES ASSUME NEW o \in Programs
             PROVE  /\ loading'[o] <=> Underway(o)' # {}
                    /\ \A u, v \in Underway(o)' : u = v
  BY DEF LoadingIsUnderway
<1>1. CASE o = x.program
  <2>1. Underway(o) = {x}
    BY <1>1 DEF LoadingIsUnderway, Underway
  <2>2. Underway(o)' = {}
    BY <2>1 DEF Underway
  <2>3. QED
    BY <1>1, <2>2
<1>2. CASE o # x.program
  <2>1. Underway(o)' = Underway(o)
    BY <1>2 DEF Underway
  <2>2. QED
    BY <1>2, <2>1 DEF LoadingIsUnderway
<1>3. QED
  BY <1>1, <1>2

----------------------------------------------------------------------------
(* One lemma for each action with state of its own: it preserves AuthInv.  *)
LEMMA InitInv == AuthInit => AuthInv
BY AuthAssumption DEF AuthInit, AuthInv, AuthTypeOK, TokenIsOwn, AnswersAreTrue, CreatedIsStored,
     LoadingIsUnderway, LoadingIsOnScreen, Underway

(* Enter adds a call. *)
LEMMA SubmitInv ==
  ASSUME AuthInv, NEW p \in Programs, NEW n \in Names, NEW w \in Passwords, Submit(p, n, w)
  PROVE  AuthInv'
<1> DEFINE c == Call(p, mode[p], n, w)
<1>1. AuthTypeOK'
  BY DEF AuthInv, AuthTypeOK, Submit, Call
<1>2. LoadingIsUnderway'
  <2>1. c.program = p
    BY DEF Call
  <2>2. calls' \cup answers' = (calls \cup answers) \cup {c}
    BY DEF Submit
  <2>3. /\ loading \in [Programs -> BOOLEAN] /\ ~loading[p]
        /\ loading' = [loading EXCEPT ![p] = TRUE]
    BY DEF AuthInv, AuthTypeOK, Submit
  <2> HIDE DEF c
  <2>4. QED
    BY <2>1, <2>2, <2>3, UnderwayAdded DEF AuthInv
<1>3. LoadingIsOnScreen'
  BY DEF AuthInv, AuthTypeOK, LoadingIsOnScreen, OnScreen, Submit
<1>4. TokenIsOwn' /\ AnswersAreTrue' /\ CreatedIsStored'
  BY DEF AuthInv, TokenIsOwn, AnswersAreTrue, CreatedIsStored, Submit
<1>5. QED
  BY <1>1, <1>2, <1>3, <1>4 DEF AuthInv

(* Enter with an empty field adds a refusal. *)
LEMMA SubmitEmptyInv ==
  ASSUME AuthInv, NEW p \in Programs, SubmitEmpty(p)
  PROVE  AuthInv'
<1>1. Refusal(p) = [program |-> p, name |-> None, password |-> None]
  BY DEF Refusal, Answer
<1>2. AuthTypeOK'
  BY <1>1 DEF AuthInv, AuthTypeOK, SubmitEmpty
<1>3. LoadingIsUnderway'
  <2>1. Refusal(p).program = p
    BY <1>1
  <2>2. calls' \cup answers' = (calls \cup answers) \cup {Refusal(p)}
    BY DEF SubmitEmpty
  <2>3. /\ loading \in [Programs -> BOOLEAN] /\ ~loading[p]
        /\ loading' = [loading EXCEPT ![p] = TRUE]
    BY DEF AuthInv, AuthTypeOK, SubmitEmpty
  <2>4. QED
    BY <2>1, <2>2, <2>3, UnderwayAdded DEF AuthInv
<1>4. LoadingIsOnScreen'
  BY DEF AuthInv, AuthTypeOK, LoadingIsOnScreen, OnScreen, SubmitEmpty
<1>5. TokenIsOwn' /\ AnswersAreTrue' /\ CreatedIsStored'
  BY <1>1 DEF AuthInv, TokenIsOwn, AnswersAreTrue, CreatedIsStored, SubmitEmpty
<1>6. QED
  BY <1>2, <1>3, <1>4, <1>5 DEF AuthInv

(* While an answer waits its program has no token, and taking it ends the  *)
(* loading.                                                                *)
LEMMA AnswerIsAwaited ==
  ASSUME AuthInv, NEW a \in answers
  PROVE  a.program \in Programs /\ loading[a.program] /\ token[a.program] = None
<1>1. a.program \in Programs
  BY DEF AuthInv, AuthTypeOK
<1>2. loading[a.program]
  BY <1>1 DEF AuthInv, LoadingIsUnderway, Underway
<1>3. QED
  BY <1>1, <1>2 DEF AuthInv, LoadingIsOnScreen, OnScreen

(* The answer is taken; if it grants a token, it is a true one. *)
LEMMA TakeInv ==
  ASSUME AuthInv, NEW a \in answers, TakeSuccess(a) \/ TakeError(a)
  PROVE  AuthInv'
<1>1. a.program \in Programs /\ a.name \in Names \cup {None}
      /\ a.password \in Passwords \cup {None}
  BY DEF AuthInv, AuthTypeOK
<1>2. AuthTypeOK'
  BY <1>1 DEF AuthInv, AuthTypeOK, TakeSuccess, TakeError
<1>3. LoadingIsUnderway'
  <2>1. a \notin calls
    BY CallIsNoAnswer DEF AuthInv
  <2>2. calls' \cup answers' = (calls \cup answers) \ {a}
    BY <2>1 DEF TakeSuccess, TakeError
  <2>3. /\ loading \in [Programs -> BOOLEAN]
        /\ loading' = [loading EXCEPT ![a.program] = FALSE]
    BY DEF AuthInv, AuthTypeOK, TakeSuccess, TakeError
  <2>4. QED
    BY <1>1, <2>2, <2>3, UnderwayTaken DEF AuthInv
<1>4. LoadingIsOnScreen'
  BY <1>1 DEF AuthInv, AuthTypeOK, LoadingIsOnScreen, OnScreen, TakeSuccess, TakeError
<1>5. TokenIsOwn'
  BY <1>1 DEF AuthInv, AuthTypeOK, TokenIsOwn, AnswersAreTrue, TakeSuccess, TakeError
<1>6. AnswersAreTrue' /\ CreatedIsStored'
  BY DEF AuthInv, AnswersAreTrue, CreatedIsStored, TakeSuccess, TakeError
<1>7. QED
  BY <1>2, <1>3, <1>4, <1>5, <1>6 DEF AuthInv

(* A call goes on, or ends: x is replaced by y of the same program, and    *)
(* what becomes of the table makes y true if it grants a token.            *)
LEMMA CallInv ==
  ASSUME AuthInv, NEW c \in calls, NEW a,
         a \in [program: Programs, name: Names \cup {None}, password: Passwords \cup {None}],
         a.program = c.program, End(c, a),
         UNCHANGED <<loading, mode, token, password, expired, submits>>,
         failures' \in Nat,
         users' \in [Names -> Passwords \cup {None}], created' \in [Names -> Nat],
         \A n \in Names : users[n] # None => users'[n] = users[n],
         CreatedIsStored',
         a.name # None => a.password # None /\ users'[a.name] = a.password
  PROVE  AuthInv'
<1>1. AuthTypeOK'
  BY DEF AuthInv, AuthTypeOK, End
<1>2. LoadingIsUnderway'
  <2>1. c \notin answers
    BY CallIsNoAnswer DEF AuthInv
  <2>2. calls' \cup answers' = ((calls \cup answers) \ {c}) \cup {a}
    BY <2>1 DEF End
  <2>3. QED
    BY <2>2, UnderwayReplaced DEF AuthInv
<1>3. LoadingIsOnScreen'
  BY DEF AuthInv, LoadingIsOnScreen, OnScreen
<1>4. TokenIsOwn'
  BY DEF AuthInv, AuthTypeOK, TokenIsOwn
<1>5. AnswersAreTrue'
  BY DEF AuthInv, AuthTypeOK, AnswersAreTrue, End
<1>6. QED
  BY <1>1, <1>2, <1>3, <1>4, <1>5 DEF AuthInv

(* The fields of a call and of the answers to it. *)
LEMMA CallFields ==
  ASSUME AuthInv, NEW c \in calls
  PROVE  /\ c.program \in Programs /\ c.name \in Names
         /\ c.password \in Passwords /\ c.password # None
         /\ Refusal(c.program) = [program |-> c.program, name |-> None, password |-> None]
         /\ Answer(c.program, c.name, c.password)
              = [program |-> c.program, name |-> c.name, password |-> c.password]
BY AuthAssumption DEF AuthInv, AuthTypeOK, Refusal, Answer

(* A call that is refused leaves the table alone. *)
LEMMA RefuseInv ==
  ASSUME AuthInv, NEW c \in calls, End(c, Refusal(c.program)), failures' \in Nat,
         UNCHANGED <<users, created, loading, mode, token, password, expired, submits>>
  PROVE  AuthInv'
<1>1. /\ users' \in [Names -> Passwords \cup {None}] /\ created' \in [Names -> Nat]
      /\ CreatedIsStored' /\ \A n \in Names : users[n] # None => users'[n] = users[n]
  BY DEF AuthInv, AuthTypeOK, CreatedIsStored
<1>2. /\ Refusal(c.program).program = c.program /\ Refusal(c.program).name = None
      /\ Refusal(c.program) \in [program: Programs, name: Names \cup {None},
                                  password: Passwords \cup {None}]
  <2>1. /\ c.program \in Programs
        /\ Refusal(c.program) = [program |-> c.program, name |-> None, password |-> None]
    BY CallFields
  <2>2. QED
    BY <2>1
<1>3. QED
  BY <1>1, <1>2, CallInv

(* The lookup of Register refuses, or makes the call go on. *)
LEMMA LookupInv ==
  ASSUME AuthInv, NEW c \in calls, Lookup(c)
  PROVE  AuthInv'
<1>1. CASE End(c, Refusal(c.program)) /\ UNCHANGED failures
  BY <1>1, RefuseInv DEF Lookup, AuthInv, AuthTypeOK
<1>2. CASE /\ failures' = IF users[c.name] = None THEN failures ELSE failures + 1
           /\ calls' = (calls \ {c}) \cup {[c EXCEPT !.at = "create"]}
           /\ UNCHANGED answers
  <2> DEFINE d == [c EXCEPT !.at = "create"]
  <2>1. d \in [program: Programs, do: {"login", "register"}, name: Names,
               password: Passwords, at: {"lookup", "create"}] /\ d.program = c.program
    BY DEF AuthInv, AuthTypeOK
  <2>2. AuthTypeOK'
    BY <1>2, <2>1 DEF AuthInv, AuthTypeOK, Lookup
  <2>3. LoadingIsUnderway'
    <3>1. c \notin answers
      BY CallIsNoAnswer DEF AuthInv
    <3>2. calls' \cup answers' = ((calls \cup answers) \ {c}) \cup {d}
      BY <1>2, <3>1
    <3>3. loading' = loading
      BY DEF Lookup
    <3> HIDE DEF d
    <3>4. QED
      BY <2>1, <3>2, <3>3, UnderwayReplaced DEF AuthInv
  <2>4. LoadingIsOnScreen' /\ TokenIsOwn' /\ AnswersAreTrue' /\ CreatedIsStored'
    BY <1>2 DEF AuthInv, LoadingIsOnScreen, OnScreen, TokenIsOwn, AnswersAreTrue,
                CreatedIsStored, Lookup
  <2>5. QED
    BY <2>2, <2>3, <2>4 DEF AuthInv
<1>3. QED
  BY <1>1, <1>2 DEF Lookup

(* The insertion sets the password of a free name, or refuses. *)
LEMMA CreateUserInv ==
  ASSUME AuthInv, NEW c \in calls, CreateUser(c)
  PROVE  AuthInv'
<1>1. CASE users[c.name] = None
  <2>1. /\ users' = [users EXCEPT ![c.name] = c.password]
        /\ created' = [created EXCEPT ![c.name] = created[c.name] + 1]
        /\ End(c, Answer(c.program, c.name, c.password))
    BY <1>1 DEF CreateUser
  <2>2. users' \in [Names -> Passwords \cup {None}] /\ created' \in [Names -> Nat]
    BY <2>1, CallFields DEF AuthInv, AuthTypeOK
  <2>3. CreatedIsStored'
    <3>1. c.name \in Names /\ c.password # None
      BY CallFields
    <3>2. users \in [Names -> Passwords \cup {None}] /\ created \in [Names -> Nat]
      BY DEF AuthInv, AuthTypeOK
    <3>3. created[c.name] = 0
      BY <1>1, <3>1 DEF AuthInv, CreatedIsStored
    <3>4. QED
      BY <2>1, <3>1, <3>2, <3>3 DEF AuthInv, CreatedIsStored
  <2>4. /\ \A n \in Names : users[n] # None => users'[n] = users[n]
        /\ users'[c.name] = c.password
    BY <1>1, <2>1, CallFields DEF AuthInv, AuthTypeOK
  <2>5. failures' \in Nat /\ UNCHANGED <<loading, mode, token, password, expired, submits>>
    BY DEF CreateUser, AuthInv, AuthTypeOK
  <2> DEFINE a == Answer(c.program, c.name, c.password)
  <2>6. /\ a \in [program: Programs, name: Names \cup {None}, password: Passwords \cup {None}]
        /\ a.program = c.program
        /\ a.name # None => a.password # None /\ users'[a.name] = a.password
    <3>1. /\ c.program \in Programs /\ c.name \in Names
          /\ c.password \in Passwords /\ c.password # None
          /\ a = [program |-> c.program, name |-> c.name, password |-> c.password]
      BY CallFields
    <3>2. QED
      BY <2>4, <3>1
  <2>7. End(c, a)
    BY <2>1
  <2> HIDE DEF a
  <2>8. QED
    BY <2>2, <2>3, <2>4, <2>5, <2>6, <2>7, CallInv
<1>2. CASE users[c.name] # None
  BY <1>2, RefuseInv DEF CreateUser, AuthInv, AuthTypeOK
<1>3. QED
  BY <1>1, <1>2

(* Login grants a token if the password is the one in the table. *)
LEMMA LoginInv ==
  ASSUME AuthInv, NEW c \in calls, Login(c)
  PROVE  AuthInv'
<1>1. CASE users[c.name] = c.password
  <2> DEFINE a == Answer(c.program, c.name, c.password)
  <2>1. /\ a \in [program: Programs, name: Names \cup {None}, password: Passwords \cup {None}]
        /\ a.program = c.program
        /\ a.name # None => a.password # None /\ users[a.name] = a.password
    <3>1. /\ c.program \in Programs /\ c.name \in Names
          /\ c.password \in Passwords /\ c.password # None
          /\ a = [program |-> c.program, name |-> c.name, password |-> c.password]
      BY CallFields
    <3>2. QED
      BY <1>1, <3>1
  <2>2. /\ End(c, a) /\ UNCHANGED <<users, created, failures, loading, mode, token, password,
                                    expired, submits>>
    BY <1>1 DEF Login
  <2>3. /\ users \in [Names -> Passwords \cup {None}] /\ created \in [Names -> Nat]
        /\ failures \in Nat /\ CreatedIsStored
    BY DEF AuthInv, AuthTypeOK
  <2>4. CreatedIsStored'
    BY <2>2, <2>3 DEF CreatedIsStored
  <2> HIDE DEF a
  <2>5. QED
    BY <2>1, <2>2, <2>3, <2>4, CallInv
<1>2. CASE users[c.name] # c.password
  BY <1>2, RefuseInv DEF Login, AuthInv, AuthTypeOK
<1>3. QED
  BY <1>1, <1>2

(* A call that fails is refused. *)
LEMMA CallFailsInv ==
  ASSUME AuthInv, NEW c \in calls, CallFails(c)
  PROVE  AuthInv'
BY RefuseInv DEF CallFails, AuthInv, AuthTypeOK

(* A lost answer becomes a refusal. *)
LEMMA AnswerLostInv ==
  ASSUME AuthInv, NEW a \in answers, AnswerLost(a)
  PROVE  AuthInv'
<1>1. Refusal(a.program) = [program |-> a.program, name |-> None, password |-> None]
  BY DEF Refusal, Answer
<1>2. a.program \in Programs
  BY AnswerIsAwaited
<1>3. AuthTypeOK'
  BY <1>1, <1>2 DEF AuthInv, AuthTypeOK, AnswerLost
<1>4. LoadingIsUnderway'
  <2>1. a \notin calls
    BY CallIsNoAnswer DEF AuthInv
  <2>2. calls' \cup answers' = ((calls \cup answers) \ {a}) \cup {Refusal(a.program)}
    BY <2>1 DEF AnswerLost
  <2>3. loading' = loading /\ Refusal(a.program).program = a.program
    BY <1>1 DEF AnswerLost
  <2>4. QED
    BY <2>2, <2>3, UnderwayReplaced DEF AuthInv
<1>5. LoadingIsOnScreen' /\ TokenIsOwn' /\ AnswersAreTrue' /\ CreatedIsStored'
  BY <1>1 DEF AuthInv, LoadingIsOnScreen, OnScreen, TokenIsOwn, AnswersAreTrue,
              CreatedIsStored, AnswerLost
<1>6. QED
  BY <1>3, <1>4, <1>5 DEF AuthInv

(* The mode and the expiry are free to change. *)
LEMMA RestInv ==
  ASSUME AuthInv, NEW p \in Programs, ToggleMode(p) \/ Expire(p)
  PROVE  AuthInv'
BY DEF AuthInv, AuthTypeOK, LoadingIsUnderway, Underway, LoadingIsOnScreen, OnScreen,
       TokenIsOwn, AnswersAreTrue, CreatedIsStored, ToggleMode, Expire

(* A step of others. *)
LEMMA StutterInv ==
  ASSUME AuthInv, UNCHANGED authVars
  PROVE  AuthInv'
BY DEF AuthInv, AuthTypeOK, LoadingIsUnderway, Underway, LoadingIsOnScreen, OnScreen,
       TokenIsOwn, AnswersAreTrue, CreatedIsStored, authVars

(* Every step preserves the invariant. *)
LEMMA NextInv == AuthInv /\ [AuthNext]_authVars => AuthInv'
<1> SUFFICES ASSUME AuthInv, [AuthNext]_authVars PROVE AuthInv'
  OBVIOUS
<1>1. ASSUME NEW p \in Programs, NEW n \in Names, NEW w \in Passwords, Submit(p, n, w)
      PROVE  AuthInv'
  BY <1>1, SubmitInv
<1>2. ASSUME NEW p \in Programs, ToggleMode(p) \/ SubmitEmpty(p) \/ Expire(p) PROVE AuthInv'
  BY <1>2, SubmitEmptyInv, RestInv
<1>3. ASSUME NEW c \in calls, Lookup(c) \/ CreateUser(c) \/ Login(c) \/ CallFails(c)
      PROVE  AuthInv'
  BY <1>3, LookupInv, CreateUserInv, LoginInv, CallFailsInv
<1>4. ASSUME NEW a \in answers, TakeSuccess(a) \/ TakeError(a) \/ AnswerLost(a) PROVE AuthInv'
  BY <1>4, TakeInv, AnswerLostInv
<1>5. QED
  BY <1>1, <1>2, <1>3, <1>4, StutterInv DEF AuthNext

(* The invariant holds in every state. *)
LEMMA Invariance == AuthSpec => []AuthInv
BY InitInv, NextInv, PTL DEF AuthSpec

----------------------------------------------------------------------------
(* Type correctness of the login screens, the calls and the table.         *)
THEOREM AuthTypeCorrect == AuthSpec => []AuthTypeOK
<1>1. AuthInv => AuthTypeOK
  BY DEF AuthInv
<1>2. QED
  BY <1>1, Invariance, PTL

(* A program acts only for a user whose password it gave, however          *)
(* registrations of the name and answers interleave (auth/service.go).     *)
THEOREM TokensAreOwn == AuthSpec => []TokenIsOwn
<1>1. AuthInv => TokenIsOwn
  BY DEF AuthInv
<1>2. QED
  BY <1>1, Invariance, PTL

(* No name is registered twice, although the lookup and the insertion are  *)
(* two statements and the lookup may fail (auth/service.go:66-80).         *)
THEOREM NamesRegisteredOnce == AuthSpec => []RegisteredOnce
<1>1. AuthInv => RegisteredOnce
  BY DEF AuthInv, CreatedIsStored, RegisteredOnce
<1>2. QED
  BY <1>1, Invariance, PTL

(* The form loads exactly while its one submission is under way, so that   *)
(* it is never stuck and never submits twice (ui/auth/model.go:111-125).   *)
THEOREM FormsLoad == AuthSpec => []LoadingIsUnderway
<1>1. AuthInv => LoadingIsUnderway
  BY DEF AuthInv
<1>2. QED
  BY <1>1, Invariance, PTL

----------------------------------------------------------------------------
(* Every step is one of Accounts, or changes nothing there: the insertion  *)
(* registers, and taking an answer that grants a token logs in.            *)
LEMMA StepImplements ==
  ASSUME AuthInv, [AuthNext]_authVars
  PROVE  [Abstract!Next]_<<users, token, password>>
<1>1. ASSUME NEW c \in calls, CreateUser(c), users[c.name] = None
      PROVE  Abstract!Next
  <2>1. Abstract!Register(c.name, c.password)
    BY <1>1 DEF CreateUser, Abstract!Register
  <2>2. QED
    BY <2>1, CallFields DEF Abstract!Next
<1>2. ASSUME NEW a \in answers, TakeSuccess(a)
      PROVE  Abstract!Next
  <2>1. a.program \in Programs /\ token[a.program] = None
    BY AnswerIsAwaited
  <2>2. a.name \in Names /\ a.password # None /\ users[a.name] = a.password
    BY <1>2 DEF AuthInv, AuthTypeOK, AnswersAreTrue, TakeSuccess
  <2>3. Abstract!LogIn(a.program, a.name)
    BY <1>2, <2>1, <2>2 DEF TakeSuccess, Abstract!LogIn
  <2>4. QED
    BY <2>1, <2>2, <2>3 DEF Abstract!Next
<1>3. ASSUME NEW c \in calls, CreateUser(c), users[c.name] # None
      PROVE  UNCHANGED <<users, token, password>>
  BY <1>3 DEF CreateUser
<1>4. ASSUME NEW c \in calls, Lookup(c) \/ Login(c) \/ CallFails(c)
      PROVE  UNCHANGED <<users, token, password>>
  BY <1>4 DEF Lookup, Login, CallFails
<1>5. ASSUME NEW a \in answers, TakeError(a) \/ AnswerLost(a)
      PROVE  UNCHANGED <<users, token, password>>
  BY <1>5 DEF TakeError, AnswerLost
<1>6. ASSUME NEW p \in Programs, NEW n \in Names, NEW w \in Passwords,
             Submit(p, n, w) \/ ToggleMode(p) \/ SubmitEmpty(p) \/ Expire(p)
      PROVE  UNCHANGED <<users, token, password>>
  BY <1>6 DEF Submit, ToggleMode, SubmitEmpty, Expire
<1>7. ASSUME NEW p \in Programs, ToggleMode(p) \/ SubmitEmpty(p) \/ Expire(p)
      PROVE  UNCHANGED <<users, token, password>>
  BY <1>7 DEF ToggleMode, SubmitEmpty, Expire
<1>8. CASE UNCHANGED authVars
  BY <1>8 DEF authVars
<1>9. CASE AuthNext
  BY <1>9, <1>1, <1>2, <1>3, <1>4, <1>5, <1>6, <1>7 DEF AuthNext
<1>10. QED
  BY <1>8, <1>9

(* Forms, calls and statements implement registration and login in one     *)
(* step each: the refinement that the run checks, for all constants.       *)
THEOREM Refinement == AuthSpec => ImplementsAccounts
<1>1. AuthInit => Abstract!Init
  BY DEF AuthInit, Abstract!Init
<1>2. AuthInv /\ [AuthNext]_authVars => [Abstract!Next]_<<users, token, password>>
  BY StepImplements
<1>3. QED
  BY <1>1, <1>2, Invariance, PTL DEF AuthSpec, ImplementsAccounts, Abstract!Spec
=============================================================================
