------------------------------ MODULE Accounts ------------------------------
(***************************************************************************)
(* What registration and login promise, without calls, forms and failures: *)
(* a name is registered once and keeps its password, and a program acts    *)
(* for a user only after it gave that password.  Module Auth implements    *)
(* it.                                                                     *)
(***************************************************************************)
CONSTANTS Programs, Names, Passwords, None

VARIABLES
  accounts, \* the password of each name, None if it is free
  user,     \* the user whose token each program holds
  key       \* the password that it gave

Init ==
  /\ accounts = [n \in Names |-> None]
  /\ user = [p \in Programs |-> None]
  /\ key = [p \in Programs |-> None]

Register(n, w) ==
  /\ accounts[n] = None
  /\ accounts' = [accounts EXCEPT ![n] = w]
  /\ UNCHANGED <<user, key>>

LogIn(p, n) ==
  /\ user[p] = None /\ accounts[n] # None
  /\ user' = [user EXCEPT ![p] = n]
  /\ key' = [key EXCEPT ![p] = accounts[n]]
  /\ UNCHANGED accounts

Next ==
  \/ \E n \in Names, w \in Passwords : Register(n, w)
  \/ \E p \in Programs, n \in Names : LogIn(p, n)

Spec == Init /\ [][Next]_<<accounts, user, key>>
============================================================================
