----------------------------- MODULE LoginHandler -----------------------------
(***************************************************************************)
(* api::LoginHandler: the table users is read once, when main() constructs *)
(* the handler, and every POST /api/login is answered from that copy.  The *)
(* rows are made by developers in MySQL (doc/mysql.md), at any time; user  *)
(* names are not unique there.                                             *)
(***************************************************************************)
EXTENDS Naturals, Sequences, SequencesExt, FiniteSetsExt

CONSTANTS
  Names, Passwords,
  MaxRows,      (* bound: rows of users                                     *)
  MaxChanges    (* bound: changes to users                                  *)

VARIABLES
  users,       (* the table, in the order of its ids                        *)
  user_table,  (* the handler's copy: name -> password                      *)
  running,     (* whether the process runs                                  *)
  read,        (* history: users as this process read it                    *)
  replies,     (* history of this process: what each login was answered     *)
  changes

vars == <<users, user_table, running, read, replies, changes>>

Row == [name : Names, password : Passwords]
NoReply == "none"
NoUser == [n \in {} |-> ""]

(* The constructor inserts row after row; insert() keeps what is there.    *)
Loaded ==
  [n \in {users[i].name : i \in DOMAIN users} |->
     users[Min({i \in DOMAIN users : users[i].name = n})].password]

Init ==
  /\ users \in SeqOf(Row, MaxRows)
  /\ user_table = NoUser /\ running = FALSE /\ read = <<>>
  /\ replies = [l \in Names \X Passwords |-> NoReply] /\ changes = 0

(* LoginHandler::LoginHandler(); when the query fails value() throws and   *)
(* the process ends before it has changed anything.                        *)
Start ==
  /\ ~running
  /\ running' = TRUE
  /\ user_table' = Loaded
  /\ read' = users
  /\ replies' = [l \in Names \X Passwords |-> NoReply]
  /\ UNCHANGED <<users, changes>>

(* LoginHandler::handle(): the answer to a name and a password (an empty   *)
(* body is answered without a lookup) ...                                  *)
Reply(n, p) ==
  IF n \notin DOMAIN user_table THEN "user_not_found"
  ELSE IF p = user_table[n] THEN "success" ELSE "wrong_password"

(* ... and the lookup, find(), which leaves the table alone.               *)
LookedUp_Inserting(n) ==
  [m \in DOMAIN user_table \cup {n} |-> IF m \in DOMAIN user_table THEN user_table[m] ELSE ""]
LookedUp(n) == user_table

Login(n, p) ==
  /\ running
  /\ replies' = [replies EXCEPT ![<<n, p>>] = Reply(n, p)]
  /\ user_table' = LookedUp(n)
  /\ UNCHANGED <<users, running, read, changes>>

(* A body that is no JSON throws through the event loop, as a path that is *)
(* a directory does before any handler is asked.                           *)
LoginThrows ==
  /\ running
  /\ running' = FALSE
  /\ user_table' = NoUser
  /\ UNCHANGED <<users, read, replies, changes>>

(* A developer inserts a row, changes a password or deletes a row.         *)
ChangeUsers ==
  /\ changes < MaxChanges
  /\ changes' = changes + 1
  /\ \/ \E r \in Row : Len(users) < MaxRows /\ users' = Append(users, r)
     \/ \E i \in DOMAIN users, p \in Passwords : users' = [users EXCEPT ![i].password = p]
     \/ \E i \in DOMAIN users : users' = RemoveAt(users, i)
  /\ UNCHANGED <<user_table, running, read, replies>>

Next ==
  \/ Start
  \/ \E n \in Names, p \in Passwords : Login(n, p)
  \/ LoginThrows
  \/ ChangeUsers

Spec == Init /\ [][Next]_vars

-------------------------------------------------------------------------------
(* The type of every variable.                                             *)
TypeOK ==
  /\ users \in SeqOf(Row, MaxRows)
  /\ DOMAIN user_table \subseteq Names /\ Range(user_table) \subseteq Passwords
  /\ running \in BOOLEAN /\ read \in SeqOf(Row, MaxRows)
  /\ replies \in [Names \X Passwords ->
                    {NoReply, "success", "wrong_password", "user_not_found"}]
  /\ changes \in 0..MaxChanges

(* The rows of name n in the table as it was read, and the first of them.  *)
RowsRead(n) == {i \in DOMAIN read : read[i].name = n}
FirstRead(n) == {i \in RowsRead(n) : \A j \in RowsRead(n) : i <= j}

(* Every login of a process is answered from the one table it read when it *)
(* started, whatever other logins and whatever changes come in between:    *)
(* success for exactly the name and password of a row that no earlier row  *)
(* of that name hides, and "not found" for exactly the names without one.  *)
AnsweredAsRead ==
  \A n \in Names, p \in Passwords :
    /\ replies[<<n, p>>] = "success" => \E i \in FirstRead(n) : read[i].password = p
    /\ replies[<<n, p>>] = "wrong_password" => \E i \in FirstRead(n) : read[i].password # p
    /\ replies[<<n, p>>] = "user_not_found" => RowsRead(n) = {}

(* What doc/api.md:20 says: a login queries the local database, and a name *)
(* is reported missing when the query does not find it.                    *)
AnsweredFromDatabase ==
  [][\A n \in Names, p \in Passwords :
       Login(n, p) /\ replies'[<<n, p>>] = "user_not_found" =>
         \A i \in DOMAIN users : users[i].name # n]_vars
===============================================================================
