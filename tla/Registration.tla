---------------------------- MODULE Registration ----------------------------
(***************************************************************************)
(* E-mail addresses: auth.service register, verifyEmail,                   *)
(* resendVerificationEmail, requestEmailChange and confirmEmailChange,     *)
(* with user.service updateProfile (and the address adminUpdateUser        *)
(* writes), statement by statement.  The first statement of a request is   *)
(* the action that starts it.                                              *)
(*                                                                         *)
(* A code is right or wrong when it is compared; a wrong one ends the      *)
(* request and is not modelled.  A new code makes a row fresh again.       *)
(* EmailVerificationToken rows are written by resendVerificationEmail and  *)
(* read by nobody, and are left out.                                       *)
(***************************************************************************)
EXTENDS Naturals

CONSTANTS
  Visitors,      \* requests in progress at the same time
  Accounts,      \* identities of User rows
  Emails,        \* addresses
  Typed,         \* those that requests give
  Lower,         \* what trim and toLowerCase make of each
  Signups,       \* identities of PendingRegistration rows
  Changes,       \* identities of EmailChangeRequest rows
  Unwritten      \* no such row, or no row any more

VARIABLES
  account,       \* User: its address
  pending,       \* PendingRegistration, by its unique address
  change,        \* EmailChangeRequest
  visitor        \* what each request is doing

registrationVars == <<account, pending, change, visitor>>

(* signup: history, the registration the account comes from; via: what     *)
(* wrote its address last.                                                 *)
Account == [email : Emails, signup : Signups \cup {Unwritten}, via : {"code", "change", "profile"}]
Pending == [signup : Signups, expired : BOOLEAN]
Change == [account : Accounts, email : Emails, status : {"unused", "expired", "used"}]

ASSUME RegistrationAssumption ==
  /\ Typed \subseteq Emails /\ Emails # {}
  /\ Lower \in [Emails -> Emails]
  /\ \A e \in Emails : Lower[Lower[e]] = Lower[e]
  /\ Signups \cap Changes = {}
  /\ Unwritten \notin Accounts \cup Signups \cup Changes
  /\ Unwritten \notin Account \cup Pending \cup Change

Visitor == [pc : {"idle", "findPending", "insertPending", "create", "renew", "free",
                  "deleteChanges", "insertChange", "findChange", "spend", "write"},
            op : {"register", "verify", "resend", "request", "confirm", "profile"},
            email : Emails, account : Accounts \cup {Unwritten},
            row : Signups \cup Changes \cup {Unwritten}]

IdleVisitor == [pc |-> "idle", op |-> "register", email |-> CHOOSE e \in Emails : TRUE,
                account |-> Unwritten, row |-> Unwritten]

RegistrationTypeOK ==
  /\ account \in [Accounts -> Account \cup {Unwritten}]
  /\ pending \in [Emails -> Pending \cup {Unwritten}]
  /\ change \in [Changes -> Change \cup {Unwritten}]
  /\ visitor \in [Visitors -> Visitor]

(* An account may be there from the start, made by the seed scripts.       *)
RegistrationInit ==
  /\ \E a \in Accounts, e \in Typed, there \in BOOLEAN :
       account = [b \in Accounts |-> IF b = a /\ there
                    THEN [email |-> e, signup |-> Unwritten, via |-> "profile"] ELSE Unwritten]
  /\ pending = [e \in Emails |-> Unwritten]
  /\ change = [c \in Changes |-> Unwritten]
  /\ visitor = [v \in Visitors |-> IdleVisitor]

Taken(e) == \E a \in Accounts : account[a] # Unwritten /\ account[a].email = e
RowsStay == UNCHANGED <<account, pending, change>>
VisitorGoes(v, pc) == visitor' = [visitor EXCEPT ![v].pc = pc]
VisitorEnds(v) == visitor' = [visitor EXCEPT ![v] = IdleVisitor]
Starts(v, pc, op, e, a, row) ==
  /\ visitor[v].pc = "idle"
  /\ visitor' = [visitor EXCEPT ![v] = [pc |-> pc, op |-> op, email |-> e, account |-> a, row |-> row]]
  /\ RowsStay

(* A row is new when no row has its identity and no request remembers it.  *)
NewSignup(s) ==
  /\ \A e \in Emails : pending[e] # Unwritten => pending[e].signup # s
  /\ \A a \in Accounts : account[a] # Unwritten => account[a].signup # s
  /\ \A v \in Visitors : visitor[v].row # s
NewAccount(a) == account[a] = Unwritten /\ \A v \in Visitors : visitor[v].account # a
NewChange(c) == change[c] = Unwritten /\ \A v \in Visitors : visitor[v].row # c

-----------------------------------------------------------------------------
(* register and verifyEmail.  PendingRegistration.email is unique.         *)

Register(v, e) == ~ Taken(e) /\ Starts(v, "findPending", "register", e, Unwritten, Unwritten)

FindPending(v) ==
  /\ visitor[v].pc = "findPending"
  /\ IF pending[visitor[v].email] = Unwritten THEN VisitorGoes(v, "insertPending") ELSE VisitorEnds(v)
  /\ RowsStay

InsertPending(v, s) ==
  /\ visitor[v].pc = "insertPending"
  /\ pending[visitor[v].email] = Unwritten
  /\ NewSignup(s)
  /\ pending' = [pending EXCEPT ![visitor[v].email] = [signup |-> s, expired |-> FALSE]]
  /\ VisitorEnds(v)
  /\ UNCHANGED <<account, change>>

VerifyEmail(v, e) ==
  /\ pending[e] # Unwritten
  /\ ~ pending[e].expired
  /\ Starts(v, "create", "verify", e, Unwritten, pending[e].signup)

RowOf(e) == IF pending[e] = Unwritten THEN Unwritten ELSE pending[e].signup
Born(v) == [email |-> visitor[v].email, signup |-> visitor[v].row, via |-> "code"]

(* The transaction deletes the pending row by its id, which throws when it *)
(* is gone, and creates the user, which throws when the address is taken.  *)
(* Mutant: deleteMany, which does not throw.                               *)
CreateAnyway(v, a) ==
  LET e == visitor[v].email
  IN  /\ visitor[v].pc = "create"
      /\ ~ Taken(e)
      /\ NewAccount(a)
      /\ pending' = [pending EXCEPT ![e] = IF RowOf(e) = visitor[v].row THEN Unwritten ELSE @]
      /\ account' = [account EXCEPT ![a] = Born(v)]
      /\ VisitorEnds(v)
      /\ UNCHANGED change

CreateAccount(v, a) ==
  LET e == visitor[v].email
  IN  /\ visitor[v].pc = "create"
      /\ RowOf(e) = visitor[v].row
      /\ ~ Taken(e)
      /\ NewAccount(a)
      /\ pending' = [pending EXCEPT ![e] = Unwritten]
      /\ account' = [account EXCEPT ![a] = Born(v)]
      /\ VisitorEnds(v)
      /\ UNCHANGED change

ResendVerification(v, e) ==
  /\ pending[e] # Unwritten
  /\ Starts(v, "renew", "resend", e, Unwritten, pending[e].signup)

RenewCode(v) ==
  LET e == visitor[v].email
  IN  /\ visitor[v].pc = "renew"
      /\ RowOf(e) = visitor[v].row
      /\ pending' = [pending EXCEPT ![e].expired = FALSE]
      /\ VisitorEnds(v)
      /\ UNCHANGED <<account, change>>

-----------------------------------------------------------------------------
(* requestEmailChange, confirmEmailChange and updateProfile look up their  *)
(* user, and then whether the address is in use.                           *)

RequestChange(v, a, e) ==
  /\ account[a] # Unwritten
  /\ account[a].email # Lower[e]
  /\ Starts(v, "free", "request", Lower[e], a, Unwritten)

ConfirmChange(v, a, e) ==
  /\ account[a] # Unwritten
  /\ account[a].email # Lower[e]
  /\ Starts(v, "free", "confirm", Lower[e], a, Unwritten)

UpdateProfile(v, a, e) ==
  /\ account[a] # Unwritten
  /\ Starts(v, IF e = account[a].email THEN "write" ELSE "free", "profile", e, a, Unwritten)

FindInUse(v) ==
  /\ visitor[v].pc = "free"
  /\ IF Taken(visitor[v].email) THEN VisitorEnds(v)
     ELSE VisitorGoes(v, CASE visitor[v].op = "request" -> "deleteChanges"
                           [] visitor[v].op = "confirm" -> "findChange"
                           [] OTHER -> "write")
  /\ RowsStay

(* The unused requests of the account go; who had found one finds it gone. *)
DeleteChanges(v) ==
  LET gone == {c \in Changes : /\ change[c] # Unwritten
                               /\ change[c].account = visitor[v].account
                               /\ change[c].status # "used"}
  IN  /\ visitor[v].pc = "deleteChanges"
      /\ change' = [c \in Changes |-> IF c \in gone THEN Unwritten ELSE change[c]]
      /\ visitor' = [w \in Visitors |->
           IF w = v THEN [visitor[v] EXCEPT !.pc = "insertChange"]
           ELSE IF visitor[w].row \in gone THEN [visitor[w] EXCEPT !.row = Unwritten]
           ELSE visitor[w]]
      /\ UNCHANGED <<account, pending>>

InsertChange(v, c) ==
  /\ visitor[v].pc = "insertChange"
  /\ account[visitor[v].account] # Unwritten
  /\ NewChange(c)
  /\ change' = [change EXCEPT ![c] = [account |-> visitor[v].account, email |-> visitor[v].email,
                                      status |-> "unused"]]
  /\ VisitorEnds(v)
  /\ UNCHANGED <<account, pending>>

(* Mutant: the code is looked up without the address it was sent to.       *)
FindAnyChange(v, c) ==
  /\ visitor[v].pc = "findChange"
  /\ change[c] # Unwritten
  /\ change[c].account = visitor[v].account /\ change[c].status = "unused"
  /\ visitor' = [visitor EXCEPT ![v].pc = "spend", ![v].row = c]
  /\ RowsStay

FindChange(v, c) ==
  /\ visitor[v].pc = "findChange"
  /\ change[c] # Unwritten
  /\ change[c].account = visitor[v].account /\ change[c].status = "unused"
  /\ change[c].email = visitor[v].email
  /\ visitor' = [visitor EXCEPT ![v].pc = "spend", ![v].row = c]
  /\ RowsStay

(* What UPDATE "User" does: it throws when the row is gone or the address  *)
(* is another row's.                                                       *)
Writable(v) ==
  /\ account[visitor[v].account] # Unwritten
  /\ \A a \in Accounts \ {visitor[v].account} :
       account[a] # Unwritten => account[a].email # visitor[v].email
WriteAddress(v, via) ==
  account' = [account EXCEPT ![visitor[v].account].email = visitor[v].email,
                             ![visitor[v].account].via = via]

(* Mutant: the two updates are no transaction.                             *)
SpendFirst(v) ==
  /\ visitor[v].pc = "spend"
  /\ visitor[v].row # Unwritten
  /\ change' = [change EXCEPT ![visitor[v].row].status = "used"]
  /\ IF Writable(v) THEN WriteAddress(v, "change") ELSE UNCHANGED account
  /\ VisitorEnds(v)
  /\ UNCHANGED pending

SpendChange(v) ==
  /\ visitor[v].pc = "spend"
  /\ visitor[v].row # Unwritten
  /\ Writable(v)
  /\ change' = [change EXCEPT ![visitor[v].row].status = "used"]
  /\ WriteAddress(v, "change")
  /\ VisitorEnds(v)
  /\ UNCHANGED pending

(* No code is asked for, and the address is stored as typed.               *)
WriteProfile(v) ==
  /\ visitor[v].pc = "write"
  /\ Writable(v)
  /\ WriteAddress(v, IF account[visitor[v].account].email = visitor[v].email
                     THEN account[visitor[v].account].via ELSE "profile")
  /\ VisitorEnds(v)
  /\ UNCHANGED <<pending, change>>

-----------------------------------------------------------------------------
(* A statement throws, for one of the reasons above or any other, and its  *)
(* transaction rolls back; an account is deleted, and its change requests  *)
(* with it; time passes.                                                   *)

VisitorFails(v) == visitor[v].pc # "idle" /\ VisitorEnds(v) /\ RowsStay

DeleteAccount(a) ==
  LET gone == {c \in Changes : change[c] # Unwritten /\ change[c].account = a}
  IN  /\ account[a] # Unwritten
      /\ account' = [account EXCEPT ![a] = Unwritten]
      /\ change' = [c \in Changes |-> IF c \in gone THEN Unwritten ELSE change[c]]
      /\ visitor' = [v \in Visitors |-> IF visitor[v].row \in gone
                                        THEN [visitor[v] EXCEPT !.row = Unwritten] ELSE visitor[v]]
      /\ UNCHANGED pending

PendingExpires(e) ==
  /\ pending[e] # Unwritten /\ ~ pending[e].expired
  /\ pending' = [pending EXCEPT ![e].expired = TRUE]
  /\ UNCHANGED <<account, change, visitor>>

ChangeExpires(c) ==
  /\ change[c] # Unwritten /\ change[c].status = "unused"
  /\ change' = [change EXCEPT ![c].status = "expired"]
  /\ UNCHANGED <<account, pending, visitor>>

RegistrationNext ==
  \/ \E v \in Visitors :
       \/ \E e \in Typed : Register(v, e) \/ VerifyEmail(v, e) \/ ResendVerification(v, e)
       \/ \E a \in Accounts, e \in Typed :
            RequestChange(v, a, e) \/ ConfirmChange(v, a, e) \/ UpdateProfile(v, a, e)
       \/ FindPending(v) \/ RenewCode(v) \/ FindInUse(v)
       \/ \E s \in Signups : InsertPending(v, s)
       \/ \E a \in Accounts : CreateAccount(v, a)
       \/ DeleteChanges(v) \/ SpendChange(v) \/ WriteProfile(v) \/ VisitorFails(v)
       \/ \E c \in Changes : InsertChange(v, c) \/ FindChange(v, c)
  \/ \E a \in Accounts : DeleteAccount(a)
  \/ \E e \in Emails : PendingExpires(e)
  \/ \E c \in Changes : ChangeExpires(c)

RegistrationSpec == RegistrationInit /\ [][RegistrationNext]_registrationVars

-----------------------------------------------------------------------------
(* Properties.                                                             *)

(* A registration makes at most one account, even when its code is entered *)
(* twice at the same time and the first account has moved to another       *)
(* address before the second transaction runs.                             *)
RegisteredOnce ==
  \A a, b \in Accounts :
    (/\ account[a] # Unwritten /\ account[b] # Unwritten
     /\ account[a].signup = account[b].signup /\ account[a].signup # Unwritten) => a = b

(* The code of an e-mail change is spent exactly when the account gets the *)
(* address, also when another account takes the address in between.        *)
SpentWithAddress ==
  [][\A c \in Changes :
       (/\ change[c] # Unwritten /\ change[c].status # "used"
        /\ change'[c] # Unwritten /\ change'[c].status = "used") =>
       /\ account'[change[c].account] # Unwritten
       /\ account'[change[c].account].email = change[c].email]_registrationVars

(* An address an account got through an e-mail change is one that login,   *)
(* which lower-cases what is typed, can find, and one that a code was sent *)
(* to and answered from.                                                   *)
ChangedAddressAnswered ==
  \A a \in Accounts : (account[a] # Unwritten /\ account[a].via = "change") =>
    /\ account[a].email = Lower[account[a].email]
    /\ \E c \in Changes : change[c] = [account |-> a, email |-> account[a].email, status |-> "used"]
=============================================================================
