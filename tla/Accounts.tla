------------------------------ MODULE Accounts ------------------------------
(***************************************************************************)
(* Accounts: AuthService, UserService and CustomersService.                *)
(*                                                                         *)
(* Customer and User are two tables.  An e-mail address is looked up       *)
(* before an account is inserted, and unique in neither.  One column,      *)
(* codeId, holds whatever code was issued last: to activate the account,   *)
(* or to set a new password.  Handlers of customers write the columns they *)
(* change, those that find the account by e-mail in every account with it. *)
(* Handlers of users read the account and save it whole, an account that   *)
(* was removed meanwhile too.  Codes go out by mail before they are        *)
(* stored.  Staff have routes of their own for what both can do.           *)
(*                                                                         *)
(* A code that has expired is an ordinary failure.  Passwords, profiles    *)
(* and tokens are left out, and so are the handlers that write only them   *)
(* (handleLogin's first password, changePassword_InProfile, uploadAvatar), *)
(* and updateRole, which reads the roles of a user it loads without them   *)
(* and always fails.                                                       *)
(***************************************************************************)
EXTENDS Parties

CONSTANT Emails  \* e-mail addresses

Tables == {"Customer", "User"}

\* Codes are numbered as they are issued; 0 is none.
Codes == 0 .. MaxRows

Account == [table: Tables, email: Emails, active: BOOLEAN, code: Codes]

KJob == [phase: {"idle", "loaded"},
         op: {"none", "register", "create", "many", "issue", "activate", "change",
              "forgot", "save"},
         table: Tables, emails: SUBSET Emails, id: 0 .. MaxRows, code: Codes,
         row: SUBSET Account, about: SUBSET (Tables \X Emails), alone: BOOLEAN]

IdleKJob == [phase |-> "idle", op |-> "none", table |-> "Customer", emails |-> {}, id |-> 0,
             code |-> 0, row |-> {}, about |-> {}, alone |-> TRUE]

VARIABLES
    account, \* the accounts that were inserted
    live,    \* the numbers of the accounts that are still there
    issued,  \* how many codes were issued
    kjob,    \* the requests in flight
    mailed,  \* ghost: the code that each account was mailed last
    spends,  \* ghost: how often each code was spent
    again,   \* ghost: codes that were put back, stored in two accounts, or left in
             \* an account whose address had changed
    jumbled  \* ghost: addresses whose requests did not take turns

accountVars == <<account, live, issued, kjob, mailed, spends, again, jumbled>>

KDatabase == <<account, live, mailed, spends, again, jumbled>>

---------------------------------------------------------------------------

With(t, e) == {a \in live : account[a].table = t /\ account[a].email = e}

\* What an account is about.
Subject(a) == <<account[a].table, account[a].email>>

KBusy == {k \in Clerks : kjob[k].phase # "idle"}

\* A request starts, having issued n codes; no request about the same
\* addresses is alone from now on.
KStart(k, j, n) ==
    LET rivals == {i \in KBusy : kjob[i].about \cap j.about # {}} IN
    /\ k \notin KBusy
    /\ issued + n <= inUse.rows
    /\ issued' = issued + n
    /\ kjob' = [i \in Clerks |->
                   IF i = k THEN [j EXCEPT !.phase = "loaded", !.alone = rivals = {}]
                   ELSE IF i \in rivals THEN [kjob[i] EXCEPT !.alone = FALSE]
                   ELSE kjob[i]]

KDone(k) == kjob' = [kjob EXCEPT ![k] = IdleKJob]

\* The addresses that the end of request j leaves jumbled.
Jumble(j) == jumbled' = IF j.alone THEN jumbled ELSE jumbled \cup j.about

\* A code is spent; what was put back is no longer counted.
Spend(code) ==
    spends' = [c \in Codes |-> IF c = code /\ c \notin {0} \cup again THEN spends[c] + 1
                                                                      ELSE spends[c]]

---------------------------------------------------------------------------
(* Opening an account *)

\* Mutant: nobody looks for the address.
FreeMutant(t, e) == TRUE

\* Whether the address is free.
Free(t, e) == With(t, e) = {}

\* The address was free; n codes are issued for the account.
OpenLoad(k, op, t, e, n) ==
    /\ Free(t, e)
    /\ KStart(k, [IdleKJob EXCEPT !.op = op, !.table = t, !.emails = {e},
                     !.code = n * (issued + 1), !.about = {<<t, e>>}], n)
    /\ UNCHANGED KDatabase

\* A code is mailed.
Register(k, t, e) == Uses("register") /\ OpenLoad(k, "register", t, e, 1)

\* An account that staff create is active at once, and has a code all the same.
CreateUser(k, e) == Uses("createUser") /\ OpenLoad(k, "create", "User", e, 1)

CreateCustomerByPageAdmin(k, e) ==
    Uses("createCustomerByPageAdmin") /\ OpenLoad(k, "create", "Customer", e, 1)

\* The first login through Google or Facebook.
HandleValidation(k, e) ==
    Uses("handleValidation") /\ OpenLoad(k, "create", "Customer", e, 0)

\* The insert (in register: the COMMIT, which a failed mail prevents).
OpenSave(k) ==
    LET j == kjob[k] IN
    /\ j.op \in {"register", "create"}
    /\ HasRoom(account)
    /\ live' = live \cup {Len(account) + 1}
    /\ \E e \in j.emails :
          account' = Append(account, [table |-> j.table, email |-> e,
                                      active |-> j.op = "create", code |-> j.code])
    /\ mailed' = Append(mailed, IF j.op = "register" THEN j.code ELSE 0)
    /\ Jumble(j)
    /\ KDone(k)
    /\ UNCHANGED <<issued, spends, again>>

\* The addresses that are free are kept, to be taken one after the other.
CreateManyUsers(k, set) ==
    LET valid == {e \in set : Free("User", e)} IN
    /\ Uses("createManyUsers")
    /\ valid # {}
    /\ KStart(k, [IdleKJob EXCEPT !.op = "many", !.table = "User", !.emails = valid,
                     !.about = {"User"} \X valid], 0)
    /\ UNCHANGED KDatabase

\* The next address, if it is free still (KAbort if not).
ManyFind(k, e) ==
    /\ kjob[k].op = "many" /\ kjob[k].row = {}
    /\ e \in kjob[k].emails /\ Free("User", e)
    /\ issued < inUse.rows
    /\ issued' = issued + 1
    /\ kjob' = [kjob EXCEPT ![k].row = {[table |-> "User", email |-> e, active |-> TRUE,
                                         code |-> issued + 1]}]
    /\ UNCHANGED KDatabase

\* No transaction: what was inserted stays when a later address fails.
ManyInsert(k) ==
    LET j == kjob[k] IN
    /\ j.op = "many"
    /\ HasRoom(account)
    /\ \E row \in j.row :
          LET left == j.emails \ {row.email} IN
          /\ account' = Append(account, row)
          /\ IF left = {} THEN KDone(k)
                          ELSE kjob' = [kjob EXCEPT ![k].row = {}, ![k].emails = left]
    /\ live' = live \cup {Len(account) + 1}
    /\ mailed' = Append(mailed, 0)
    /\ Jumble(j)
    /\ UNCHANGED <<issued, spends, again>>

---------------------------------------------------------------------------
(* Codes *)

\* A code is issued for an account that was found by its address.
IssueLoad(k, a) ==
    KStart(k, [IdleKJob EXCEPT !.op = "issue", !.table = account[a].table,
                  !.code = issued + 1, !.emails = {account[a].email},
                  !.about = {Subject(a)}], 1)

\* The code is mailed, with the number of the account.
RetryActive(k, a) ==
    /\ Uses("retryActive")
    /\ a \in live
    /\ IssueLoad(k, a)
    /\ mailed' = [mailed EXCEPT ![a] = issued + 1]
    /\ UNCHANGED <<account, live, spends, again, jumbled>>

\* The same for customers.
RetryPassword(k, a) ==
    /\ Uses("retryPassword")
    /\ a \in live /\ account[a].table = "Customer"
    /\ IssueLoad(k, a)
    /\ mailed' = [mailed EXCEPT ![a] = issued + 1]
    /\ UNCHANGED <<account, live, spends, again, jumbled>>

\* And for users, whom nobody mails: that is commented out.
RetryPasswordAdmin(k, a) ==
    /\ Uses("retryPasswordAdmin")
    /\ a \in live /\ account[a].table = "User"
    /\ IssueLoad(k, a)
    /\ UNCHANGED KDatabase

\* Mutant: the code that is stored is not the one that was mailed.
IssueSaveMutant(k) ==
    LET j == kjob[k]
        set == UNION {With(j.table, e) : e \in j.emails}
    IN
    /\ j.op = "issue"
    /\ account' = [a \in DOMAIN account |-> IF a \in set THEN [account[a] EXCEPT !.code = 0]
                                              ELSE account[a]]
    /\ again' = IF Cardinality(set) > 1 THEN again \cup {j.code} ELSE again
    /\ Jumble(j)
    /\ KDone(k)
    /\ UNCHANGED <<live, issued, mailed, spends>>

\* Then it is stored, in all accounts with the address.
IssueSave(k) ==
    LET j == kjob[k]
        set == UNION {With(j.table, e) : e \in j.emails}
    IN
    /\ j.op = "issue"
    /\ account' = [a \in DOMAIN account |-> IF a \in set THEN [account[a] EXCEPT !.code = j.code]
                                              ELSE account[a]]
    /\ again' = IF Cardinality(set) > 1 THEN again \cup {j.code} ELSE again
    /\ Jumble(j)
    /\ KDone(k)
    /\ UNCHANGED <<live, issued, mailed, spends>>

\* What verifyActivationCode answers, and handleActive asks.
CodeFits(a, code) == code # 0 /\ account[a].code = code

\* The code of account a is about to be spent.
SpendLoad(k, op, a) ==
    /\ KStart(k, [IdleKJob EXCEPT !.op = op, !.table = account[a].table, !.id = a,
                     !.code = account[a].code, !.emails = {account[a].email},
                     !.about = {Subject(a)}], 0)
    /\ UNCHANGED KDatabase

\* The account is found by its number and the code,
HandleActive(k, a, code) ==
    /\ Uses("handleActive")
    /\ a \in live /\ CodeFits(a, code)
    /\ SpendLoad(k, "activate", a)

\* or, a customer, by the address and the code.
ChangePassword(k, a, code) ==
    /\ Uses("changePassword")
    /\ a \in live /\ CodeFits(a, code) /\ account[a].table = "Customer"
    /\ SpendLoad(k, "change", a)

\* Mutant: the code stays.
SpentCodeMutant(row) == row.code

\* The code of a row whose code was spent.
SpentCode(row) == 0

\* The columns are written without looking at the code again, in the accounts
\* that have the address by now.
SpendSave(k) ==
    LET j == kjob[k]
        set == IF j.op = "activate" THEN {j.id} \cap live
                                    ELSE UNION {With(j.table, e) : e \in j.emails}
    IN
    /\ j.op \in {"activate", "change"}
    /\ account' = [a \in DOMAIN account |->
                      IF a \in set
                        THEN [account[a] EXCEPT !.code = SpentCode(account[a]),
                                                !.active = @ \/ j.op = "activate"]
                        ELSE account[a]]
    /\ Spend(j.code)
    /\ again' = IF j.id \in live \ set THEN again \cup {j.code} ELSE again
    /\ Jumble(j)
    /\ KDone(k)
    /\ UNCHANGED <<live, issued, mailed>>

---------------------------------------------------------------------------
(* Users, saved whole *)

\* forgotPassword (a new code, mailed or not), resetPassword (spends a code),
\* basicResetPassword (forgets the code) and update (a new address, perhaps
\* the old one).  row is the account as it will be saved.
UserLoad(k, op, a, row, code, n) ==
    /\ a \in live
    /\ account[a].table = "User"
    /\ KStart(k, [IdleKJob EXCEPT !.op = op, !.table = "User", !.id = a, !.row = {row},
                     !.code = code, !.about = {Subject(a), <<"User", row.email>>}], n)
    /\ UNCHANGED KDatabase

ForgotPassword(k, a) ==
    /\ Uses("forgotPassword")
    /\ account[a].active
    /\ UserLoad(k, "forgot", a, [account[a] EXCEPT !.code = issued + 1], 0, 1)

\* What verifyResetPasswordToken answers: a code of any kind will do.
TokenFits(a) == account[a].code # 0

ResetPassword(k, a) ==
    /\ Uses("resetPassword")
    /\ TokenFits(a)
    /\ UserLoad(k, "save", a, [account[a] EXCEPT !.code = SpentCode(account[a])],
                account[a].code, 0)

BasicResetPassword(k, a) ==
    /\ Uses("basicResetPassword")
    /\ UserLoad(k, "save", a, [account[a] EXCEPT !.code = 0], 0, 0)

UpdateUser(k, a, e) ==
    /\ Uses("updateUser")
    /\ UserLoad(k, "save", a, [account[a] EXCEPT !.email = e], 0, 0)

\* The whole row, which puts a spent code back if it was read before, and
\* inserts a removed account again.
UserSave(k) ==
    LET j == kjob[k] IN
    /\ j.op \in {"forgot", "save"}
    /\ \E row \in j.row :
          /\ account' = [account EXCEPT ![j.id] = row]
          /\ again' = IF j.op = "save" /\ (row.code # account[j.id].code \/ j.id \notin live)
                        THEN again \cup ({row.code} \ {0}) ELSE again
          /\ jumbled' = IF j.alone /\ row.email = account[j.id].email
                          THEN jumbled ELSE jumbled \cup j.about
    /\ live' = live \cup {j.id}
    /\ Spend(j.code)
    /\ KDone(k)
    /\ UNCHANGED <<issued, mailed>>

---------------------------------------------------------------------------

\* CustomersService.update writes a new address without looking for it.
UpdateCustomer(a, e) ==
    /\ Uses("updateCustomer")
    /\ a \in live
    /\ account[a].table = "Customer" /\ account[a].email # e
    /\ account' = [account EXCEPT ![a].email = e]
    /\ jumbled' = jumbled \cup {Subject(a), <<"Customer", e>>}
    /\ UNCHANGED <<live, issued, kjob, mailed, spends, again>>

RemoveAccount(a, t) ==
    /\ a \in live /\ account[a].table = t
    /\ live' = live \ {a}
    /\ UNCHANGED <<account, issued, kjob, mailed, spends, again, jumbled>>

RemoveUser(a) == Uses("removeUser") /\ RemoveAccount(a, "User")

\* The reviews go first (CascadeReview of Reviews).
RemoveCustomer(a) == Uses("removeCustomer") /\ RemoveAccount(a, "Customer")

\* A check refuses, a statement or a mail fails, or the server stops; a code
\* that went out is never stored then.
KAbort(k) ==
    LET j == kjob[k] IN
    /\ k \in KBusy
    /\ jumbled' = IF j.op = "issue" THEN jumbled \cup j.about ELSE jumbled
    /\ KDone(k)
    /\ UNCHANGED <<account, live, issued, mailed, spends, again>>

---------------------------------------------------------------------------

KInit ==
    /\ account = <<>> /\ live = {} /\ issued = 0
    /\ kjob = [k \in Clerks |-> IdleKJob]
    /\ mailed = <<>>
    /\ spends = [c \in Codes |-> 0]
    /\ again = {} /\ jumbled = {}

AuthController(k) ==
    \/ \E e \in Emails : HandleValidation(k, e) \/ \E t \in Tables : Register(k, t, e)
    \/ \E a \in live :
          \/ RetryActive(k, a) \/ RetryPassword(k, a) \/ RetryPasswordAdmin(k, a)
          \/ \E code \in Codes : HandleActive(k, a, code) \/ ChangePassword(k, a, code)
          \/ ForgotPassword(k, a) \/ ResetPassword(k, a) \/ BasicResetPassword(k, a)

UserController(k) ==
    \/ \E e \in Emails : CreateUser(k, e) \/ \E a \in live : UpdateUser(k, a, e)
    \/ \E set \in SUBSET Emails : CreateManyUsers(k, set)
    \/ \E a \in live : RemoveUser(a)

CustomersController(k) ==
    \/ \E e \in Emails :
          CreateCustomerByPageAdmin(k, e) \/ \E a \in live : UpdateCustomer(a, e)
    \/ \E a \in live : RemoveCustomer(a)

KNext ==
    \E k \in Clerks :
        \/ AuthController(k) \/ UserController(k) \/ CustomersController(k)
        \/ \E e \in Emails : ManyFind(k, e)
        \/ OpenSave(k) \/ ManyInsert(k)
        \/ IssueSave(k) \/ SpendSave(k) \/ UserSave(k)
        \/ KAbort(k)

---------------------------------------------------------------------------
(* Properties *)

\* Two accounts of a table share an e-mail address only after requests about
\* it overlapped or an update brought the address (register, createUser,
\* createManyUsers, createCustomerByPageAdmin, handleValidation).
OneAccountEach ==
    \A t \in Tables, e \in Emails :
        <<t, e>> \notin jumbled => Cardinality(With(t, e)) <= 1

\* A code that a customer was mailed works until it is spent, while requests
\* about the customer take turns (retryActive, retryPassword, register).
MailedCodeWorks ==
    \A a \in live :
        /\ account[a].table = "Customer" /\ mailed[a] # 0
        /\ Subject(a) \notin jumbled \cup UNION {kjob[k].about : k \in KBusy}
        => IF account[a].code = 0 THEN spends[mailed[a]] > 0 ELSE account[a].code = mailed[a]

\* A code is spent once, or once by each of the requests that overlap, unless
\* a save of an old copy put it back, or it was spent by an address that was
\* no longer its account's, which keeps it then (handleActive, changePassword,
\* resetPassword).
CodeSpentOnce ==
    \A c \in Codes \ again : spends[c] <= Cardinality(Clerks)

---------------------------------------------------------------------------
(* The inductive invariant behind the three properties *)

AccountsTypeOK ==
    /\ account \in Seq(Account) /\ Len(account) <= MaxRows
    /\ live \subseteq DOMAIN account
    /\ issued \in Codes
    /\ kjob \in [Clerks -> KJob]
    /\ mailed \in Seq(Codes) /\ Len(mailed) = Len(account)
    /\ spends \in [Codes -> Nat] /\ spends[0] = 0

OpenOps == {"register", "create"}
SpendOps == {"activate", "change"}
SaveOps == {"forgot", "save"}

\* A request knows which address and which account it is about.
KSound(j) ==
    /\ j.op = "none" => j.about = {}
    /\ j.op \in OpenOps \cup SpendOps \cup {"issue"} =>
          \E e \in Emails : j.emails = {e} /\ j.about = {<<j.table, e>>}
    /\ j.op \in SpendOps \cup {"issue"} => j.code # 0
    /\ j.op \in SpendOps =>
          /\ j.id \in DOMAIN account /\ account[j.id].table = j.table
          /\ Subject(j.id) \in j.about \cup jumbled
    /\ j.op = "change" => j.table = "Customer"
    /\ j.op = "many" =>
          /\ j.table = "User" /\ {"User"} \X j.emails \subseteq j.about
          /\ j.row # {} => \E row \in Account : /\ j.row = {row} /\ row.table = "User"
                                                /\ row.email \in j.emails
    /\ j.op \in SaveOps =>
          /\ j.id \in DOMAIN account /\ account[j.id].table = "User"
          /\ \E row \in Account : /\ j.row = {row} /\ row.table = "User"
                                  /\ <<"User", row.email>> \in j.about
    /\ j.op \in SaveOps \cup {"many"} => j.about \subseteq {"User"} \X Emails
    /\ j.op = "save" /\ j.code # 0 => \A row \in j.row : row.code = 0
    /\ j.op = "forgot" => j.code = 0 /\ \A row \in j.row : row.code # 0

KJobOK(k) == (kjob[k].phase = "idle" <=> kjob[k].op = "none") /\ KSound(kjob[k])

\* The live accounts that request j is about, unless their address is jumbled.
Concerned(j) == {a \in live : Subject(a) \in j.about \ jumbled}

\* What the request has found is still so.
KTurn(j) ==
    /\ j.op \in OpenOps \cup {"many"} =>
          \A a \in Concerned(j) : account[a].email \notin j.emails
    /\ j.op \in SaveOps =>
          /\ Subject(j.id) \in j.about \cup jumbled
          /\ \A a \in Concerned(j) : Subject(a) = Subject(j.id) => a = j.id
    /\ j.op = "issue" /\ j.table = "Customer" =>
          \A a \in Concerned(j) : mailed[a] \in {0, j.code}
    /\ j.op \in SpendOps /\ j.table = "Customer" =>
          \A a \in Concerned(j) : a = j.id /\ account[a].code = j.code
                                  /\ mailed[a] \in {0, j.code}

\* While a request is alone nobody changes what it has found.
KAloneOK(k) ==
    kjob[k].alone =>
    /\ \A i \in Clerks \ {k} : kjob[i].about \cap kjob[k].about = {}
    /\ KTurn(kjob[k])

\* The requests that are about to spend a code, and those that bring a new one.
Spenders(c) == {k \in Clerks : kjob[k].op \in SpendOps \cup {"save"} /\ kjob[k].code = c}

Brings(j, c) ==
    \/ j.op \in OpenOps \cup {"issue"} /\ j.code = c
    \/ j.op \in {"many", "forgot"} /\ \E row \in j.row : row.code = c

\* A code that was stored.
OnRecord(c) ==
    \/ \E a \in DOMAIN account : account[a].code = c
    \/ \E k \in Clerks : kjob[k].op = "save" /\ \E row \in kjob[k].row : row.code = c
    \/ Spenders(c) # {} \/ spends[c] > 0 \/ c \in again

\* A new code is nowhere else.
NewOK(c) ==
    /\ c > issued => ~OnRecord(c)
    /\ \A k \in Clerks : Brings(kjob[k], c) =>
          /\ c <= issued /\ ~OnRecord(c)
          /\ \A i \in Clerks : Brings(kjob[i], c) => i = k

\* A code that was not put back is unspent while an account has it.
SpendingOK(c) ==
    /\ \A a \in live : account[a].code = c =>
          /\ spends[c] = 0
          /\ \A b \in live : account[b].code = c => b = a
          /\ \A k \in Spenders(c) : kjob[k].id = a
    /\ spends[c] + Cardinality(Spenders(c)) <= Cardinality(Clerks)

\* Customers and users have no codes in common.
CodesApart ==
    \A a \in DOMAIN account : account[a].table = "Customer" /\ account[a].code # 0 =>
        /\ \A b \in DOMAIN account : account[b].table = "User" => account[b].code # account[a].code
        /\ \A k \in Clerks : kjob[k].op = "save" =>
              \A row \in kjob[k].row : row.code # account[a].code

\* While requests take turns an address has one account, and the code that a
\* customer was mailed works or is about to be stored.
TurnOK(a) ==
    /\ \A b \in live : Subject(b) = Subject(a) => b = a
    /\ account[a].table = "Customer" =>
          /\ account[a].code # 0 => account[a].code \notin again
          /\ mailed[a] # 0 =>
                \/ \E k \in Clerks : kjob[k].op = "issue" /\ Subject(a) \in kjob[k].about
                \/ account[a].code = mailed[a]
                \/ account[a].code = 0 /\ spends[mailed[a]] > 0

TurnsOK == \A a \in live : Subject(a) \notin jumbled => TurnOK(a)

AccountsInv ==
    /\ AccountsTypeOK
    /\ \A k \in Clerks : KJobOK(k) /\ KAloneOK(k)
    /\ \A c \in Codes \ {0} : NewOK(c)
    /\ \A c \in Codes \ ({0} \cup again) : SpendingOK(c)
    /\ CodesApart
    /\ TurnsOK

=============================================================================
