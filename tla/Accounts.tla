------------------------------- MODULE Accounts -------------------------------
(***************************************************************************)
(* The table users, /register and the password half of /login:             *)
(* ChatRegisterHandler, ChatLoginHandler::queryUserId and PasswordHash.cpp.*)
(* (What /login does with the session is LoginSessions.)                   *)
(*                                                                         *)
(* Each statement is a step and may throw.  A hash is a sequence of bytes, *)
(* stored in hexadecimal; the functions that compute it are external, and  *)
(* stand for any that tell passwords apart.                                *)
(***************************************************************************)
EXTENDS Dispatch

CONSTANTS Accounts0,          \* users as an older version left them
          Iterations,         \* kPbkdf2Iterations
          MinIterations,      \* verifyPbkdf2's lower limit
          UniqueNames,        \* does the table have a unique key on the name?
          MaxDbErrors         \* bound: statements that throw

VARIABLES
  users,     \* rows: name, stored password, and the password its owner knows
  dbErrors   \* statements that have thrown

accountVars == <<users, dbErrors>>

AccountsInit == users = Accounts0 /\ dbErrors = 0

-----------------------------------------------------------------------------
(* PasswordHash.cpp.  A string of hex digits is a sequence of 0..15.       *)

kSaltBytes       == 1    \* 16 in the code
kDerivedKeyBytes == 2    \* 32 in the code

\* Variant: no setw(2) and setfill('0').
ToHexUnpadded(bytes) ==
  FlattenSeq([i \in DOMAIN bytes |-> IF bytes[i] < 16 THEN <<bytes[i]>>
                                     ELSE <<bytes[i] \div 16, bytes[i] % 16>>])

ToHex(bytes) == [i \in 1..(2 * Len(bytes)) |->
                   LET byte == bytes[(i + 1) \div 2]
                   IN IF i % 2 = 1 THEN byte \div 16 ELSE byte % 16]

Passwords == 0..255    \* an abstraction: a byte

BadHex(hex) == Len(hex) % 2 # 0 \/ \E i \in DOMAIN hex : hex[i] \notin 0..15

HexToBytes(hex) == [i \in 1..(Len(hex) \div 2) |-> hex[2 * i - 1] * 16 + hex[2 * i]]

Sha256(salt, plain)         == <<plain, (plain + 9) % 256>>
Pbkdf2(plain, salt, rounds) == <<plain, (plain + salt[1] + rounds) % 256>>

Legacy(salt, plain) == [form |-> "sha256", salt |-> salt, hash |-> ToHex(Sha256(salt, plain))]
Plaintext(plain)    == [form |-> "plain", text |-> plain]

HashPassword(plain) ==
  LET salt == <<7>>
  IN [form |-> "pbkdf2_sha256", iterations |-> Iterations, salt |-> ToHex(salt),
      dk |-> ToHex(Pbkdf2(plain, salt, Iterations))]

VerifyPbkdf2(plain, stored) ==
  /\ stored.form = "pbkdf2_sha256"
  /\ stored.iterations >= MinIterations
  /\ ~BadHex(stored.salt) /\ ~BadHex(stored.dk)
  /\ Len(HexToBytes(stored.dk)) = kDerivedKeyBytes
  /\ Len(HexToBytes(stored.salt)) > 0
  /\ HexToBytes(stored.dk) = Pbkdf2(plain, HexToBytes(stored.salt), stored.iterations)

VerifyLegacySha256(plain, stored) ==
  stored.form = "sha256" /\ stored.hash = ToHex(Sha256(stored.salt, plain))

\* Plaintext and unknown formats are rejected.
VerifyPassword(plain, stored) == VerifyPbkdf2(plain, stored) \/ VerifyLegacySha256(plain, stored)

\* The lower limit is not above what is stored today, and what older versions
\* left is a password that its owner knows, in one of three forms.
ASSUME AccountsAssumption ==
  /\ Iterations \in Nat /\ MinIterations \in 0..Iterations /\ MaxDbErrors \in Nat
  /\ UniqueNames \in BOOLEAN
  /\ Accounts0 \in Seq(Range(Accounts0))
  /\ \A i \in DOMAIN Accounts0 :
       LET account == Accounts0[i]
       IN /\ DOMAIN account = {"name", "owner", "stored"}
          /\ account.owner \in Passwords
          /\ \/ account.stored = Plaintext(account.owner)
             \/ account.stored = Legacy(account.stored.salt, account.owner)
             \/ account.stored = HashPassword(account.owner)
  /\ UniqueNames =>
       \A i, j \in DOMAIN Accounts0 : Accounts0[i].name = Accounts0[j].name => i = j

-----------------------------------------------------------------------------
Rows(name) == {i \in DOMAIN users : users[i].name = name}

\* A statement throws: /register has no try block, /login answers 400.
StatementThrows(t) ==
  /\ dbErrors < MaxDbErrors
  /\ \/ th[t].pc \in {"register", "insertUser", "selectId"} /\ Throw(t)
     \/ th[t].pc \in {"login", "upgrade"} /\ Respond(t, 400)
  /\ dbErrors' = dbErrors + 1
  /\ UNCHANGED users

\* isUserExist.
CheckUser(t) == /\ At(t, "register")
                /\ IF Rows(th[t].req.name) # {} THEN Respond(t, 409) ELSE Goto(t, "insertUser")
                /\ UNCHANGED accountVars

\* Variant: the exception of a duplicate name is swallowed.
InsertIgnore(t) ==
  /\ At(t, "insertUser")
  /\ users' = IF Rows(th[t].req.name) # {} THEN users
              ELSE Append(users, [name |-> th[t].req.name, owner |-> th[t].req.password,
                                  stored |-> HashPassword(th[t].req.password)])
  /\ Goto(t, "selectId")
  /\ UNCHANGED dbErrors

\* hashPassword and the INSERT.  A unique key makes the second of two INSERTs of
\* a name throw; the code has nothing else against it.
InsertUser(t) ==
  /\ At(t, "insertUser")
  /\ IF UniqueNames /\ Rows(th[t].req.name) # {} THEN Throw(t) /\ UNCHANGED users
     ELSE /\ users' = Append(users, [name |-> th[t].req.name, owner |-> th[t].req.password,
                                     stored |-> HashPassword(th[t].req.password)])
          /\ Goto(t, "selectId")
  /\ UNCHANGED dbErrors

SelectId(t) == /\ At(t, "selectId")
               /\ \E i \in Rows(th[t].req.name) :
                    Update(t, [pc |-> "after", code |-> 200, id |-> i])
               /\ UNCHANGED accountVars

\* queryUserId: the SELECT and verifyPassword on what it returned.
VerifyUser(t) ==
  LET plain == th[t].req.password
      rows  == Rows(th[t].req.name)
  IN /\ At(t, "login")
     /\ \/ /\ \A i \in rows : ~VerifyPassword(plain, users[i].stored)
           /\ Respond(t, 401)
        \/ \E i \in rows : VerifyPbkdf2(plain, users[i].stored)
                           /\ Update(t, [pc |-> "after", code |-> 200, id |-> i])
        \/ \E i \in rows : VerifyLegacySha256(plain, users[i].stored)
                           /\ Update(t, [pc |-> "upgrade", id |-> i])
     /\ UNCHANGED accountVars

\* Variant: the old hash is hashed instead of the password.
UpgradeStored(t) ==
  /\ At(t, "upgrade")
  /\ users' = [users EXCEPT ![th[t].id].stored = HashPassword(0)]
  /\ Respond(t, 200)
  /\ UNCHANGED dbErrors

\* The UPDATE with the upgraded hash.
Upgrade(t) ==
  /\ At(t, "upgrade")
  /\ users' = [users EXCEPT ![th[t].id].stored = HashPassword(th[t].req.password)]
  /\ Respond(t, 200)
  /\ UNCHANGED dbErrors

AccountStep(t) == /\ \/ StatementThrows(t)
                     \/ CheckUser(t) \/ InsertUser(t) \/ SelectId(t)
                     \/ VerifyUser(t) \/ Upgrade(t)
                  /\ UNCHANGED dispatchVars

-----------------------------------------------------------------------------
\* What the users know opens their accounts and nothing else does, through
\* registration, upgrades of old hashes by several logins at once and statements
\* that throw; a password stored as plaintext opens nothing (README.md:57,
\* verifyPassword).
OwnerCanLogin ==
  \A i \in DOMAIN users : \A p \in {users[j].owner : j \in DOMAIN users} :
    VerifyPassword(p, users[i].stored) <=> p = users[i].owner /\ users[i].stored.form # "plain"

\* A name has one account, and a /register or /login that succeeded did so for
\* the account of that name and with its password, also when two clients
\* register the name at the same time (insertUser, queryUserId).
AnsweredAccountIsOwn ==
  /\ \A i, j \in DOMAIN users : users[i].name = users[j].name => i = j
  /\ \A t \in Threads : "id" \in DOMAIN th[t] =>
       users[th[t].id].name = th[t].req.name /\ users[th[t].id].owner = th[t].req.password
=============================================================================
