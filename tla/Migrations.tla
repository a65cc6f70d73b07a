----------------------------- MODULE Migrations -----------------------------
(***************************************************************************)
(* The migrate command: it brings the schema up to the files embedded in   *)
(* its build, and then creates the first super administrator.              *)
(*                                                                         *)
(* Several commands may run at once, of different builds, and any of them  *)
(* may lose its connection at any statement.  Then the command is over,    *)
(* but the database may still be at work for it: the COMMIT it sent may    *)
(* take effect later, and the advisory lock stays held until the database  *)
(* notices.  The second part of the command runs without the lock.         *)
(*                                                                         *)
(* A file's SQL and its ledger entry are one transaction, so the ledger    *)
(* stands for the schema: a checksum for the content of the file.          *)
(***************************************************************************)
EXTENDS Integers

CONSTANTS
  Commands,    \* processes that run the command
  Last,        \* files are numbered 1 to Last, in the order of their names
  Checksums,   \* contents of a file
  Builds,      \* what a build may embed: a checksum or Absent for each file
  Absent,      \* the build has no such file
  NotApplied,  \* the ledger has no such entry
  Nobody,      \* the advisory lock is free
  Orphan,      \* it is held by a session no command works with
  Nothing,     \* no COMMIT of such a session is under way
  MaxStarts    \* bound on the number of commands started

Versions == 1..Last

(* A build is a set of files, and no checksum is a placeholder.            *)
ASSUME MigrationsAssumption ==
  /\ Last \in Nat /\ MaxStarts \in Nat
  /\ Builds \subseteq [Versions -> Checksums \cup {Absent}]
  /\ NotApplied \notin Checksums \cup {Absent}
  /\ Absent \notin Checksums
  /\ {Nobody, Orphan} \cap Commands = {} /\ Nobody # Orphan
  /\ Nothing \notin [version : Versions, checksum : Checksums]

VARIABLES
  ledger,   \* schema_migrations: the checksum of each version
  lock,     \* the session that holds the advisory lock
  orphan,   \* what a session without a client is about to commit
  account,  \* the account with the bootstrap e-mail
  pc,       \* where each command is
  build,    \* what it embeds
  at,       \* the file it is at; Last + 1 after the loop
  starts    \* commands started so far

database == <<ledger, lock, orphan, account>>
commands == <<pc, build, at>>
vars == <<database, commands, starts>>

(* The labels under the advisory lock, and all of them.                    *)
UnderLock == {"locked", "checking", "executing", "committing", "aborting"}
Running == UnderLock \cup {"waiting", "bootstrapping", "inserting"}
Ended == {"stopped", "failed", "done"}

TypeOK ==
  /\ ledger \in [Versions -> Checksums \cup {NotApplied}]
  /\ lock \in Commands \cup {Nobody, Orphan}
  /\ orphan \in [version : Versions, checksum : Checksums] \cup {Nothing}
  /\ account \in {"none", "user", "super_administrator"}
  /\ pc \in [Commands -> Running \cup Ended]
  /\ build \in [Commands -> Builds]
  /\ at \in [Commands -> 1..(Last + 1)]
  /\ starts \in Nat

Init ==
  /\ ledger = [v \in Versions |-> NotApplied]
  /\ lock = Nobody
  /\ orphan = Nothing
  /\ account = "none"
  /\ pc = [c \in Commands |-> "stopped"]
  /\ build \in {[c \in Commands |-> b] : b \in Builds}
  /\ at = [c \in Commands |-> 1]
  /\ starts = 0

Goto(c, label) == pc' = [pc EXCEPT ![c] = label]

(* The file a command is at, and what its build and the ledger have.       *)
Embedded(c) == build[c][at[c]]
Recorded(c) == ledger[at[c]]
-----------------------------------------------------------------------------
(* migrate starts, with a build of its own, and asks for the lock.         *)
Start(c) ==
  /\ pc[c] \in Ended
  /\ starts < MaxStarts
  /\ starts' = starts + 1
  /\ \E b \in Builds : build' = [build EXCEPT ![c] = b]
  /\ at' = [at EXCEPT ![c] = 1]
  /\ Goto(c, "waiting")
  /\ UNCHANGED database

(* Mutant: no advisory lock.                                               *)
LockIgnored == TRUE

(* pg_advisory_lock returns when no session holds the lock.                *)
LockFree == lock = Nobody

Lock(c) ==
  /\ pc[c] = "waiting" /\ LockFree
  /\ lock' = c
  /\ Goto(c, "locked")
  /\ UNCHANGED <<ledger, orphan, account, build, at, starts>>

(* CREATE TABLE IF NOT EXISTS, and the files in the order of their names.  *)
CreateLedger(c) ==
  /\ pc[c] = "locked"
  /\ Goto(c, "checking")
  /\ UNCHANGED <<database, build, at, starts>>

(* Mutant: an entry is taken for the file, whatever its checksum.          *)
SettledWhateverChecksum(c) ==
  Embedded(c) = Absent \/ Recorded(c) # NotApplied

(* There is nothing to do for this number: no file, or an entry with the   *)
(* checksum of the file.                                                   *)
Settled(c) == Embedded(c) \in {Absent, Recorded(c)}

Skip(c) ==
  /\ pc[c] = "checking" /\ at[c] <= Last /\ Settled(c)
  /\ at' = [at EXCEPT ![c] = @ + 1]
  /\ UNCHANGED <<database, pc, build, starts>>

(* The entry has another checksum: the command gives up.                   *)
Mismatch(c) ==
  /\ pc[c] = "checking" /\ at[c] <= Last /\ ~Settled(c)
  /\ Recorded(c) # NotApplied
  /\ Goto(c, "aborting")
  /\ UNCHANGED <<database, build, at, starts>>

(* There is no entry: a transaction begins and the SQL is executed.        *)
Execute(c) ==
  /\ pc[c] = "checking" /\ at[c] <= Last /\ ~Settled(c)
  /\ Recorded(c) = NotApplied
  /\ Goto(c, "executing")
  /\ UNCHANGED <<database, build, at, starts>>

(* The entry is inserted; its version is the primary key.                  *)
Record(c) ==
  /\ pc[c] = "executing"
  /\ Goto(c, IF Recorded(c) = NotApplied THEN "committing" ELSE "aborting")
  /\ UNCHANGED <<database, build, at, starts>>

Commit(c) ==
  /\ pc[c] = "committing"
  /\ ledger' = [ledger EXCEPT ![at[c]] = Embedded(c)]
  /\ at' = [at EXCEPT ![c] = @ + 1]
  /\ Goto(c, "checking")
  /\ UNCHANGED <<lock, orphan, account, build, starts>>

(* A statement fails; the transaction, if any, is rolled back.             *)
StatementFails(c) ==
  /\ pc[c] \in {"locked", "checking", "executing", "committing"}
  /\ Goto(c, "aborting")
  /\ UNCHANGED <<database, build, at, starts>>

(* unlockMigrations, after the last file or after an error.  That it fails *)
(* is only logged: the command goes on, and the connection it locked with  *)
(* keeps the lock until the database ends its session.                     *)
Unlock(c) ==
  /\ \/ pc[c] = "checking" /\ at[c] > Last /\ Goto(c, "bootstrapping")
     \/ pc[c] = "aborting" /\ Goto(c, "failed")
  /\ lock' \in {Nobody, Orphan}
  /\ UNCHANGED <<ledger, orphan, account, build, at, starts>>
-----------------------------------------------------------------------------
(* Mutant: any account with the e-mail will do.                            *)
IsAdministratorAnyRole == account # "none"

IsAdministrator == account = "super_administrator"

(* EnsureSuperAdmin looks the e-mail up,                                   *)
LookUp(c) ==
  /\ pc[c] = "bootstrapping"
  /\ \/ IsAdministrator /\ Goto(c, "done")
     \/ ~IsAdministrator /\ account = "user" /\ Goto(c, "failed")
     \/ account = "none" /\ Goto(c, "inserting")
  /\ UNCHANGED <<database, build, at, starts>>

(* and inserts the account.  The e-mail is unique, so that of two commands *)
(* at once the later one fails; and the answer to COMMIT may get lost.     *)
Insert(c) ==
  /\ pc[c] = "inserting"
  /\ \/ /\ account = "none"
        /\ account' = "super_administrator"
        /\ \E label \in {"done", "failed"} : Goto(c, label)
     \/ /\ account # "none"
        /\ account' = account
        /\ Goto(c, "failed")
  /\ UNCHANGED <<ledger, lock, orphan, build, at, starts>>

(* Somebody else registers with the e-mail.                                *)
Register ==
  /\ account = "none"
  /\ \E v \in Versions : ledger[v] # NotApplied
  /\ account' = "user"
  /\ UNCHANGED <<ledger, lock, orphan, commands, starts>>
-----------------------------------------------------------------------------
(* A command dies, is cancelled or loses its connection.  What it holds is *)
(* held by its session for now, and what it was committing may be yet.     *)
LoseConnection(c) ==
  /\ pc[c] \in Running
  /\ Goto(c, "failed")
  /\ IF lock = c
     THEN /\ lock' = Orphan
          /\ orphan' = IF pc[c] = "committing"
                       THEN [version |-> at[c], checksum |-> Embedded(c)]
                       ELSE Nothing
     ELSE UNCHANGED <<lock, orphan>>
  /\ UNCHANGED <<ledger, account, build, at, starts>>

CommitOrphan ==
  /\ orphan # Nothing
  /\ ledger' = [ledger EXCEPT ![orphan.version] = orphan.checksum]
  /\ orphan' = Nothing
  /\ UNCHANGED <<lock, account, commands, starts>>

(* The database ends the session: it rolls back and frees the lock.        *)
EndSession ==
  /\ lock = Orphan
  /\ lock' = Nobody
  /\ orphan' = Nothing
  /\ UNCHANGED <<ledger, account, commands, starts>>

Next ==
  \/ \E c \in Commands :
       \/ Start(c) \/ Lock(c) \/ CreateLedger(c)
       \/ Skip(c) \/ Mismatch(c) \/ Execute(c) \/ Record(c) \/ Commit(c)
       \/ StatementFails(c) \/ Unlock(c) \/ LookUp(c) \/ Insert(c)
       \/ LoseConnection(c)
  \/ Register \/ CommitOrphan \/ EndSession

Spec == Init /\ [][Next]_vars
-----------------------------------------------------------------------------
(***************************************************************************)
(* Properties                                                              *)
(***************************************************************************)

(* What applyMigration read from the ledger is still so when it inserts    *)
(* the entry and when it commits, though it reads outside the transaction, *)
(* other commands migrate, and a lost one may still be committing.         *)
LedgerReadHolds ==
  /\ \A c \in Commands :
       pc[c] \in {"executing", "committing"} => Recorded(c) = NotApplied
  /\ orphan # Nothing => ledger[orphan.version] = NotApplied

(* A file is applied once, and only on top of the earlier files of a build *)
(* that has it: whatever builds and failures came before, the schema never *)
(* has a file without what it was written against.                         *)
AppliedOnTop ==
  [][\A v \in Versions : ledger'[v] # ledger[v] =>
       /\ ledger[v] = NotApplied
       /\ \E b \in Builds :
            /\ ledger'[v] = b[v]
            /\ \A w \in 1..(v - 1) : b[w] \in {Absent, ledger[w]}]_vars

(* A command that succeeds leaves the schema of its build behind and a     *)
(* super administrator to sign in with, whoever ran beside it or after it. *)
DoneMeansReady ==
  \A c \in Commands : pc[c] = "done" =>
    /\ \A v \in Versions : build[c][v] \in {Absent, ledger[v]}
    /\ account = "super_administrator"
=============================================================================
