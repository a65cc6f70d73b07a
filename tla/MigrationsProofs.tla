-------------------------- MODULE MigrationsProofs --------------------------
(***************************************************************************)
(* Proofs about Migrations, for any builds and any number of commands.     *)
(*                                                                         *)
(* What a command reads from the ledger holds until it commits because it  *)
(* reads and commits under the advisory lock, and because the lock of a    *)
(* session that has lost its client is held until its COMMIT is decided.   *)
(* That the earlier files are there then follows from the order of the     *)
(* loop: a command carries Applied(c), all its files up to the one it is   *)
(* at, from one file to the next, and no step takes an entry away.         *)
(***************************************************************************)
EXTENDS Migrations, TLAPS

(* The lock is held by who works under it.                                 *)
Locked ==
  /\ \A c \in Commands : pc[c] \in UnderLock => lock = c
  /\ orphan # Nothing => lock = Orphan

(* The files of build b before v are applied.                              *)
AppliedBefore(b, v) ==
  \A w \in Versions : w < v => b[w] \in {Absent, ledger[w]}

Progress ==
  /\ \A c \in Commands :
       /\ pc[c] \in Running \cup {"done"} =>
            AppliedBefore(build[c], at[c])
       /\ pc[c] \in {"executing", "committing"} =>
            /\ at[c] <= Last
            /\ Embedded(c) \in Checksums
       /\ pc[c] \in {"bootstrapping", "inserting", "done"} => at[c] > Last
       /\ pc[c] = "done" => account = "super_administrator"
  /\ orphan # Nothing =>
       \E b \in Builds :
         /\ b[orphan.version] = orphan.checksum
         /\ AppliedBefore(b, orphan.version)

IInv == TypeOK /\ Locked /\ LedgerReadHolds /\ Progress

(* A step applies one file at most, and takes no entry away.               *)
StepOnTop ==
  \A v \in Versions : ledger'[v] # ledger[v] =>
    /\ ledger[v] = NotApplied
    /\ \E b \in Builds :
         /\ ledger'[v] = b[v]
         /\ \A w \in 1..(v - 1) : b[w] \in {Absent, ledger[w]}

-----------------------------------------------------------------------------
LEMMA Initially == Init => IInv
<1> USE MigrationsAssumption
<1> SUFFICES ASSUME Init PROVE IInv
  OBVIOUS
<1>1. TypeOK
  BY DEF Init, TypeOK, Versions, Ended, Running, UnderLock
<1>2. Locked /\ LedgerReadHolds /\ Progress
  BY DEF Init, Locked, LedgerReadHolds, Progress, UnderLock, Running
<1>q. QED
  BY <1>1, <1>2 DEF IInv

(* The type invariant is inductive by itself but for the bounds of the     *)
(* loop, which the step conditions give.                                   *)
LEMMA TypeStep == TypeOK /\ Progress /\ [Next]_vars => TypeOK'
<1> USE MigrationsAssumption
<1> SUFFICES ASSUME TypeOK, Progress, [Next]_vars PROVE TypeOK'
  OBVIOUS
<1> USE DEF TypeOK, Ended, Running, UnderLock
<1>1. CASE UNCHANGED vars
  BY <1>1 DEF vars, database, commands
<1>2. ASSUME NEW c \in Commands, Start(c) PROVE TypeOK'
  BY <1>2 DEF Start, Goto, database
<1>3. ASSUME NEW c \in Commands, Lock(c) PROVE TypeOK'
  BY <1>3 DEF Lock, Goto
<1>4. ASSUME NEW c \in Commands, CreateLedger(c) PROVE TypeOK'
  BY <1>4 DEF CreateLedger, Goto, database
<1>5. ASSUME NEW c \in Commands, Skip(c) PROVE TypeOK'
  BY <1>5 DEF Skip, database
<1>6. ASSUME NEW c \in Commands, Mismatch(c) PROVE TypeOK'
  BY <1>6 DEF Mismatch, Goto, database
<1>7. ASSUME NEW c \in Commands, Execute(c) PROVE TypeOK'
  BY <1>7 DEF Execute, Goto, database
<1>8. ASSUME NEW c \in Commands, Record(c) PROVE TypeOK'
  BY <1>8 DEF Record, Goto, database
<1>9. ASSUME NEW c \in Commands, Commit(c) PROVE TypeOK'
  <2>1. at[c] <= Last /\ Embedded(c) \in Checksums
    BY <1>9 DEF Commit, Progress
  <2>q. QED
    BY <1>9, <2>1 DEF Commit, Goto, Versions
<1>10. ASSUME NEW c \in Commands, StatementFails(c) PROVE TypeOK'
  BY <1>10 DEF StatementFails, Goto, database
<1>11. ASSUME NEW c \in Commands, Unlock(c) PROVE TypeOK'
  BY <1>11 DEF Unlock, Goto
<1>12. ASSUME NEW c \in Commands, LookUp(c) PROVE TypeOK'
  BY <1>12 DEF LookUp, Goto, database
<1>13. ASSUME NEW c \in Commands, Insert(c) PROVE TypeOK'
  BY <1>13 DEF Insert, Goto
<1>14. ASSUME NEW c \in Commands, LoseConnection(c) PROVE TypeOK'
  <2>1. pc[c] = "committing" => at[c] \in Versions /\ Embedded(c) \in Checksums
    BY DEF Progress, Versions
  <2>q. QED
    BY <1>14, <2>1 DEF LoseConnection, Goto
<1>15. CASE Register
  BY <1>15 DEF Register, commands
<1>16. CASE CommitOrphan
  <2>1. orphan.version \in Versions /\ orphan.checksum \in Checksums
    BY <1>16 DEF CommitOrphan
  <2>q. QED
    BY <1>16, <2>1 DEF CommitOrphan, commands
<1>17. CASE EndSession
  BY <1>17 DEF EndSession, commands
<1>q. QED
  BY <1>1, <1>2, <1>3, <1>4, <1>5, <1>6, <1>7, <1>8, <1>9, <1>10, <1>11, <1>12,
     <1>13, <1>14, <1>15, <1>16, <1>17 DEF Next

LEMMA LockStep == TypeOK /\ Locked /\ [Next]_vars => Locked'
<1> USE MigrationsAssumption
<1> SUFFICES ASSUME TypeOK, Locked, [Next]_vars PROVE Locked'
  OBVIOUS
<1> USE DEF TypeOK, Locked, Running, Ended, UnderLock, Goto
<1>1. CASE UNCHANGED vars
  BY <1>1 DEF vars, database, commands
<1>2. ASSUME NEW c \in Commands, Start(c) \/ CreateLedger(c) \/ Skip(c) \/ Mismatch(c)
      PROVE Locked'
  BY <1>2 DEF Start, CreateLedger, Skip, Mismatch, database
<1>3. ASSUME NEW c \in Commands, Lock(c) PROVE Locked'
  BY <1>3 DEF Lock, LockFree
<1>4. ASSUME NEW c \in Commands, Execute(c) \/ Record(c) \/ StatementFails(c) \/ LookUp(c)
      PROVE Locked'
  BY <1>4 DEF Execute, Record, StatementFails, LookUp, database
<1>5. ASSUME NEW c \in Commands, Commit(c) \/ Insert(c) PROVE Locked'
  BY <1>5 DEF Commit, Insert
<1>6. ASSUME NEW c \in Commands, Unlock(c) PROVE Locked'
  BY <1>6 DEF Unlock
<1>7. ASSUME NEW c \in Commands, LoseConnection(c) PROVE Locked'
  <2>1. CASE lock = c
    BY <1>7, <2>1 DEF LoseConnection
  <2>2. CASE lock # c
    BY <1>7, <2>2 DEF LoseConnection
  <2>q. QED
    BY <2>1, <2>2
<1>8. CASE Register \/ CommitOrphan \/ EndSession
  BY <1>8 DEF Register, CommitOrphan, EndSession, commands
<1>q. QED
  BY <1>1, <1>2, <1>3, <1>4, <1>5, <1>6, <1>7, <1>8 DEF Next

(* Only a holder of the lock changes the ledger, on top of what it found.  *)
LEMMA LedgerStep ==
  IInv /\ [Next]_vars =>
    \/ ledger' = ledger
    \/ \E v \in Versions, b \in Builds :
         /\ ledger[v] = NotApplied
         /\ ledger' = [ledger EXCEPT ![v] = b[v]]
         /\ b[v] \in Checksums
         /\ AppliedBefore(b, v)
         /\ \/ \E c \in Commands : Commit(c) /\ at[c] = v
            \/ CommitOrphan
<1> USE MigrationsAssumption
<1> SUFFICES ASSUME IInv, [Next]_vars
             PROVE \/ ledger' = ledger
                   \/ \E v \in Versions, b \in Builds :
                        /\ ledger[v] = NotApplied
                        /\ ledger' = [ledger EXCEPT ![v] = b[v]]
                        /\ b[v] \in Checksums
                        /\ AppliedBefore(b, v)
                        /\ \/ \E c \in Commands : Commit(c) /\ at[c] = v
                           \/ CommitOrphan
  OBVIOUS
<1> USE DEF IInv
<1>1. ASSUME NEW c \in Commands, Commit(c)
      PROVE \E v \in Versions, b \in Builds :
              /\ ledger[v] = NotApplied
              /\ ledger' = [ledger EXCEPT ![v] = b[v]]
              /\ b[v] \in Checksums
              /\ AppliedBefore(b, v)
              /\ \E d \in Commands : Commit(d) /\ at[d] = v
  <2>1. pc[c] = "committing" /\ ledger' = [ledger EXCEPT ![at[c]] = Embedded(c)]
    BY <1>1 DEF Commit
  <2>2. at[c] \in Versions
    BY <2>1 DEF Progress, TypeOK, Versions
  <2>3. ledger[at[c]] = NotApplied
    BY <2>1 DEF LedgerReadHolds, Recorded
  <2>4. AppliedBefore(build[c], at[c]) /\ Embedded(c) \in Checksums
    BY <2>1 DEF Progress, UnderLock, Running
  <2>5. build[c] \in Builds
    BY DEF TypeOK
  <2>q. QED
    BY <1>1, <2>1, <2>2, <2>3, <2>4, <2>5 DEF Embedded
<1>2. CASE CommitOrphan
  <2>1. orphan # Nothing /\ ledger' = [ledger EXCEPT ![orphan.version] = orphan.checksum]
    BY <1>2 DEF CommitOrphan
  <2>2. orphan.version \in Versions /\ orphan.checksum \in Checksums
    BY <2>1 DEF TypeOK
  <2>3. ledger[orphan.version] = NotApplied
    BY <2>1 DEF LedgerReadHolds
  <2>4. PICK b \in Builds :
          b[orphan.version] = orphan.checksum /\ AppliedBefore(b, orphan.version)
    BY <2>1 DEF Progress
  <2>q. QED
    BY <1>2, <2>1, <2>2, <2>3, <2>4
<1>3. CASE UNCHANGED vars \/ Register \/ EndSession
  BY <1>3 DEF vars, database, Register, EndSession
<1>4. ASSUME NEW c \in Commands,
             \/ Start(c) \/ Lock(c) \/ CreateLedger(c) \/ Skip(c) \/ Mismatch(c)
             \/ Execute(c) \/ Record(c)
      PROVE ledger' = ledger
  BY <1>4 DEF Start, Lock, CreateLedger, Skip, Mismatch, Execute, Record, database
<1>5. ASSUME NEW c \in Commands,
             \/ StatementFails(c) \/ Unlock(c) \/ LookUp(c) \/ Insert(c)
             \/ LoseConnection(c)
      PROVE ledger' = ledger
  BY <1>5 DEF StatementFails, Unlock, LookUp, Insert, LoseConnection, database
<1>q. QED
  BY <1>1, <1>2, <1>3, <1>4, <1>5 DEF Next

(* What was applied stays applied.                                         *)
LEMMA AppliedStays ==
  ASSUME IInv, [Next]_vars, NEW b \in Builds, NEW v \in 1..(Last + 1),
         AppliedBefore(b, v)
  PROVE  AppliedBefore(b, v)'
<1> USE MigrationsAssumption
<1>1. CASE ledger' = ledger
  BY <1>1 DEF AppliedBefore
<1>2. ASSUME NEW u \in Versions, NEW x \in Builds,
             ledger[u] = NotApplied, ledger' = [ledger EXCEPT ![u] = x[u]]
      PROVE AppliedBefore(b, v)'
  <2>1. \A w \in Versions : b[w] # NotApplied
    OBVIOUS
  <2>2. \A w \in Versions : ledger'[w] = ledger[w] \/ ledger[w] = NotApplied
    BY <1>2 DEF IInv, TypeOK
  <2>q. QED
    BY <2>1, <2>2 DEF AppliedBefore
<1>q. QED
  BY <1>1, <1>2, LedgerStep

LEMMA ReadStep == IInv /\ [Next]_vars => LedgerReadHolds'
<1> USE MigrationsAssumption
<1> SUFFICES ASSUME IInv, [Next]_vars PROVE LedgerReadHolds'
  OBVIOUS
<1> USE DEF IInv, TypeOK, LedgerReadHolds, Recorded, Goto
<1>1. CASE UNCHANGED vars
  BY <1>1 DEF vars, database, commands
<1>2. ASSUME NEW c \in Commands,
             Start(c) \/ Lock(c) \/ CreateLedger(c) \/ Skip(c) \/ Mismatch(c)
      PROVE LedgerReadHolds'
  BY <1>2 DEF Start, Lock, CreateLedger, Skip, Mismatch, database, Ended
<1>3. ASSUME NEW c \in Commands,
             Execute(c) \/ Record(c) \/ StatementFails(c) \/ LookUp(c)
      PROVE LedgerReadHolds'
  BY <1>3 DEF Execute, Record, StatementFails, LookUp, database
<1>4. ASSUME NEW c \in Commands, Unlock(c) \/ Insert(c) PROVE LedgerReadHolds'
  BY <1>4 DEF Unlock, Insert
<1>5. ASSUME NEW c \in Commands, Commit(c) PROVE LedgerReadHolds'
  <2>1. lock = c /\ lock # Orphan /\ orphan = Nothing
    BY <1>5 DEF Commit, Locked, UnderLock
  <2>2. \A d \in Commands : d # c => pc[d] \notin UnderLock
    BY <2>1 DEF Locked
  <2>q. QED
    BY <1>5, <2>1, <2>2 DEF Commit, UnderLock
<1>6. ASSUME NEW c \in Commands, LoseConnection(c) PROVE LedgerReadHolds'
  <2>1. ledger' = ledger /\ at' = at /\ pc' = [pc EXCEPT ![c] = "failed"]
    BY <1>6 DEF LoseConnection
  <2>2. \A d \in Commands : pc'[d] \in {"executing", "committing"} => ledger'[at'[d]] = NotApplied
    BY <2>1
  <2>3. CASE lock = c /\ pc[c] = "committing"
    <3>1. orphan' = [version |-> at[c], checksum |-> Embedded(c)]
      BY <1>6, <2>3 DEF LoseConnection
    <3>q. QED
      BY <2>1, <2>2, <2>3, <3>1
  <2>4. CASE ~(lock = c /\ pc[c] = "committing")
    <3>1. orphan' \in {orphan, Nothing}
      BY <1>6, <2>4 DEF LoseConnection
    <3>q. QED
      BY <2>1, <2>2, <3>1
  <2>q. QED
    BY <2>3, <2>4
<1>7. CASE CommitOrphan
  <2>1. \A d \in Commands : pc[d] \notin UnderLock
    BY <1>7 DEF CommitOrphan, Locked
  <2>q. QED
    BY <1>7, <2>1 DEF CommitOrphan, UnderLock, commands
<1>8. CASE Register \/ EndSession
  BY <1>8 DEF Register, EndSession, commands
<1>q. QED
  BY <1>1, <1>2, <1>3, <1>4, <1>5, <1>6, <1>7, <1>8 DEF Next

(* An administrator stays one, and who is not at the next file or the next *)
(* label keeps what it had.                                                *)
LEMMA AccountStep ==
  [Next]_vars /\ account = "super_administrator" => account' = "super_administrator"
<1> SUFFICES ASSUME [Next]_vars, account = "super_administrator"
             PROVE account' = "super_administrator"
  OBVIOUS
<1>1. CASE UNCHANGED vars \/ Register \/ CommitOrphan \/ EndSession
  BY <1>1 DEF vars, database, Register, CommitOrphan, EndSession
<1>2. ASSUME NEW c \in Commands,
             \/ Start(c) \/ Lock(c) \/ CreateLedger(c) \/ Skip(c) \/ Mismatch(c)
             \/ Execute(c) \/ Record(c)
      PROVE account' = account
  BY <1>2 DEF Start, Lock, CreateLedger, Skip, Mismatch, Execute, Record, database
<1>3. ASSUME NEW c \in Commands,
             \/ Commit(c) \/ StatementFails(c) \/ Unlock(c) \/ LookUp(c)
             \/ LoseConnection(c)
      PROVE account' = account
  BY <1>3 DEF Commit, StatementFails, Unlock, LookUp, LoseConnection, database
<1>4. ASSUME NEW c \in Commands, Insert(c) PROVE account' = account
  BY <1>4 DEF Insert
<1>q. QED
  BY <1>1, <1>2, <1>3, <1>4 DEF Next

(* What Progress says of one command.                                      *)
ProgressOf(c) ==
  /\ pc[c] \in Running \cup {"done"} =>
       AppliedBefore(build[c], at[c])
  /\ pc[c] \in {"executing", "committing"} =>
       /\ at[c] <= Last
       /\ Embedded(c) \in Checksums
  /\ pc[c] \in {"bootstrapping", "inserting", "done"} => at[c] > Last
  /\ pc[c] = "done" => account = "super_administrator"

(* A command that takes no step keeps what it had.                         *)
LEMMA ProgressOfOthers ==
  ASSUME IInv, [Next]_vars, NEW c \in Commands,
         pc'[c] = pc[c], build'[c] = build[c], at'[c] = at[c]
  PROVE  ProgressOf(c)'
<1>1. ProgressOf(c)
  BY DEF IInv, Progress, ProgressOf
<1>2. build[c] \in Builds /\ at[c] \in 1..(Last + 1)
  BY DEF IInv, TypeOK
<1>3. ASSUME NEW b \in Builds, NEW v \in 1..(Last + 1), AppliedBefore(b, v)
      PROVE \A w \in Versions : w < v => b[w] \in {Absent, ledger'[w]}
  BY <1>3, AppliedStays DEF AppliedBefore
<1>4. AppliedBefore(build[c], at[c]) =>
        \A w \in Versions : w < at'[c] => build'[c][w] \in {Absent, ledger'[w]}
  BY <1>2, <1>3
<1>q. QED
  BY <1>1, <1>4, AccountStep DEF ProgressOf, Embedded, AppliedBefore

(* It is enough to show what a step of c does to c.                        *)
LEMMA ProgressIfOne ==
  ASSUME IInv, [Next]_vars, NEW c \in Commands, ProgressOf(c)',
         \A d \in Commands \ {c} : pc'[d] = pc[d] /\ build'[d] = build[d] /\ at'[d] = at[d]
  PROVE  \A d \in Commands : ProgressOf(d)'
<1>1. ASSUME NEW d \in Commands, d # c PROVE ProgressOf(d)'
  BY <1>1, ProgressOfOthers
<1>q. QED
  BY <1>1

LEMMA CommandProgress ==
  IInv /\ [Next]_vars => \A c \in Commands : ProgressOf(c)'
<1> USE MigrationsAssumption
<1> SUFFICES ASSUME IInv, [Next]_vars PROVE \A c \in Commands : ProgressOf(c)'
  OBVIOUS
<1> \A c \in Commands : /\ ProgressOf(c)
                        /\ pc[c] \in Running \cup Ended
                        /\ build[c] \in [Versions -> Checksums \cup {Absent}]
                        /\ build[c] \in Builds
                        /\ at[c] \in 1..(Last + 1)
                        /\ at[c] \in Versions => ledger[at[c]] \in Checksums \cup {NotApplied}
  BY DEF IInv, Progress, ProgressOf, TypeOK
<1>1. CASE UNCHANGED vars \/ Register \/ CommitOrphan \/ EndSession
  BY <1>1, ProgressOfOthers DEF vars, database, commands, Register, CommitOrphan, EndSession
<1>2. ASSUME NEW c \in Commands, Start(c) PROVE \A d \in Commands : ProgressOf(d)'
  <2>1. pc'[c] = "waiting" /\ at'[c] = 1
    BY <1>2 DEF Start, Goto, IInv, TypeOK
  <2>2. ProgressOf(c)'
    BY <2>1 DEF ProgressOf, AppliedBefore, Versions
  <2>3. \A d \in Commands \ {c} : pc'[d] = pc[d] /\ build'[d] = build[d] /\ at'[d] = at[d]
    BY <1>2 DEF Start, Goto, IInv, TypeOK
  <2>q. QED
    BY <2>2, <2>3, ProgressIfOne
<1>3. ASSUME NEW c \in Commands,
             \/ Lock(c) \/ CreateLedger(c) \/ Mismatch(c) \/ Execute(c) \/ Record(c)
             \/ StatementFails(c) \/ Unlock(c)
      PROVE \A d \in Commands : ProgressOf(d)'
  <2>1. /\ at' = at /\ build' = build /\ ledger' = ledger /\ account' = account
        /\ \A d \in Commands \ {c} : pc'[d] = pc[d]
    BY <1>3 DEF Lock, CreateLedger, Mismatch, Execute, Record, StatementFails, Unlock,
                Goto, database, IInv, TypeOK
  <2>2. pc[c] \in Running /\ pc'[c] \in Running \cup {"failed"} /\ pc'[c] # "inserting"
    BY <1>3 DEF Lock, CreateLedger, Mismatch, Execute, Record, StatementFails, Unlock,
                Goto, IInv, TypeOK, Running, UnderLock
  <2>3. pc'[c] \in {"executing", "committing"} => at[c] <= Last /\ Embedded(c) \in Checksums
    <3>1. CASE Execute(c)
      BY <3>1 DEF Execute, Settled, Embedded, Recorded, Versions, Goto
    <3>2. CASE Record(c)
      BY <3>2 DEF Record, ProgressOf
    <3>3. CASE \/ Lock(c) \/ CreateLedger(c) \/ Mismatch(c) \/ StatementFails(c) \/ Unlock(c)
      BY <3>3 DEF Lock, CreateLedger, Mismatch, StatementFails, Unlock, Goto, IInv, TypeOK
    <3>q. QED
      BY <1>3, <3>1, <3>2, <3>3
  <2>4. pc'[c] = "bootstrapping" => at[c] > Last
    BY <1>3 DEF Lock, CreateLedger, Mismatch, Execute, Record, StatementFails, Unlock,
                Goto, IInv, TypeOK
  <2>5. pc'[c] # "done"
    BY <2>2 DEF Running, UnderLock
  <2>6. ProgressOf(c)'
    BY <2>1, <2>2, <2>3, <2>4, <2>5 DEF ProgressOf, AppliedBefore, Embedded
  <2>q. QED
    BY <2>1, <2>6, ProgressIfOne
<1>4. ASSUME NEW c \in Commands, Skip(c) PROVE \A d \in Commands : ProgressOf(d)'
  <2>1. /\ pc[c] = "checking" /\ at[c] <= Last /\ at' = [at EXCEPT ![c] = at[c] + 1]
        /\ pc' = pc /\ build' = build /\ ledger' = ledger
    BY <1>4 DEF Skip, database
  <2>2. AppliedBefore(build[c], at[c])
    BY <2>1 DEF ProgressOf, Running, UnderLock
  <2>3. build[c][at[c]] \in {Absent, ledger[at[c]]}
    BY <1>4 DEF Skip, Settled, Embedded, Recorded
  <2>4. \A w \in Versions : w < at[c] + 1 => build[c][w] \in {Absent, ledger[w]}
    BY <2>2, <2>3 DEF AppliedBefore, Versions
  <2>5. at'[c] = at[c] + 1
    BY <2>1 DEF IInv, TypeOK
  <2>6. ProgressOf(c)'
    BY <2>1, <2>4, <2>5 DEF ProgressOf, AppliedBefore
  <2>q. QED
    BY <2>1, <2>6, ProgressIfOne DEF IInv, TypeOK
<1>5. ASSUME NEW c \in Commands, Commit(c) PROVE \A d \in Commands : ProgressOf(d)'
  <2>1. /\ pc[c] = "committing" /\ at' = [at EXCEPT ![c] = at[c] + 1]
        /\ pc' = [pc EXCEPT ![c] = "checking"] /\ build' = build
        /\ ledger' = [ledger EXCEPT ![at[c]] = build[c][at[c]]]
    BY <1>5 DEF Commit, Goto, Embedded
  <2>2. AppliedBefore(build[c], at[c]) /\ at[c] <= Last
    BY <2>1 DEF ProgressOf, Running, UnderLock
  <2>3. \A w \in Versions : w < at[c] + 1 => build[c][w] \in {Absent, ledger'[w]}
    BY <2>1, <2>2 DEF AppliedBefore, Versions, IInv, TypeOK
  <2>4. at'[c] = at[c] + 1 /\ pc'[c] = "checking"
    BY <2>1 DEF IInv, TypeOK
  <2>5. ProgressOf(c)'
    BY <2>1, <2>3, <2>4 DEF ProgressOf, AppliedBefore
  <2>q. QED
    BY <2>1, <2>5, ProgressIfOne DEF IInv, TypeOK
<1>6. ASSUME NEW c \in Commands, LookUp(c) \/ Insert(c)
      PROVE \A d \in Commands : ProgressOf(d)'
  <2>1. /\ at' = at /\ build' = build /\ ledger' = ledger
        /\ \A d \in Commands \ {c} : pc'[d] = pc[d]
    BY <1>6 DEF LookUp, Insert, Goto, database, IInv, TypeOK
  <2>2. /\ pc[c] \in {"bootstrapping", "inserting"}
        /\ pc'[c] \in {"inserting", "done", "failed"}
        /\ pc'[c] = "done" => account' = "super_administrator"
    BY <1>6 DEF LookUp, Insert, Goto, database, IInv, TypeOK, IsAdministrator
  <2>3. AppliedBefore(build[c], at[c]) /\ at[c] > Last
    BY <2>2 DEF ProgressOf, Running
  <2>4. ProgressOf(c)'
    BY <2>1, <2>2, <2>3 DEF ProgressOf, AppliedBefore
  <2>q. QED
    BY <2>1, <2>4, ProgressIfOne
<1>7. ASSUME NEW c \in Commands, LoseConnection(c)
      PROVE \A d \in Commands : ProgressOf(d)'
  <2>1. /\ pc' = [pc EXCEPT ![c] = "failed"] /\ at' = at /\ build' = build
    BY <1>7 DEF LoseConnection, Goto
  <2>2. ProgressOf(c)'
    BY <2>1 DEF ProgressOf, Running, UnderLock, IInv, TypeOK
  <2>q. QED
    BY <2>1, <2>2, ProgressIfOne DEF IInv, TypeOK
<1>q. QED
  BY <1>1, <1>2, <1>3, <1>4, <1>5, <1>6, <1>7 DEF Next

(* What a lost session may still commit is on top of its build, too.       *)
LEMMA OrphanProgress ==
  IInv /\ [Next]_vars =>
    (orphan # Nothing =>
       \E b \in Builds : /\ b[orphan.version] = orphan.checksum
                         /\ AppliedBefore(b, orphan.version))'
<1> USE MigrationsAssumption
<1> SUFFICES ASSUME IInv, [Next]_vars, orphan' # Nothing
             PROVE \E b \in Builds :
                     /\ b[orphan'.version] = orphan'.checksum
                     /\ \A w \in Versions :
                          w < orphan'.version => b[w] \in {Absent, ledger'[w]}
  BY DEF AppliedBefore
<1>1. CASE orphan' = orphan
  <2>1. PICK b \in Builds :
          b[orphan.version] = orphan.checksum /\ AppliedBefore(b, orphan.version)
    BY <1>1 DEF IInv, Progress
  <2>2. orphan.version \in 1..(Last + 1)
    BY <1>1 DEF IInv, TypeOK, Versions
  <2>3. ASSUME NEW v \in 1..(Last + 1), AppliedBefore(b, v)
        PROVE \A w \in Versions : w < v => b[w] \in {Absent, ledger'[w]}
    BY <2>3, AppliedStays DEF AppliedBefore
  <2>q. QED
    BY <1>1, <2>1, <2>2, <2>3
<1>2. CASE orphan' # orphan
  <2>1. PICK c \in Commands : LoseConnection(c) /\ lock = c /\ pc[c] = "committing"
    <3>1. CASE \/ UNCHANGED vars \/ Register \/ CommitOrphan \/ EndSession
      BY <1>2, <3>1 DEF vars, database, Register, CommitOrphan, EndSession
    <3>2. ASSUME NEW c \in Commands,
                 \/ Start(c) \/ Lock(c) \/ CreateLedger(c) \/ Skip(c) \/ Mismatch(c)
                 \/ Execute(c) \/ Record(c) \/ Commit(c) \/ StatementFails(c)
                 \/ Unlock(c) \/ LookUp(c) \/ Insert(c)
          PROVE orphan' = orphan
      BY <3>2 DEF Start, Lock, CreateLedger, Skip, Mismatch, Execute, Record, Commit,
                  StatementFails, Unlock, LookUp, Insert, database
    <3>3. ASSUME NEW c \in Commands, LoseConnection(c)
          PROVE lock = c /\ pc[c] = "committing"
      BY <1>2, <3>3 DEF LoseConnection
    <3>q. QED
      BY <1>2, <3>1, <3>2, <3>3 DEF Next
  <2>2. /\ orphan' = [version |-> at[c], checksum |-> build[c][at[c]]]
        /\ ledger' = ledger
    BY <2>1 DEF LoseConnection, Embedded
  <2>3. AppliedBefore(build[c], at[c]) /\ build[c] \in Builds
    BY <2>1 DEF IInv, Progress, Running, UnderLock, TypeOK
  <2>q. QED
    BY <2>2, <2>3 DEF AppliedBefore
<1>q. QED
  BY <1>1, <1>2

LEMMA Inductive == IInv /\ [Next]_vars => IInv'
<1> SUFFICES ASSUME IInv, [Next]_vars PROVE IInv'
  OBVIOUS
<1>1. TypeOK'
  BY TypeStep DEF IInv
<1>2. Locked'
  BY LockStep DEF IInv
<1>3. LedgerReadHolds'
  BY ReadStep
<1>4. Progress'
  BY CommandProgress, OrphanProgress DEF Progress, ProgressOf
<1>q. QED
  BY <1>1, <1>2, <1>3, <1>4 DEF IInv
-----------------------------------------------------------------------------
THEOREM Invariant == Spec => []IInv
<1>q. QED
  BY Initially, Inductive, PTL DEF Spec

(* Every variable keeps its type in every reachable state.                 *)
THEOREM TypeCorrect == Spec => []TypeOK
<1>1. IInv => TypeOK
  BY DEF IInv
<1>q. QED
  BY Invariant, <1>1, PTL

(* applyMigration may read the ledger outside its transaction: the lock    *)
(* keeps what it read true until it commits, lost sessions included.       *)
THEOREM ReadHolds == Spec => []LedgerReadHolds
<1>1. IInv => LedgerReadHolds
  BY DEF IInv
<1>q. QED
  BY Invariant, <1>1, PTL

(* Whatever builds migrate, in whatever order, the schema never has a file *)
(* without the files it was written against.                               *)
THEOREM OnTop == Spec => AppliedOnTop
<1>1. IInv /\ [Next]_vars => [StepOnTop]_vars
  <2> USE MigrationsAssumption
  <2> SUFFICES ASSUME IInv, [Next]_vars PROVE StepOnTop
    OBVIOUS
  <2>1. CASE ledger' = ledger
    BY <2>1 DEF StepOnTop
  <2>2. ASSUME NEW u \in Versions, NEW b \in Builds, ledger[u] = NotApplied,
               ledger' = [ledger EXCEPT ![u] = b[u]], AppliedBefore(b, u)
        PROVE StepOnTop
    <3>1. \A v \in Versions : ledger'[v] # ledger[v] => v = u
      BY <2>2 DEF IInv, TypeOK
    <3>2. ledger'[u] = b[u]
      BY <2>2 DEF IInv, TypeOK
    <3>3. \A w \in 1..(u - 1) : b[w] \in {Absent, ledger[w]}
      BY <2>2 DEF AppliedBefore, Versions
    <3>q. QED
      BY <2>2, <3>1, <3>2, <3>3 DEF StepOnTop
  <2>q. QED
    BY <2>1, <2>2, LedgerStep
<1>q. QED
  BY Invariant, <1>1, PTL DEF AppliedOnTop, StepOnTop, Spec

(* A migrate command that succeeds leaves its schema and a super           *)
(* administrator, and nothing that runs later takes them away.             *)
THEOREM Ready == Spec => []DoneMeansReady
<1>1. IInv => DoneMeansReady
  <2> SUFFICES ASSUME IInv, NEW c \in Commands, pc[c] = "done"
               PROVE /\ \A v \in Versions : build[c][v] \in {Absent, ledger[v]}
                     /\ account = "super_administrator"
    BY DEF DoneMeansReady
  <2>1. AppliedBefore(build[c], at[c]) /\ at[c] > Last /\ account = "super_administrator"
    BY DEF IInv, Progress
  <2>q. QED
    BY <2>1, MigrationsAssumption DEF AppliedBefore, Versions, IInv, TypeOK
<1>q. QED
  BY Invariant, <1>1, PTL
=============================================================================
