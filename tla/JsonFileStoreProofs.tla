------------------------ MODULE JsonFileStoreProofs ------------------------
(***************************************************************************)
(* Theorems about JsonFileStore: its types, the mutual exclusion that the  *)
(* lock file gives, what an orphaned lock file still guards, and that the  *)
(* store implements LedgerStore.                                           *)
(***************************************************************************)
EXTENDS JsonFileStore, TLAPS

\* What keeps the lock's protection and the refinement inductive: between load and rename the
\* ledger a call works on is the one in the file, and only calls of transact compute or throw.
WorksOnFile ==
    \A t \in Transactions :
        /\ pc[t] \in {"computed", "written"} => t \notin Reads /\ state[t] = file
        /\ outcome[t] = "threw" => t \notin Reads

StoreInv == TypeOK /\ LockProtects /\ WorksOnFile

-----------------------------------------------------------------------------
\* A call that ends leaves the types of pc, outcome and ahead in order.
LEMMA EndType ==
    ASSUME TypeOK, NEW t \in Transactions, NEW answer \in Outcomes \ {"none"}, End(t, answer)
    PROVE  /\ pc' \in [Transactions -> Positions]
           /\ outcome' \in [Transactions -> Outcomes]
           /\ ahead' \in [Transactions -> SUBSET Transactions]
           /\ \A u \in Transactions :
                 /\ pc'[u] \in {"unlocking", "ended"} => outcome'[u] # "none"
                 /\ pc'[u] \notin {"unlocking", "ended"} => outcome'[u] = "none"
BY DEF TypeOK, End, Goto, Positions

\* The same of a call that goes to the finally block.
LEMMA FinallyType ==
    ASSUME TypeOK, NEW t \in Transactions, NEW answer \in Outcomes \ {"none"}, Finally(t, answer)
    PROVE  /\ pc' \in [Transactions -> Positions]
           /\ outcome' \in [Transactions -> Outcomes]
           /\ ahead' \in [Transactions -> SUBSET Transactions]
           /\ \A u \in Transactions :
                 /\ pc'[u] \in {"unlocking", "ended"} => outcome'[u] # "none"
                 /\ pc'[u] \notin {"unlocking", "ended"} => outcome'[u] = "none"
BY DEF TypeOK, Finally, Goto, Positions

LEMMA InitType == Init => TypeOK
BY StoreAssumption DEF Init, TypeOK, Positions, Outcomes

LEMMA NextType == TypeOK /\ [Next]_vars => TypeOK'
<1> SUFFICES ASSUME TypeOK, [Next]_vars PROVE TypeOK'
  OBVIOUS
<1> USE StoreAssumption
<1>1. ASSUME NEW t \in Transactions, Call(t) PROVE TypeOK'
  BY <1>1 DEF TypeOK, Call, Goto, Positions
<1>2. ASSUME NEW t \in Transactions,
             Enter(t) \/ CreateLock(t) \/ DeadlinePasses(t) \/ WritePid(t) \/ WriteTemp(t)
      PROVE  TypeOK'
  BY <1>2 DEF TypeOK, Enter, CreateLock, DeadlinePasses, WritePid, WriteTemp, Goto, Positions
<1>3. ASSUME NEW t \in Transactions,
             TimeOut(t) \/ LockError(t) \/ WritePidFails(t) \/ UnlockFails(t)
      PROVE  TypeOK'
  <2>1. End(t, "error")
    BY <1>3 DEF TimeOut, LockError, WritePidFails, UnlockFails
  <2> QED
    BY <1>3, <2>1, EndType DEF TypeOK, Outcomes, TimeOut, LockError, WritePidFails, UnlockFails
<1>4. ASSUME NEW t \in Transactions, Unlock(t) PROVE TypeOK'
  <2>1. outcome[t] \in Outcomes \ {"none"} /\ End(t, outcome[t])
    BY <1>4 DEF TypeOK, Unlock
  <2> QED
    BY <1>4, <2>1, EndType DEF TypeOK, Unlock
<1>5. ASSUME NEW t \in Transactions, Load(t) PROVE TypeOK'
  <2>1. state' \in [Transactions -> Seq(Transactions)]
    BY <1>5 DEF TypeOK, Load
  <2>2. CASE Finally(t, "ok") \/ Finally(t, "threw")
    BY <1>5, <2>1, <2>2, FinallyType DEF TypeOK, Load, Outcomes
  <2>3. CASE Goto(t, "computed") /\ UNCHANGED <<outcome, ahead>>
    BY <1>5, <2>1, <2>3 DEF TypeOK, Load, Goto, Positions
  <2> QED
    BY <1>5, <2>2, <2>3 DEF Load
<1>6. ASSUME NEW t \in Transactions, RenameTemp(t) PROVE TypeOK'
  <2>1. file' \in Seq(Transactions)
    BY <1>6 DEF TypeOK, RenameTemp
  <2> QED
    BY <1>6, <2>1, FinallyType DEF TypeOK, RenameTemp, Outcomes
<1>7. ASSUME NEW t \in Transactions, FileError(t) PROVE TypeOK'
  BY <1>7, FinallyType DEF TypeOK, FileError, Outcomes
<1>8. ASSUME NEW p \in Processes, Crash(p) PROVE TypeOK'
  BY <1>8 DEF TypeOK, Crash, Active, Positions, Outcomes
<1>9. ASSUME NEW p \in Processes, Restart(p) PROVE TypeOK'
  BY <1>9 DEF TypeOK, Restart
<1>10. CASE UNCHANGED vars
  BY <1>10 DEF TypeOK, vars
<1> QED
  BY <1>1, <1>2, <1>3, <1>4, <1>5, <1>6, <1>7, <1>8, <1>9, <1>10 DEF Next, Step, Failure

\* Every variable keeps its shape, and a call has an answer when it knows one and not before,
\* for any number of calls and processes, failures and crashes (store.ts transact).
THEOREM TypeCorrect == Spec => []TypeOK
BY InitType, NextType, PTL DEF Spec

-----------------------------------------------------------------------------
\* One case for each group of steps; in all of them the lock has at most one owner, so a step
\* of t that needs the lock leaves the ledger and the work of every other call alone.
LEMMA NextLock ==
    ASSUME StoreInv, [Next]_vars
    PROVE  LockProtects'
<1> USE DEF StoreInv, LockProtects, InCriticalSection
<1>1. ASSUME NEW t \in Transactions,
             \/ Call(t) \/ Enter(t) \/ CreateLock(t) \/ DeadlinePasses(t) \/ WritePid(t)
             \/ Load(t) \/ WriteTemp(t) \/ RenameTemp(t) \/ FileError(t)
      PROVE  LockProtects'
  BY <1>1, StoreAssumption DEF TypeOK, Call, Enter, CreateLock, DeadlinePasses, WritePid, Load,
     WriteTemp, RenameTemp, FileError, Goto, Finally
<1>2. ASSUME NEW t \in Transactions,
             TimeOut(t) \/ LockError(t) \/ WritePidFails(t) \/ UnlockFails(t)
      PROVE  LockProtects'
  BY <1>2 DEF TypeOK, TimeOut, LockError, WritePidFails, UnlockFails, End, Goto
<1>3. ASSUME NEW t \in Transactions, Unlock(t) PROVE LockProtects'
  <2>1. \A u \in Transactions \ {t} : ~InCriticalSection(u)
    BY <1>3 DEF Unlock
  <2> QED
    BY <1>3, <2>1 DEF TypeOK, Unlock, End, Goto
<1>4. ASSUME NEW p \in Processes, Crash(p) \/ Restart(p) PROVE LockProtects'
  BY <1>4 DEF TypeOK, Crash, Restart, Active
<1>5. CASE UNCHANGED vars
  BY <1>5 DEF vars
<1> QED
  BY <1>1, <1>2, <1>3, <1>4, <1>5 DEF Next, Step, Failure

LEMMA NextWork ==
    ASSUME StoreInv, [Next]_vars
    PROVE  WorksOnFile'
<1> USE DEF StoreInv, WorksOnFile
<1>1. ASSUME NEW t \in Transactions,
             \/ Call(t) \/ Enter(t) \/ CreateLock(t) \/ DeadlinePasses(t) \/ WritePid(t)
             \/ WriteTemp(t) \/ FileError(t) \/ TimeOut(t) \/ LockError(t)
             \/ WritePidFails(t) \/ UnlockFails(t) \/ Unlock(t)
      PROVE  WorksOnFile'
  BY <1>1 DEF TypeOK, Call, Enter, CreateLock, DeadlinePasses, WritePid, WriteTemp, FileError,
     TimeOut, LockError, WritePidFails, UnlockFails, Unlock, End, Finally, Goto
<1>2. ASSUME NEW t \in Transactions, Load(t) PROVE WorksOnFile'
  BY <1>2 DEF TypeOK, Load, Finally, Goto
<1>3. ASSUME NEW t \in Transactions, RenameTemp(t) PROVE WorksOnFile'
  <2>1. \A u \in Transactions \ {t} : pc[u] \notin {"computed", "written"}
    BY <1>3 DEF RenameTemp, LockProtects, InCriticalSection
  <2> QED
    BY <1>3, <2>1 DEF TypeOK, RenameTemp, Finally, Goto
<1>4. ASSUME NEW p \in Processes, Crash(p) \/ Restart(p) PROVE WorksOnFile'
  BY <1>4 DEF TypeOK, Crash, Restart, Active
<1>5. CASE UNCHANGED vars
  BY <1>5 DEF vars
<1> QED
  BY <1>1, <1>2, <1>3, <1>4, <1>5 DEF Next, Step, Failure

LEMMA InitStore == Init => StoreInv
BY InitType DEF Init, StoreInv, LockProtects, WorksOnFile, InCriticalSection

LEMMA NextStore == StoreInv /\ [Next]_vars => StoreInv'
BY NextType, NextLock, NextWork DEF StoreInv

LEMMA StoreCorrect == Spec => []StoreInv
BY InitStore, NextStore, PTL DEF Spec

\* Mutual exclusion: whoever is between open and unlink owns the lock file, for any number of
\* processes and calls, whatever fails or crashes (store.ts acquireFileLock).
THEOREM LockIsExclusive == Spec => []LockProtects
<1>1. StoreInv => LockProtects
  BY DEF StoreInv
<1> QED
  BY <1>1, StoreCorrect, PTL

-----------------------------------------------------------------------------
\* Behind a lock file whose creator is gone, no step changes the ledger or the lock, and none
\* gives a call its ok.
LEMMA OrphanStep ==
    ASSUME StoreInv, [Next]_vars, Orphaned
    PROVE  /\ UNCHANGED <<file, lock>>
           /\ \A t \in Transactions : outcome'[t] = "ok" => outcome[t] = "ok"
<1> USE DEF StoreInv, Orphaned
<1>1. \A t \in Transactions : ~InCriticalSection(t)
  BY DEF LockProtects
<1>2. ASSUME NEW t \in Transactions, Call(t) \/ Step(t) \/ Failure(t)
      PROVE  /\ UNCHANGED <<file, lock>>
             /\ \A u \in Transactions : outcome'[u] = "ok" => outcome[u] = "ok"
  BY <1>1, <1>2 DEF TypeOK, InCriticalSection, Step, Failure, Call, Enter, CreateLock,
     DeadlinePasses, TimeOut, WritePid, Load, WriteTemp, RenameTemp, Unlock, LockError,
     WritePidFails, FileError, UnlockFails, End, Goto
<1>3. ASSUME NEW p \in Processes, Crash(p) \/ Restart(p)
      PROVE  /\ UNCHANGED <<file, lock>>
             /\ \A u \in Transactions : outcome'[u] = "ok" => outcome[u] = "ok"
  BY <1>3 DEF Crash, Restart
<1> QED
  BY <1>2, <1>3 DEF Next, vars

\* The store fails closed behind an orphaned lock file, for any number of calls (store.ts:113).
THEOREM FailsClosed == Spec => OrphanFailsClosed
<1>1. StoreInv /\ [Next]_vars =>
          [Orphaned => /\ UNCHANGED <<file, lock>>
                       /\ \A t \in Transactions : outcome'[t] = "ok" => outcome[t] = "ok"]_vars
  BY OrphanStep
<1> QED
  BY <1>1, StoreCorrect, PTL DEF Spec, OrphanFailsClosed

-----------------------------------------------------------------------------
\* LedgerStore's status and view change where StatusOf and ViewOf do.
LEMMA AbstractFail ==
    ASSUME NEW failing \in SUBSET Transactions, UNCHANGED file,
           \A t \in failing : /\ StatusOf(t) \in {"pending", "effective"}
                              /\ StatusOf(t)' = "failed" /\ ViewOf(t)' = <<>>,
           \A t \in Transactions \ failing : UNCHANGED <<StatusOf(t), ViewOf(t)>>
    PROVE  [Abstract!Next]_(Abstract!storeVars)
<1>1. CASE failing = {}
  BY <1>1 DEF Abstract!storeVars
<1>2. CASE failing # {}
  <2>1. Abstract!Fail
    BY <1>2 DEF Abstract!Fail
  <2> QED
    BY <2>1 DEF Abstract!Next
<1> QED
  BY <1>1, <1>2

\* Every step of the file system is a step of the atomic store: a transaction takes effect when
\* its temporary file replaces the ledger, a read when it loads, and a crash fails all the
\* calls of its process at once.
LEMMA StepImplements ==
    ASSUME StoreInv, [Next]_vars
    PROVE  [Abstract!Next]_(Abstract!storeVars)
<1> USE DEF StoreInv
<1>1. ASSUME NEW t \in Transactions, Call(t) PROVE [Abstract!Next]_(Abstract!storeVars)
  <2>1. Abstract!Begin(t)
    BY <1>1 DEF TypeOK, Call, Goto, Abstract!Begin, StatusOf, ViewOf
  <2> QED
    BY <2>1 DEF Abstract!Next
<1>2. ASSUME NEW t \in Transactions,
             \/ Enter(t) \/ CreateLock(t) \/ DeadlinePasses(t) \/ WritePid(t) \/ WriteTemp(t)
             \/ FileError(t)
      PROVE  [Abstract!Next]_(Abstract!storeVars)
  <2>1. UNCHANGED <<file, [u \in Transactions |-> StatusOf(u)], [u \in Transactions |-> ViewOf(u)]>>
    BY <1>2 DEF TypeOK, Enter, CreateLock, DeadlinePasses, WritePid, WriteTemp, FileError, Finally,
       Goto, StatusOf, ViewOf
  <2> QED
    BY <2>1 DEF Abstract!storeVars
<1>3. ASSUME NEW t \in Transactions, Load(t) PROVE [Abstract!Next]_(Abstract!storeVars)
  <2>1. CASE t \in Reads /\ Finally(t, "ok")
    <3>1. Abstract!TakeEffect(t)
      BY <1>3, <2>1 DEF TypeOK, Load, Finally, Goto, Abstract!TakeEffect, StatusOf, ViewOf
    <3> QED
      BY <3>1 DEF Abstract!Next
  <2>2. CASE \/ t \notin Reads /\ Finally(t, "threw")
             \/ t \notin Reads /\ Goto(t, "computed") /\ UNCHANGED <<outcome, ahead>>
    <3>1. UNCHANGED <<file, [u \in Transactions |-> StatusOf(u)],
                      [u \in Transactions |-> ViewOf(u)]>>
      BY <1>3, <2>2 DEF TypeOK, Load, Finally, Goto, StatusOf, ViewOf
    <3> QED
      BY <3>1 DEF Abstract!storeVars
  <2> QED
    BY <1>3, <2>1, <2>2 DEF Load
<1>4. ASSUME NEW t \in Transactions, RenameTemp(t) PROVE [Abstract!Next]_(Abstract!storeVars)
  <2>1. t \notin Reads /\ state[t] = file
    BY <1>4 DEF RenameTemp, WorksOnFile
  <2>2. Abstract!TakeEffect(t)
    BY <1>4, <2>1 DEF TypeOK, RenameTemp, Finally, Goto, Abstract!TakeEffect, StatusOf, ViewOf
  <2> QED
    BY <2>2 DEF Abstract!Next
<1>5. ASSUME NEW t \in Transactions, Unlock(t) PROVE [Abstract!Next]_(Abstract!storeVars)
  <2>1. CASE outcome[t] = "ok"
    <3>1. Abstract!Return(t)
      BY <1>5, <2>1 DEF TypeOK, Unlock, End, Goto, Abstract!Return, StatusOf, ViewOf
    <3> QED
      BY <3>1 DEF Abstract!Next
  <2>2. CASE outcome[t] = "threw"
    <3>1. Abstract!Throw(t)
      BY <1>5, <2>2 DEF TypeOK, WorksOnFile, Unlock, End, Goto, Abstract!Throw, StatusOf, ViewOf
    <3> QED
      BY <3>1 DEF Abstract!Next
  <2>3. CASE outcome[t] = "error"
    <3>1. UNCHANGED file
      BY <1>5 DEF Unlock
    <3>2. StatusOf(t) = "pending" /\ StatusOf(t)' = "failed" /\ ViewOf(t)' = <<>>
      BY <1>5, <2>3 DEF TypeOK, Unlock, End, Goto, StatusOf, ViewOf
    <3>3. \A u \in Transactions \ {t} : UNCHANGED <<StatusOf(u), ViewOf(u)>>
      BY <1>5 DEF TypeOK, Unlock, End, Goto, StatusOf, ViewOf
    <3> QED
      BY <3>1, <3>2, <3>3, AbstractFail
  <2> QED
    BY <1>5, <2>1, <2>2, <2>3 DEF TypeOK, Unlock, Outcomes
<1>6. ASSUME NEW t \in Transactions,
             TimeOut(t) \/ LockError(t) \/ WritePidFails(t) \/ UnlockFails(t)
      PROVE  [Abstract!Next]_(Abstract!storeVars)
  <2>1. UNCHANGED file /\ UNCHANGED state
    BY <1>6 DEF TimeOut, LockError, WritePidFails, UnlockFails
  <2>2. StatusOf(t) \in {"pending", "effective"} /\ StatusOf(t)' = "failed" /\ ViewOf(t)' = <<>>
    BY <1>6 DEF TypeOK, TimeOut, LockError, WritePidFails, UnlockFails, End, Goto, StatusOf, ViewOf
  <2>3. \A u \in Transactions \ {t} : UNCHANGED <<StatusOf(u), ViewOf(u)>>
    BY <1>6, <2>1 DEF TypeOK, TimeOut, LockError, WritePidFails, UnlockFails, End, Goto, StatusOf,
       ViewOf
  <2> QED
    BY <2>1, <2>2, <2>3, AbstractFail
<1>7. ASSUME NEW p \in Processes, Crash(p) PROVE [Abstract!Next]_(Abstract!storeVars)
  <2> DEFINE lost == {t \in Transactions : Active(t) /\ ProcessOf[t] = p}
  <2>1. UNCHANGED file
    BY <1>7 DEF Crash
  <2>2. \A t \in lost : /\ StatusOf(t) \in {"pending", "effective"}
                        /\ StatusOf(t)' = "failed" /\ ViewOf(t)' = <<>>
    BY <1>7 DEF TypeOK, Crash, Active, StatusOf, ViewOf
  <2>3. \A t \in Transactions \ lost : UNCHANGED <<StatusOf(t), ViewOf(t)>>
    BY <1>7 DEF TypeOK, Crash, StatusOf, ViewOf
  <2> QED
    BY <2>1, <2>2, <2>3, AbstractFail
<1>8. CASE UNCHANGED vars \/ \E p \in Processes : Restart(p)
  <2>1. UNCHANGED <<file, [u \in Transactions |-> StatusOf(u)], [u \in Transactions |-> ViewOf(u)]>>
    BY <1>8 DEF vars, Restart, StatusOf, ViewOf
  <2> QED
    BY <2>1 DEF Abstract!storeVars
<1> QED
  BY <1>1, <1>2, <1>3, <1>4, <1>5, <1>6, <1>7, <1>8 DEF Next, Step, Failure

LEMMA InitImplements == Init => Abstract!Init
BY DEF Init, Abstract!Init, StatusOf, ViewOf

\* Mutex, lock file and replaced file make every transact and read one atomic transaction of
\* LedgerStore, for any number of processes and calls, failures and crashes (JsonFileStore).
THEOREM JsonFileStoreIsAtomic == Spec => ImplementsLedgerStore
<1>1. StoreInv /\ [Next]_vars => [Abstract!Next]_(Abstract!storeVars)
  BY StepImplements
<1> QED
  BY <1>1, InitImplements, StoreCorrect, PTL DEF Spec, ImplementsLedgerStore, Abstract!Spec
=============================================================================
