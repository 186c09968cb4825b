------------------------------ MODULE PhyProofs ------------------------------
(***************************************************************************)
(* What lies between the driver and the PHY.  The locks of HwLocks exclude *)
(* and leave nothing behind, for any number of threads and resources and   *)
(* every family of adapters: the invariant says, family by family, which   *)
(* bits of the hardware stand for which thread, and holds as long as no    *)
(* code has gone on without the lock.  The accesses made under them reach  *)
(* what they mean, if each function keeps the discipline of PhyDiscipline. *)
(* In the last section, a link that is lost stays known, and the flow      *)
(* control in force is what was asked for.                                 *)
(***************************************************************************)
EXTENDS PhyDiscipline, Link, TLAPS

FlagPcs == {"out", "in", "failed", "poll", "ask", "drop", "undo", "leave", "gate"}
MutexPcs == {"in", "poll", "ask", "drop", "undo", "leave"}
AskingPcs == {"in", "ask", "drop"}

\* The bit of adapter->state, or the mutex, is the thread's whose pc says so; a flag
\* that is asked for or held is the same thread's.
FlagInv ==
  family \in {"ich", "82574"} =>
    /\ ~smbi /\ ~swesmbi
    /\ \A t \in Threads :
         /\ pc[t] \in FlagPcs
         /\ pc[t] \in MutexPcs <=> busy = t
         /\ pc[t] = "in" => flag = "held"
    /\ flag # "clear" => \E t \in Threads : pc[t] \in AskingPcs
    /\ flag = "held" => ~fw

\* Where a thread has SMBI, and where SWESMBI too.
Semaphored(t) ==
  IF family = "82571" THEN pc[t] \in {"latch", "in"}
  ELSE pc[t] \in {"latch", "look", "put", "fail", "glatch", "glook", "gput"}

Latched(t) ==
  IF family = "82571" THEN pc[t] = "in" ELSE pc[t] \in {"look", "put", "fail", "glook", "gput"}

SemFamilyPcs ==
  IF family = "82571" THEN {"out", "in", "failed", "smbi", "latch"}
  ELSE {"out", "in", "failed"} \cup SemPcs \cup GivePcs

\* Each of the two bits is set if and only if one thread has it.
SemInv ==
  family \in {"82571", "80003"} =>
    /\ busy = NoThread /\ flag = "clear"
    /\ \A t \in Threads :
         /\ pc[t] \in SemFamilyPcs
         /\ Semaphored(t) => smbi
         /\ Latched(t) => swesmbi
         /\ \A u \in Threads : Semaphored(t) /\ Semaphored(u) => t = u
    /\ smbi => \E t \in Threads : Semaphored(t)
    /\ swesmbi => \E t \in Threads : Latched(t)
    /\ swesmbi => ~fw

\* SW_FW_SYNC says which resources the threads have; whoever is about to write it back
\* read it since the firmware could change it last.
SyncInv ==
  /\ family # "80003" => sync = {}
  /\ family = "80003" =>
       /\ \A t \in Threads :
            /\ pc[t] \in {"put", "gput"} => seen[t] = sync
            /\ pc[t] = "put" => FreeIn(sync, mask[t])
            /\ Inside(t) => <<mask[t], "sw">> \in sync
            /\ \A u \in Threads : Inside(t) /\ Inside(u) /\ mask[t] = mask[u] => t = u
       /\ \A m \in Masks :
            <<m, "sw">> \in sync =>
              /\ <<m, "fw">> \notin sync
              /\ \E t \in Threads : Inside(t) /\ mask[t] = m

IInv == LockTypeOK /\ (forced = {} => FlagInv /\ SemInv /\ SyncInv)
-----------------------------------------------------------------------------
LEMMA TypeKept ==
  ASSUME LockTypeOK, LockNext
  PROVE  LockTypeOK'
<1> USE DEF LockTypeOK, LockPcs, SemPcs, GivePcs, Goto
<1>1. ASSUME NEW t \in Threads, NEW m \in Masks, Want(t, m)
      PROVE  LockTypeOK'
  BY <1>1 DEF Want
<1>2. ASSUME NEW t \in Threads, TestAndSet(t)
      PROVE  LockTypeOK'
  BY <1>2 DEF TestAndSet
<1>3. ASSUME NEW t \in Threads, LockMutex(t)
      PROVE  LockTypeOK'
  BY <1>3 DEF LockMutex
<1>4. ASSUME NEW t \in Threads, Ask(t)
      PROVE  LockTypeOK'
  BY <1>4 DEF Ask
<1>5. ASSUME NEW t \in Threads, AskFlag(t)
      PROVE  LockTypeOK'
  BY <1>5 DEF AskFlag
<1>6. ASSUME NEW t \in Threads, PollTimesOut(t)
      PROVE  LockTypeOK'
  BY <1>6 DEF PollTimesOut
<1>7. ASSUME NEW t \in Threads, SeeFlag(t)
      PROVE  LockTypeOK'
  BY <1>7 DEF SeeFlag
<1>8. ASSUME NEW t \in Threads, Own(t)
      PROVE  LockTypeOK'
  BY <1>8 DEF Own
<1>9. ASSUME NEW t \in Threads, AskTimesOut(t)
      PROVE  LockTypeOK'
  BY <1>9 DEF AskTimesOut
<1>10. ASSUME NEW t \in Threads, Drop(t)
      PROVE  LockTypeOK'
  BY <1>10 DEF Drop
<1>11. ASSUME NEW t \in Threads, Undo(t)
      PROVE  LockTypeOK'
  BY <1>11 DEF Undo
<1>12. ASSUME NEW t \in Threads, ReadSmbi(t)
      PROVE  LockTypeOK'
  BY <1>12 DEF ReadSmbi, Giving
<1>13. ASSUME NEW t \in Threads, SmbiTimesOut(t)
      PROVE  LockTypeOK'
  BY <1>13 DEF SmbiTimesOut
<1>14. ASSUME NEW t \in Threads, SmbiForced(t)
      PROVE  LockTypeOK'
  BY <1>14 DEF SmbiForced
<1>15. ASSUME NEW t \in Threads, Latch(t)
      PROVE  LockTypeOK'
  BY <1>15 DEF Latch, Giving
<1>16. ASSUME NEW t \in Threads, LatchTimesOut(t)
      PROVE  LockTypeOK'
  BY <1>16 DEF LatchTimesOut, PutSemaphore, Giving
<1>17. ASSUME NEW t \in Threads, Look(t)
      PROVE  LockTypeOK'
  BY <1>17 DEF Look, Giving
<1>18. ASSUME NEW t \in Threads, InUse(t)
      PROVE  LockTypeOK'
  BY <1>18 DEF InUse, PutBack, PutSemaphore, Forget
<1>19. ASSUME NEW t \in Threads, Exhausted(t)
      PROVE  LockTypeOK'
  BY <1>19 DEF Exhausted, PutBack, PutSemaphore, Forget
<1>20. ASSUME NEW t \in Threads, Claim(t)
      PROVE  LockTypeOK'
  <2>1. sync' \subseteq Masks \X {"sw", "fw"}
    BY <1>20 DEF Claim
  <2> QED
    BY <1>20, <2>1 DEF Claim, PutSemaphore, Forget
<1>21. ASSUME NEW t \in Threads, ClearFlag(t)
      PROVE  LockTypeOK'
  BY <1>21 DEF ClearFlag
<1>22. ASSUME NEW t \in Threads, ReleaseSemaphore(t)
      PROVE  LockTypeOK'
  BY <1>22 DEF ReleaseSemaphore, PutSemaphore
<1>23. ASSUME NEW t \in Threads, Give(t)
      PROVE  LockTypeOK'
  BY <1>23 DEF Give
<1>24. ASSUME NEW t \in Threads, Leave(t)
      PROVE  LockTypeOK'
  BY <1>24 DEF Leave
<1>25. ASSUME NEW t \in Threads, Disclaim(t)
      PROVE  LockTypeOK'
  BY <1>25 DEF Disclaim, PutSemaphore, Forget
<1>26. ASSUME NEW t \in Threads, Fail(t)
      PROVE  LockTypeOK'
  BY <1>26 DEF Fail
<1>27. ASSUME NEW t \in Threads, GateRead(t)
      PROVE  LockTypeOK'
  BY <1>27 DEF GateRead
<1>28. ASSUME NEW t \in Threads, GateWrite(t)
      PROVE  LockTypeOK'
  BY <1>28 DEF GateWrite
<1>29. ASSUME NEW t \in Threads, ResetMac(t)
      PROVE  LockTypeOK'
  BY <1>29 DEF ResetMac
<1>30. ASSUME NEW t \in Threads, GoOn(t)
      PROVE  LockTypeOK'
  BY <1>30 DEF GoOn
<1>31. CASE HwGrant
  BY <1>31 DEF HwGrant
<1>32. CASE FwTake
  BY <1>32 DEF FwTake
<1>33. CASE FwRelease
  BY <1>33 DEF FwRelease
<1>34. ASSUME NEW m \in Masks, FwMark(m)
      PROVE  LockTypeOK'
  BY <1>34 DEF FwMark
<1> QED
  BY <1>1, <1>2, <1>3, <1>4, <1>5, <1>6, <1>7, <1>8, <1>9, <1>10, <1>11, <1>12, <1>13, <1>14, <1>15, <1>16, <1>17, <1>18, <1>19, <1>20, <1>21, <1>22, <1>23, <1>24, <1>25, <1>26, <1>27, <1>28, <1>29, <1>30, <1>31, <1>32, <1>33, <1>34
     DEF LockNext, Take, Taking, Release, Releasing, Environment

LEMMA FlagKept ==
  ASSUME LockTypeOK, FlagInv, LockNext, forced' = {}
  PROVE  FlagInv'
<1> USE DEF LockTypeOK, FlagInv, FlagPcs, MutexPcs, AskingPcs, Goto
<1>1. ASSUME NEW t \in Threads, NEW m \in Masks, Want(t, m)
      PROVE  FlagInv'
  BY <1>1 DEF Want
<1>2. ASSUME NEW t \in Threads, TestAndSet(t)
      PROVE  FlagInv'
  BY <1>2, NoThreadAssumption DEF TestAndSet
<1>3. ASSUME NEW t \in Threads, LockMutex(t)
      PROVE  FlagInv'
  BY <1>3, NoThreadAssumption DEF LockMutex
<1>4. ASSUME NEW t \in Threads, Ask(t)
      PROVE  FlagInv'
  BY <1>4 DEF Ask
<1>5. ASSUME NEW t \in Threads, AskFlag(t)
      PROVE  FlagInv'
  BY <1>5 DEF AskFlag
<1>6. ASSUME NEW t \in Threads, PollTimesOut(t)
      PROVE  FlagInv'
  BY <1>6 DEF PollTimesOut
<1>7. ASSUME NEW t \in Threads, SeeFlag(t)
      PROVE  FlagInv'
  BY <1>7 DEF SeeFlag
<1>8. ASSUME NEW t \in Threads, Own(t)
      PROVE  FlagInv'
  BY <1>8 DEF Own
<1>9. ASSUME NEW t \in Threads, AskTimesOut(t)
      PROVE  FlagInv'
  BY <1>9 DEF AskTimesOut
<1>10. ASSUME NEW t \in Threads, Drop(t)
      PROVE  FlagInv'
  BY <1>10 DEF Drop
<1>11. ASSUME NEW t \in Threads, Undo(t)
      PROVE  FlagInv'
  BY <1>11, NoThreadAssumption DEF Undo
<1>12. ASSUME NEW t \in Threads, ReadSmbi(t)
      PROVE  FlagInv'
  BY <1>12 DEF ReadSmbi, Giving
<1>13. ASSUME NEW t \in Threads, SmbiTimesOut(t)
      PROVE  FlagInv'
  BY <1>13 DEF SmbiTimesOut
<1>14. ASSUME NEW t \in Threads, SmbiForced(t)
      PROVE  FlagInv'
  BY <1>14 DEF SmbiForced
<1>15. ASSUME NEW t \in Threads, Latch(t)
      PROVE  FlagInv'
  BY <1>15 DEF Latch, Giving
<1>16. ASSUME NEW t \in Threads, LatchTimesOut(t)
      PROVE  FlagInv'
  BY <1>16 DEF LatchTimesOut, PutSemaphore, Giving
<1>17. ASSUME NEW t \in Threads, Look(t)
      PROVE  FlagInv'
  BY <1>17 DEF Look, Giving
<1>18. ASSUME NEW t \in Threads, InUse(t)
      PROVE  FlagInv'
  BY <1>18 DEF InUse, PutBack, PutSemaphore, Forget
<1>19. ASSUME NEW t \in Threads, Exhausted(t)
      PROVE  FlagInv'
  BY <1>19 DEF Exhausted, PutBack, PutSemaphore, Forget
<1>20. ASSUME NEW t \in Threads, Claim(t)
      PROVE  FlagInv'
  BY <1>20 DEF Claim, PutSemaphore, Forget
<1>21. ASSUME NEW t \in Threads, ClearFlag(t)
      PROVE  FlagInv'
  BY <1>21 DEF ClearFlag
<1>22. ASSUME NEW t \in Threads, ReleaseSemaphore(t)
      PROVE  FlagInv'
  BY <1>22 DEF ReleaseSemaphore, PutSemaphore
<1>23. ASSUME NEW t \in Threads, Give(t)
      PROVE  FlagInv'
  BY <1>23 DEF Give
<1>24. ASSUME NEW t \in Threads, Leave(t)
      PROVE  FlagInv'
  BY <1>24, NoThreadAssumption DEF Leave
<1>25. ASSUME NEW t \in Threads, Disclaim(t)
      PROVE  FlagInv'
  BY <1>25 DEF Disclaim, PutSemaphore, Forget
<1>26. ASSUME NEW t \in Threads, Fail(t)
      PROVE  FlagInv'
  BY <1>26 DEF Fail
<1>27. ASSUME NEW t \in Threads, GateRead(t)
      PROVE  FlagInv'
  BY <1>27 DEF GateRead
<1>28. ASSUME NEW t \in Threads, GateWrite(t)
      PROVE  FlagInv'
  BY <1>28 DEF GateWrite
<1>29. ASSUME NEW t \in Threads, ResetMac(t)
      PROVE  FlagInv'
  BY <1>29, NoThreadAssumption DEF ResetMac
<1>30. ASSUME NEW t \in Threads, GoOn(t)
      PROVE  FlagInv'
  BY <1>30 DEF GoOn
<1>31. CASE HwGrant
  BY <1>31 DEF HwGrant
<1>32. CASE FwTake
  BY <1>32 DEF FwTake
<1>33. CASE FwRelease
  BY <1>33 DEF FwRelease
<1>34. ASSUME NEW m \in Masks, FwMark(m)
      PROVE  FlagInv'
  BY <1>34 DEF FwMark
<1> QED
  BY <1>1, <1>2, <1>3, <1>4, <1>5, <1>6, <1>7, <1>8, <1>9, <1>10, <1>11, <1>12, <1>13, <1>14, <1>15, <1>16, <1>17, <1>18, <1>19, <1>20, <1>21, <1>22, <1>23, <1>24, <1>25, <1>26, <1>27, <1>28, <1>29, <1>30, <1>31, <1>32, <1>33, <1>34
     DEF LockNext, Take, Taking, Release, Releasing, Environment

LEMMA SemKept ==
  ASSUME LockTypeOK, SemInv, LockNext, forced' = {}
  PROVE  SemInv'
<1> USE DEF LockTypeOK, SemInv, SemFamilyPcs, SemPcs, GivePcs, Semaphored, Latched, Goto
<1>1. ASSUME NEW t \in Threads, NEW m \in Masks, Want(t, m)
      PROVE  SemInv'
  BY <1>1 DEF Want
<1>2. ASSUME NEW t \in Threads, TestAndSet(t)
      PROVE  SemInv'
  BY <1>2 DEF TestAndSet
<1>3. ASSUME NEW t \in Threads, LockMutex(t)
      PROVE  SemInv'
  BY <1>3 DEF LockMutex
<1>4. ASSUME NEW t \in Threads, Ask(t)
      PROVE  SemInv'
  BY <1>4 DEF Ask
<1>5. ASSUME NEW t \in Threads, AskFlag(t)
      PROVE  SemInv'
  BY <1>5 DEF AskFlag
<1>6. ASSUME NEW t \in Threads, PollTimesOut(t)
      PROVE  SemInv'
  BY <1>6 DEF PollTimesOut
<1>7. ASSUME NEW t \in Threads, SeeFlag(t)
      PROVE  SemInv'
  BY <1>7 DEF SeeFlag
<1>8. ASSUME NEW t \in Threads, Own(t)
      PROVE  SemInv'
  BY <1>8 DEF Own
<1>9. ASSUME NEW t \in Threads, AskTimesOut(t)
      PROVE  SemInv'
  BY <1>9 DEF AskTimesOut
<1>10. ASSUME NEW t \in Threads, Drop(t)
      PROVE  SemInv'
  BY <1>10 DEF Drop
<1>11. ASSUME NEW t \in Threads, Undo(t)
      PROVE  SemInv'
  BY <1>11 DEF Undo
<1>12. ASSUME NEW t \in Threads, ReadSmbi(t)
      PROVE  SemInv'
  BY <1>12 DEF ReadSmbi, Giving
<1>13. ASSUME NEW t \in Threads, SmbiTimesOut(t)
      PROVE  SemInv'
  BY <1>13 DEF SmbiTimesOut
<1>14. ASSUME NEW t \in Threads, SmbiForced(t)
      PROVE  SemInv'
  BY <1>14 DEF SmbiForced
<1>15. ASSUME NEW t \in Threads, Latch(t)
      PROVE  SemInv'
  BY <1>15 DEF Latch, Giving
<1>16. ASSUME NEW t \in Threads, LatchTimesOut(t)
      PROVE  SemInv'
  BY <1>16 DEF LatchTimesOut, PutSemaphore, Giving
<1>17. ASSUME NEW t \in Threads, Look(t)
      PROVE  SemInv'
  BY <1>17 DEF Look, Giving
<1>18. ASSUME NEW t \in Threads, InUse(t)
      PROVE  SemInv'
  BY <1>18 DEF InUse, PutBack, PutSemaphore, Forget
<1>19. ASSUME NEW t \in Threads, Exhausted(t)
      PROVE  SemInv'
  BY <1>19 DEF Exhausted, PutBack, PutSemaphore, Forget
<1>20. ASSUME NEW t \in Threads, Claim(t)
      PROVE  SemInv'
  BY <1>20 DEF Claim, PutSemaphore, Forget
<1>21. ASSUME NEW t \in Threads, ClearFlag(t)
      PROVE  SemInv'
  BY <1>21 DEF ClearFlag
<1>22. ASSUME NEW t \in Threads, ReleaseSemaphore(t)
      PROVE  SemInv'
  BY <1>22 DEF ReleaseSemaphore, PutSemaphore
<1>23. ASSUME NEW t \in Threads, Give(t)
      PROVE  SemInv'
  BY <1>23 DEF Give
<1>24. ASSUME NEW t \in Threads, Leave(t)
      PROVE  SemInv'
  BY <1>24 DEF Leave
<1>25. ASSUME NEW t \in Threads, Disclaim(t)
      PROVE  SemInv'
  BY <1>25 DEF Disclaim, PutSemaphore, Forget
<1>26. ASSUME NEW t \in Threads, Fail(t)
      PROVE  SemInv'
  BY <1>26 DEF Fail
<1>27. ASSUME NEW t \in Threads, GateRead(t)
      PROVE  SemInv'
  BY <1>27 DEF GateRead
<1>28. ASSUME NEW t \in Threads, GateWrite(t)
      PROVE  SemInv'
  BY <1>28 DEF GateWrite
<1>29. ASSUME NEW t \in Threads, ResetMac(t)
      PROVE  SemInv'
  BY <1>29 DEF ResetMac
<1>30. ASSUME NEW t \in Threads, GoOn(t)
      PROVE  SemInv'
  BY <1>30 DEF GoOn
<1>31. CASE HwGrant
  BY <1>31 DEF HwGrant
<1>32. CASE FwTake
  BY <1>32 DEF FwTake
<1>33. CASE FwRelease
  BY <1>33 DEF FwRelease
<1>34. ASSUME NEW m \in Masks, FwMark(m)
      PROVE  SemInv'
  BY <1>34 DEF FwMark
<1> QED
  BY <1>1, <1>2, <1>3, <1>4, <1>5, <1>6, <1>7, <1>8, <1>9, <1>10, <1>11, <1>12, <1>13, <1>14, <1>15, <1>16, <1>17, <1>18, <1>19, <1>20, <1>21, <1>22, <1>23, <1>24, <1>25, <1>26, <1>27, <1>28, <1>29, <1>30, <1>31, <1>32, <1>33, <1>34
     DEF LockNext, Take, Taking, Release, Releasing, Environment

LEMMA SyncKept ==
  ASSUME LockTypeOK, FlagInv, SemInv, SyncInv, LockNext, forced' = {}
  PROVE  SyncInv'
<1> USE DEF LockTypeOK, SemInv, SyncInv, SemFamilyPcs, SemPcs, GivePcs, Semaphored, Latched, Inside, FreeIn, Goto
<1>1. ASSUME NEW t \in Threads, NEW m \in Masks, Want(t, m)
      PROVE  SyncInv'
  BY <1>1 DEF Want
<1>2. ASSUME NEW t \in Threads, TestAndSet(t)
      PROVE  SyncInv'
  BY <1>2 DEF TestAndSet
<1>3. ASSUME NEW t \in Threads, LockMutex(t)
      PROVE  SyncInv'
  BY <1>3 DEF LockMutex
<1>4. ASSUME NEW t \in Threads, Ask(t)
      PROVE  SyncInv'
  BY <1>4 DEF Ask
<1>5. ASSUME NEW t \in Threads, AskFlag(t)
      PROVE  SyncInv'
  BY <1>5 DEF AskFlag
<1>6. ASSUME NEW t \in Threads, PollTimesOut(t)
      PROVE  SyncInv'
  BY <1>6 DEF PollTimesOut
<1>7. ASSUME NEW t \in Threads, SeeFlag(t)
      PROVE  SyncInv'
  BY <1>7 DEF SeeFlag
<1>8. ASSUME NEW t \in Threads, Own(t)
      PROVE  SyncInv'
  BY <1>8 DEF Own
<1>9. ASSUME NEW t \in Threads, AskTimesOut(t)
      PROVE  SyncInv'
  BY <1>9 DEF AskTimesOut
<1>10. ASSUME NEW t \in Threads, Drop(t)
      PROVE  SyncInv'
  BY <1>10 DEF Drop
<1>11. ASSUME NEW t \in Threads, Undo(t)
      PROVE  SyncInv'
  BY <1>11 DEF Undo
<1>12. ASSUME NEW t \in Threads, ReadSmbi(t)
      PROVE  SyncInv'
  BY <1>12 DEF ReadSmbi, Giving
<1>13. ASSUME NEW t \in Threads, SmbiTimesOut(t)
      PROVE  SyncInv'
  BY <1>13 DEF SmbiTimesOut
<1>14. ASSUME NEW t \in Threads, SmbiForced(t)
      PROVE  SyncInv'
  BY <1>14 DEF SmbiForced
<1>15. ASSUME NEW t \in Threads, Latch(t)
      PROVE  SyncInv'
  BY <1>15 DEF Latch, Giving
<1>16. ASSUME NEW t \in Threads, LatchTimesOut(t)
      PROVE  SyncInv'
  BY <1>16 DEF LatchTimesOut, PutSemaphore, Giving
<1>17. ASSUME NEW t \in Threads, Look(t)
      PROVE  SyncInv'
  BY <1>17 DEF Look, Giving
<1>18. ASSUME NEW t \in Threads, InUse(t)
      PROVE  SyncInv'
  BY <1>18 DEF InUse, PutBack, PutSemaphore, Forget
<1>19. ASSUME NEW t \in Threads, Exhausted(t)
      PROVE  SyncInv'
  BY <1>19 DEF Exhausted, PutBack, PutSemaphore, Forget
<1>20. ASSUME NEW t \in Threads, Claim(t)
      PROVE  SyncInv'
  <2>1. /\ family = "80003" /\ pc[t] = "put" /\ pc' = [pc EXCEPT ![t] = "in"]
        /\ sync' = sync \cup {<<mask[t], "sw">>}
        /\ UNCHANGED <<family, mask>> /\ mask[t] \in Masks
    <3>1. pc[t] = "put" /\ pc' = [pc EXCEPT ![t] = "in"] /\ UNCHANGED <<family, mask>>
      BY <1>20 DEF Claim
    <3>2. family = "80003"
      BY <3>1, FamilyAssumption DEF FlagInv, FlagPcs
    <3>3. seen[t] = sync
      BY <3>1, <3>2
    <3> QED
      BY <1>20, <3>1, <3>2, <3>3 DEF Claim
  <2>2. \A u \in Threads \ {t} : pc'[u] = pc[u] /\ pc[u] \notin {"put", "gput"}
    BY <2>1
  <2>3. <<mask[t], "sw">> \notin sync /\ <<mask[t], "fw">> \notin sync
    BY <2>1
  <2>4. \A m \in Masks :
          /\ <<m, "fw">> \in sync' <=> <<m, "fw">> \in sync
          /\ <<m, "sw">> \in sync' <=> <<m, "sw">> \in sync \/ m = mask[t]
    BY <2>1
  <2>5. \A u \in Threads \ {t} : Inside(u) <=> Inside(u)'
    BY <2>1, <2>2
  <2>6. \A u \in Threads \ {t} : Inside(u) => mask[u] # mask[t]
    BY <2>1, <2>3
  <2>7. pc'[t] = "in" /\ Inside(t)'
    BY <2>1
  <2>8. \A m \in Masks : <<m, "sw">> \in sync' => \E u \in Threads : Inside(u)' /\ mask[u] = m
    <3> SUFFICES ASSUME NEW m \in Masks, <<m, "sw">> \in sync'
                 PROVE  \E u \in Threads : Inside(u)' /\ mask[u] = m
      OBVIOUS
    <3>1. CASE m = mask[t]
      BY <2>7, <3>1
    <3>2. CASE m # mask[t]
      <4>1. PICK u \in Threads : Inside(u) /\ mask[u] = m
        BY <2>1, <2>4, <3>2
      <4>2. u # t
        BY <3>2, <4>1
      <4> QED
        BY <2>5, <4>1, <4>2
    <3> QED
      BY <3>1, <3>2
  <2> HIDE DEF Inside
  <2> QED
    BY <2>1, <2>2, <2>3, <2>4, <2>5, <2>6, <2>7, <2>8
<1>21. ASSUME NEW t \in Threads, ClearFlag(t)
      PROVE  SyncInv'
  BY <1>21 DEF ClearFlag
<1>22. ASSUME NEW t \in Threads, ReleaseSemaphore(t)
      PROVE  SyncInv'
  BY <1>22 DEF ReleaseSemaphore, PutSemaphore
<1>23. ASSUME NEW t \in Threads, Give(t)
      PROVE  SyncInv'
  BY <1>23 DEF Give
<1>24. ASSUME NEW t \in Threads, Leave(t)
      PROVE  SyncInv'
  BY <1>24 DEF Leave
<1>25. ASSUME NEW t \in Threads, Disclaim(t)
      PROVE  SyncInv'
  <2>1. /\ family = "80003" /\ pc[t] = "gput" /\ pc' = [pc EXCEPT ![t] = "out"]
        /\ sync' = sync \ {<<mask[t], "sw">>}
        /\ UNCHANGED <<family, mask>> /\ mask[t] \in Masks
    <3>1. pc[t] = "gput" /\ pc' = [pc EXCEPT ![t] = "out"] /\ UNCHANGED <<family, mask>>
      BY <1>25 DEF Disclaim
    <3>2. family = "80003"
      BY <3>1, FamilyAssumption DEF FlagInv, FlagPcs
    <3>3. seen[t] = sync
      BY <3>1, <3>2
    <3> QED
      BY <1>25, <3>1, <3>2, <3>3 DEF Disclaim
  <2>2. \A u \in Threads \ {t} : pc'[u] = pc[u] /\ pc[u] \notin {"put", "gput"}
    BY <2>1
  <2>3. \A m \in Masks :
          /\ <<m, "fw">> \in sync' <=> <<m, "fw">> \in sync
          /\ <<m, "sw">> \in sync' <=> <<m, "sw">> \in sync /\ m # mask[t]
    BY <2>1
  <2>4. \A u \in Threads \ {t} : Inside(u) <=> Inside(u)'
    BY <2>1, <2>2
  <2>5. pc'[t] = "out" /\ Inside(t) /\ ~Inside(t)'
    BY <2>1
  <2>6. \A u \in Threads \ {t} : Inside(u) => mask[u] # mask[t]
    BY <2>1, <2>5, ZenonT(30)
  <2>7. \A m \in Masks : <<m, "sw">> \in sync' => \E u \in Threads : Inside(u)' /\ mask[u] = m
    <3> SUFFICES ASSUME NEW m \in Masks, <<m, "sw">> \in sync'
                 PROVE  \E u \in Threads : Inside(u)' /\ mask[u] = m
      OBVIOUS
    <3>1. m # mask[t]
      BY <2>3
    <3>2. PICK u \in Threads : Inside(u) /\ mask[u] = m
      BY <2>1, <2>3
    <3> QED
      BY <2>4, <3>1, <3>2
  <2> HIDE DEF Inside
  <2> QED
    BY <2>1, <2>2, <2>3, <2>4, <2>5, <2>6, <2>7
<1>26. ASSUME NEW t \in Threads, Fail(t)
      PROVE  SyncInv'
  BY <1>26 DEF Fail
<1>27. ASSUME NEW t \in Threads, GateRead(t)
      PROVE  SyncInv'
  BY <1>27 DEF GateRead
<1>28. ASSUME NEW t \in Threads, GateWrite(t)
      PROVE  SyncInv'
  BY <1>28 DEF GateWrite
<1>29. ASSUME NEW t \in Threads, ResetMac(t)
      PROVE  SyncInv'
  BY <1>29 DEF ResetMac
<1>30. ASSUME NEW t \in Threads, GoOn(t)
      PROVE  SyncInv'
  BY <1>30 DEF GoOn
<1>31. CASE HwGrant
  BY <1>31 DEF HwGrant
<1>32. CASE FwTake
  BY <1>32 DEF FwTake
<1>33. CASE FwRelease
  BY <1>33 DEF FwRelease
<1>34. ASSUME NEW m \in Masks, FwMark(m)
      PROVE  SyncInv'
  BY <1>34 DEF FwMark
<1> QED
  BY <1>1, <1>2, <1>3, <1>4, <1>5, <1>6, <1>7, <1>8, <1>9, <1>10, <1>11, <1>12, <1>13, <1>14, <1>15, <1>16, <1>17, <1>18, <1>19, <1>20, <1>21, <1>22, <1>23, <1>24, <1>25, <1>26, <1>27, <1>28, <1>29, <1>30, <1>31, <1>32, <1>33, <1>34
     DEF LockNext, Take, Taking, Release, Releasing, Environment

LEMMA InitKept ==
  ASSUME LockInit
  PROVE  IInv
BY NoThreadAssumption DEF LockInit, IInv, LockTypeOK, LockPcs, FlagInv, FlagPcs, MutexPcs, AskingPcs, SemInv,
   SemFamilyPcs, Semaphored, Latched, SyncInv, Inside

\* The ghost only grows.
LEMMA ForcedGrows ==
  ASSUME [LockNext]_lockVars, forced' = {}
  PROVE  forced = {}
BY DEF LockNext, lockVars, Want, Take, Taking, Release, Releasing, Environment, TestAndSet, LockMutex, Ask, AskFlag,
   PollTimesOut, SeeFlag, Own, AskTimesOut, Drop, Undo, ReadSmbi, SmbiTimesOut, SmbiForced, Latch, LatchTimesOut,
   Look, InUse, Exhausted, PutBack, Claim, ClearFlag, ReleaseSemaphore, Give, Leave, Disclaim, Fail, GateRead,
   GateWrite, ResetMac, GoOn, HwGrant, FwTake, FwMark, FwRelease

LEMMA InvKept ==
  ASSUME IInv, [LockNext]_lockVars
  PROVE  IInv'
<1>1. CASE LockNext
  BY <1>1, TypeKept, FlagKept, SemKept, SyncKept, ForcedGrows DEF IInv
<1>2. CASE UNCHANGED lockVars
  BY <1>2 DEF lockVars, IInv, LockTypeOK, FlagInv, SemInv, Semaphored, Latched, SemFamilyPcs, SyncInv, Inside
<1> QED
  BY <1>1, <1>2

\* The types of the locks' state, under which the rest is stated (lockVars).
THEOREM LocksAreTyped == LockSpec => []LockTypeOK
<1>1. IInv => LockTypeOK
  BY DEF IInv
<1> QED
  BY <1>1, InitKept, InvKept, PTL DEF LockSpec

LEMMA InvExcludes ==
  ASSUME IInv
  PROVE  Exclusive
<1>1. ASSUME forced = {}, NEW t \in Threads, Inside(t)
      PROVE  /\ ~FwInside(mask[t])
             /\ \A u \in Threads \ {t} : Inside(u) => ~SameResource(t, u)
  <2>1. CASE family \in {"ich", "82574"}
    BY <1>1, <2>1 DEF IInv, FlagInv, FlagPcs, MutexPcs, Inside, FwInside, SameResource
  <2>2. CASE family = "82571"
    BY <1>1, <2>2 DEF IInv, SemInv, SemFamilyPcs, Semaphored, Latched, Inside, FwInside, SameResource
  <2>3. CASE family = "80003"
    <3>1. mask[t] \in Masks
      BY <1>1 DEF IInv, LockTypeOK
    <3> QED
      BY <1>1, <2>3, <3>1 DEF IInv, SyncInv, FwInside, SameResource
  <2> QED
    BY <1>1, <2>1, <2>2, <2>3, FamilyAssumption DEF IInv, LockTypeOK
<1> QED
  BY <1>1 DEF Exclusive

\* With any number of threads of either port's driver, of resources and of time-outs,
\* and firmware that takes the semaphore whenever it can, no two are inside for one
\* resource (e1000_acquire_swflag_ich8lan, e1000_get_hw_semaphore_82571 and _82574,
\* e1000_acquire_swfw_sync_80003es2lan).
THEOREM LocksExclude == LockSpec => []Exclusive
BY InvExcludes, InitKept, InvKept, PTL DEF LockSpec

\* Whatever timed out or failed before: a lock that no thread uses is free, down to the
\* last bit of the hardware.
THEOREM LocksDoNotLeak == LockSpec => []NothingLeaks
<1>1. ASSUME IInv, forced = {}, \A t \in Threads : pc[t] \in {"out", "failed", "gate"}
      PROVE  /\ busy = NoThread /\ flag = "clear" /\ ~smbi /\ ~swesmbi
             /\ \A m \in Masks : <<m, "sw">> \notin sync
  <2>1. CASE family \in {"ich", "82574"}
    BY <1>1, <2>1 DEF IInv, LockTypeOK, FlagInv, MutexPcs, AskingPcs, SyncInv
  <2>2. CASE family \in {"82571", "80003"}
    <3>1. /\ busy = NoThread /\ flag = "clear"
          /\ \A t \in Threads : ~Semaphored(t) /\ ~Latched(t) /\ ~Inside(t)
      BY <1>1, <2>2 DEF IInv, SemInv, Semaphored, Latched, Inside
    <3>2. ~smbi /\ ~swesmbi
      BY <1>1, <2>2, <3>1 DEF IInv, SemInv
    <3>3. \A m \in Masks : <<m, "sw">> \notin sync
      BY <1>1, <3>1 DEF IInv, SyncInv
    <3> QED
      BY <3>1, <3>2, <3>3
  <2> QED
    BY <1>1, <2>1, <2>2, FamilyAssumption DEF IInv, LockTypeOK
<1>2. IInv => NothingLeaks
  BY <1>1 DEF NothingLeaks
<1> QED
  BY <1>2, InitKept, InvKept, PTL DEF LockSpec
-----------------------------------------------------------------------------
(* The threads of PhyAccess take and give back the locks as HwLocks says. *)

LEMMA AccessUsesLocks ==
  ASSUME [PhyNext]_vars
  PROVE  [LockNext]_lockVars
<1>1. ASSUME NEW t \in Threads, Access(t)
      PROVE  [LockNext]_lockVars
  <2>1. CASE Begin(t) \/ AimPhy(t) \/ Arm(t) \/ Acquired(t) \/ AccessCsr(t) \/ AccessPhy(t) \/ MdicError(t)
    BY <2>1 DEF Begin, AimPhy, Arm, Acquired, AccessCsr, AccessPhy, MdicError
  <2>2. CASE WantMask(t)
    BY <2>2 DEF WantMask, LockNext
  <2>3. CASE TakeLock(t) \/ LockStep(t) \/ ReleaseLock(t) \/ Gate(t) \/ Reset(t)
    BY <2>3 DEF TakeLock, LockStep, ReleaseLock, Gate, Reset, LockNext
  <2>4. CASE AcquireFailed(t)
    BY <2>4 DEF AcquireFailed, LockNext
  <2> QED
    BY <1>1, <2>1, <2>2, <2>3, <2>4 DEF Access
<1>2. CASE Environment \/ FwTouch
  BY <1>2 DEF FwTouch, LockNext
<1>3. CASE UNCHANGED vars
  BY <1>3 DEF vars
<1> QED
  BY <1>1, <1>2, <1>3 DEF PhyNext

\* What the PHY functions do with the locks is what LockSpec allows: whatever LockSpec
\* promises, exclusion above all, holds of every access to the PHY.
THEOREM AccessImplementsLocks == PhySpec => LockSpec
<1>1. PhyInit => LockInit
  BY DEF PhyInit
<1>2. [PhyNext]_vars => [LockNext]_lockVars
  BY AccessUsesLocks
<1> QED
  BY <1>1, <1>2, PTL DEF PhySpec, LockSpec

\* No two accesses to the PHY of any adapter overlap, nor do they overlap the
\* firmware's (the acquire and release around every PHY function).
THEOREM AccessesExclude == PhySpec => []Exclusive
BY AccessImplementsLocks, LocksExclude, PTL

\* And after them, however they failed, the locks are free.
THEOREM AccessesDoNotLeak == PhySpec => []NothingLeaks
BY AccessImplementsLocks, LocksDoNotLeak, PTL

\* The locks of every family exclude and do not leak: every acquire and release that the
\* driver's PHY, NVM and MDIO functions use.
THEOREM LocksAreSafe == LockSpec => []LocksSafe
BY LocksExclude, LocksDoNotLeak, PTL DEF LocksSafe

\* So it is of the locks as the PHY functions use them.
THEOREM AccessesAreSafe == PhySpec => []LocksSafe
BY AccessImplementsLocks, LocksAreSafe, PTL
-----------------------------------------------------------------------------
(* Accesses.  What is left of the function a thread is in says where the   *)
(* thread is with the lock (PcInv) and what it needs of the PHY (Meets);   *)
(* PhyDiscipline says that each step of a function provides what is left   *)
(* after it with what it needs.  Then it only has to be shown that no      *)
(* other thread, and not the firmware, takes it away: outside the lock     *)
(* nothing but phy.addr is needed, and inside there is nobody else.        *)

TakePcs == {"poll", "ask", "drop", "undo", "smbi", "latch", "look", "put", "fail"}

\* What is left of its function says where a thread is with the lock.
PcInv ==
  \A t \in Threads :
    /\ Held(todo[t]) => pc[t] = "in" \/ (pc[t] = "failed" /\ Locally(todo[t], "reset"))
    /\ pc[t] = "in" => Held(todo[t]) \/ Starts(todo[t], "acquire")
    /\ pc[t] \in TakePcs => Starts(todo[t], "acquire")
    /\ pc[t] = "failed" => Starts(todo[t], "acquire") \/ Locally(todo[t], "reset")

\* Where all functions leave phy.addr at 1 it is 1.
OneInv == (\A t \in Threads : \A c \in calls[t] : One(c)) => phyAddr = 1

\* The PHY is as what is left of a thread's function needs it.
Meets(t, s) ==
  /\ \A a \in Addrs(s) : phyAddr = a
  /\ \A z \in Pages(s) : page[z[1]] = z[2]
  /\ \A x \in Latches(s) : latch[x] = t
  /\ Opened(s) => "enable" \in wuc
  /\ Closing(s) => saved[t] = owed

NeedsInv == \A t \in Threads : Meets(t, todo[t])

\* The wakeup page is closed unless some thread is about to close it.
WucInv == (\A t \in Threads : ~Closing(todo[t])) => wuc = owed

\* A thread is in one of the functions it calls, and has said which resource it takes.
LeftBy(t, c) ==
  /\ todo[t] \in Remains(c)
  /\ Asks(c) => todo[t] = Strip(Program[c]) \/ mask[t] \in Wanted(c)

LeftInv ==
  /\ todo = [t \in Threads |-> todo[t]]
  /\ saved = [t \in Threads |-> saved[t]]
  /\ \A t \in Threads : todo[t] = <<>> \/ \E c \in calls[t] : LeftBy(t, c)

SetupInv == \E s \in Setups : family = s.family /\ calls = s.calls
LEMMA NothingLeft == ~Held(<<>>) /\ Addrs(<<>>) = {} /\ NeedsNothing(<<>>)
BY DEF Held, Addrs, NeedsNothing, Pages, Latches, Opened, Closing

\* The discipline, of what is left of the function a thread is in.
LEMMA Disciplined ==
  ASSUME SetupInv, LeftInv, NEW t \in Threads, NEW s, s = todo[t]
  PROVE  /\ Proper(s) /\ Locked(s) /\ AimsFirst(s) /\ SelectsFirst(s) /\ LatchesFirst(s)
         /\ OpensFirst(s) /\ ClosesAfter(s)
         /\ s # <<>> => \E c \in calls[t] : c \in DOMAIN Program /\ LeftBy(t, c)
<1>1. CASE s = <<>>
  BY <1>1, NothingLeft DEF Proper, Locked, AimsFirst, SelectsFirst, LatchesFirst, OpensFirst, ClosesAfter, Starts,
     Locally, Gives
<1>2. CASE s # <<>>
  <2>1. PICK c \in calls[t] : LeftBy(t, c)
    BY <1>2 DEF LeftInv
  <2>2. c \in DOMAIN Program
    BY <2>1, SetupAssumption DEF SetupInv
  <2> QED
    BY <2>1, <2>2, ProgramsDisciplined DEF LeftBy
<1> QED
  BY <1>1, <1>2

\* A thread changes nothing of another's.
LEMMA OthersKept ==
  ASSUME LockTypeOK, LeftInv, NEW t \in Threads, NEW u \in Threads \ {t}, Access(t)
  PROVE  pc'[u] = pc[u] /\ mask'[u] = mask[u] /\ todo'[u] = todo[u] /\ saved'[u] = saved[u]
<1> USE DEF LockTypeOK, LeftInv, Go, Advance, Goto
<1>1. CASE Begin(t) \/ AimPhy(t) \/ Arm(t) \/ Acquired(t) \/ AccessCsr(t) \/ AccessPhy(t) \/ MdicError(t)
  BY <1>1 DEF Begin, AimPhy, Arm, Acquired, AccessCsr, AccessPhy, MdicError, lockVars
<1>2. CASE WantMask(t)
  BY <1>2 DEF WantMask, Want
<1>3. CASE TakeLock(t)
  BY <1>3 DEF TakeLock, Take, TestAndSet, LockMutex, Ask, phyVars
<1>4. CASE LockStep(t)
  BY <1>4 DEF LockStep, Taking, Releasing, Leave, Disclaim, AskFlag, PollTimesOut, SeeFlag, Own, AskTimesOut, Drop, Undo,
     ReadSmbi, SmbiTimesOut, SmbiForced, Latch, LatchTimesOut, Look, InUse, Exhausted, PutBack, Claim, phyVars
<1>5. CASE AcquireFailed(t)
  BY <1>5 DEF AcquireFailed, GoOn, Fail, lockVars
<1>6. CASE ReleaseLock(t)
  BY <1>6 DEF ReleaseLock, Release, ClearFlag, ReleaseSemaphore, Give
<1>7. CASE Gate(t)
  BY <1>7 DEF Gate, GateRead, GateWrite
<1>8. CASE Reset(t)
  BY <1>8 DEF Reset, ResetMac
<1> QED
  BY <1>1, <1>2, <1>3, <1>4, <1>5, <1>6, <1>7, <1>8 DEF Access

LEMMA SetupKept ==
  ASSUME SetupInv, NEW t \in Threads, Access(t)
  PROVE  SetupInv' /\ calls' = calls /\ family' = family
<1>1. calls' = calls /\ family' = family
  <2>1. CASE Begin(t) \/ AimPhy(t) \/ Arm(t) \/ Acquired(t) \/ AccessCsr(t) \/ AccessPhy(t) \/ MdicError(t) \/ WantMask(t)
    BY <2>1 DEF Begin, AimPhy, Arm, Acquired, AccessCsr, AccessPhy, MdicError, WantMask, Want, lockVars
  <2>2. CASE TakeLock(t) \/ ReleaseLock(t) \/ Gate(t) \/ Reset(t) \/ AcquireFailed(t)
    BY <2>2 DEF TakeLock, Take, TestAndSet, LockMutex, Ask, phyVars, ReleaseLock, Release, ClearFlag, ReleaseSemaphore,
       Give, Gate, GateRead, GateWrite, Reset, ResetMac, AcquireFailed, GoOn, Fail, lockVars
  <2>3. CASE LockStep(t)
    BY <2>3 DEF LockStep, Taking, Releasing, Leave, Disclaim, AskFlag, PollTimesOut, SeeFlag, Own, AskTimesOut, Drop,
       Undo, ReadSmbi, SmbiTimesOut, SmbiForced, Latch, LatchTimesOut, Look, InUse, Exhausted, PutBack, Claim, phyVars
  <2> QED
    BY <2>1, <2>2, <2>3 DEF Access
<1> QED
  BY <1>1 DEF SetupInv

\* Where a step leaves its thread.
Steps(t, s) ==
  \/ todo'[t] = s /\ mask'[t] = mask[t]
  \/ s # <<>> /\ ~Locally(s, "want") /\ todo'[t] = Rest(s) /\ mask'[t] = mask[t]
  \/ Locally(s, "want") /\ todo'[t] = Rest(s) /\ mask'[t] = Head(s).arg
  \/ Gives(s) /\ todo'[t] = Cut(s, FALSE) /\ mask'[t] = mask[t]
  \/ Starts(s, "mdic") /\ todo'[t] = Cut(s, TRUE) /\ mask'[t] = mask[t]
  \/ Starts(s, "mdic") /\ Head(s).kind = "check" /\ todo'[t] = Skipped(s) /\ mask'[t] = mask[t]

LEMMA StepsTaken ==
  ASSUME LockTypeOK, LeftInv, NEW t \in Threads, Access(t), ~Begin(t)
  PROVE  Steps(t, todo[t])
<1> USE DEF LockTypeOK, LeftInv, Go, Advance, Goto, Steps, Starts, Locally, Gives, At, Does, Next1, Rest, Cut, Skipped
<1>1. CASE AimPhy(t) \/ Arm(t) \/ Acquired(t) \/ AccessCsr(t)
  BY <1>1 DEF AimPhy, Arm, Acquired, AccessCsr, lockVars
<1>2. CASE WantMask(t)
  BY <1>2 DEF WantMask, Want
<1>3. CASE TakeLock(t)
  BY <1>3 DEF TakeLock, Take, TestAndSet, LockMutex, Ask, phyVars
<1>4. CASE LockStep(t)
  BY <1>4 DEF LockStep, Taking, Releasing, Leave, Disclaim, AskFlag, PollTimesOut, SeeFlag, Own, AskTimesOut, Drop, Undo,
     ReadSmbi, SmbiTimesOut, SmbiForced, Latch, LatchTimesOut, Look, InUse, Exhausted, PutBack, Claim, phyVars
<1>5. CASE AcquireFailed(t)
  BY <1>5 DEF AcquireFailed, GoOn, Fail, lockVars
<1>6. CASE ReleaseLock(t)
  BY <1>6 DEF ReleaseLock, Release, ClearFlag, ReleaseSemaphore, Give
<1>7. CASE Gate(t)
  BY <1>7 DEF Gate, GateRead, GateWrite
<1>8. CASE Reset(t)
  BY <1>8 DEF Reset, ResetMac
<1>9. CASE AccessPhy(t)
  BY <1>9 DEF AccessPhy, lockVars
<1>10. CASE MdicError(t)
  BY <1>10 DEF MdicError, lockVars
<1> QED
  BY <1>1, <1>2, <1>3, <1>4, <1>5, <1>6, <1>7, <1>8, <1>9, <1>10 DEF Access

LEMMA FunctionsKept ==
  ASSUME LeftInv, NEW t \in Threads, Access(t)
  PROVE  todo' = [u \in Threads |-> todo'[u]] /\ saved' = [u \in Threads |-> saved'[u]]
<1> USE DEF LeftInv, Go, Advance, phyVars
<1>1. CASE Begin(t) \/ AimPhy(t) \/ Arm(t) \/ Acquired(t) \/ AccessCsr(t) \/ WantMask(t) \/ TakeLock(t) \/ LockStep(t)
  BY <1>1 DEF Begin, AimPhy, Arm, Acquired, AccessCsr, WantMask, TakeLock, LockStep
<1>2. CASE AcquireFailed(t) \/ ReleaseLock(t) \/ Gate(t) \/ Reset(t)
  BY <1>2 DEF AcquireFailed, ReleaseLock, Gate, Reset
<1>3. CASE AccessPhy(t) \/ MdicError(t)
  BY <1>3 DEF AccessPhy, MdicError
<1> QED
  BY <1>1, <1>2, <1>3 DEF Access

LEMMA LeftKept ==
  ASSUME LockTypeOK, SetupInv, LeftInv, NEW t \in Threads, Access(t)
  PROVE  LeftInv'
<1>1. ASSUME NEW u \in Threads \ {t}
      PROVE  todo'[u] = <<>> \/ \E c \in calls'[u] : LeftBy(u, c)'
  BY OthersKept, SetupKept DEF LeftInv, LeftBy
<1>2. CASE Begin(t)
  <2>1. PICK c \in calls[t] : todo'[t] = Strip(Program[c])
    BY <1>2 DEF Begin, Go, LeftInv
  <2>2. Strip(Program[c]) \in Remains(c)
    BY <2>1, SetupAssumption, ProgramsClosed DEF SetupInv, Closed
  <2>3. LeftBy(t, c)'
    BY <2>1, <2>2 DEF LeftBy
  <2> QED
    BY <1>1, <2>3, SetupKept, FunctionsKept DEF LeftInv
<1>3. CASE ~Begin(t) /\ todo[t] = <<>>
  <2>1. todo'[t] = <<>>
    BY <1>3, StepsTaken DEF Steps, Starts, Locally, Gives
  <2> QED
    BY <1>1, <2>1, FunctionsKept DEF LeftInv
<1>4. CASE ~Begin(t) /\ todo[t] # <<>>
  <2>1. PICK c \in calls[t] : c \in DOMAIN Program /\ LeftBy(t, c)
    BY <1>4, Disciplined
  <2>2. Closed(c)
    BY <2>1, ProgramsClosed
  <2>3. todo'[t] \in Remains(c)
    BY <1>4, <2>1, <2>2, StepsTaken DEF Steps, Closed, LeftBy, Locally, Starts
  <2>4. ASSUME Asks(c)
        PROVE  todo'[t] = Strip(Program[c]) \/ mask'[t] \in Wanted(c)
    <3>1. CASE Locally(todo[t], "want")
      <4>1. mask'[t] = Head(todo[t]).arg \/ (todo'[t] = todo[t] /\ mask'[t] = mask[t])
        BY <3>1, <1>4, StepsTaken DEF Steps, Locally, Starts, Gives
      <4>2. Head(todo[t]).arg \in Wanted(c)
        BY <3>1, <2>1 DEF LeftBy, Wanted
      <4> QED
        BY <4>1, <4>2, <2>1, <2>4 DEF LeftBy
    <3>2. CASE ~Locally(todo[t], "want")
      BY <3>2, <2>1, <2>4, <1>4, StepsTaken DEF Steps, LeftBy, Asks
    <3> QED
      BY <3>1, <3>2
  <2> QED
    BY <1>1, <2>1, <2>3, <2>4, SetupKept, FunctionsKept DEF LeftInv, LeftBy
<1> QED
  BY <1>2, <1>3, <1>4

LEMMA PcKept ==
  ASSUME LockTypeOK, SetupInv, LeftInv, PcInv, NEW t \in Threads, Access(t)
  PROVE  PcInv'
<1> DEFINE s == todo[t]
           Right == /\ Held(todo'[t]) => pc'[t] = "in" \/ (pc'[t] = "failed" /\ Locally(todo'[t], "reset"))
                    /\ pc'[t] = "in" => Held(todo'[t]) \/ Starts(todo'[t], "acquire")
                    /\ pc'[t] \in TakePcs => Starts(todo'[t], "acquire")
                    /\ pc'[t] = "failed" => Starts(todo'[t], "acquire") \/ Locally(todo'[t], "reset")
<1>1. Locked(s)
  BY Disciplined
<1>2. /\ Held(s) => pc[t] = "in" \/ (pc[t] = "failed" /\ Locally(s, "reset"))
      /\ pc[t] = "in" => Held(s) \/ Starts(s, "acquire")
      /\ pc[t] \in TakePcs => Starts(s, "acquire")
      /\ pc[t] = "failed" => Starts(s, "acquire") \/ Locally(s, "reset")
  BY DEF PcInv
<1>3. Right
  <2> USE <1>1, <1>2 DEF LockTypeOK, LeftInv, Go, Advance, Goto, Starts, Locally, At, Does, Next1, Rest, Cut,
        TakePcs
  <2> HIDE DEF s
  <2>0. s = todo[t]
    BY DEF s
  <2>1. CASE Begin(t)
    <3>1. PICK c \in calls[t] : todo'[t] = Strip(Program[c])
      BY <2>1 DEF Begin
    <3>2. ~Held(Strip(Program[c]))
      BY <3>1, SetupAssumption, ProgramsClosed DEF SetupInv
    <3> QED
      BY <2>1, <3>1, <3>2 DEF Begin, lockVars
  <2>2. CASE AimPhy(t) \/ Arm(t)
    BY <2>0, <2>2 DEF AimPhy, Arm, lockVars, Locked
  <2>3. CASE WantMask(t)
    BY <2>0, <2>3 DEF WantMask, Want, Locked
  <2>4. CASE TakeLock(t)
    BY <2>0, <2>4 DEF TakeLock, Take, TestAndSet, LockMutex, Ask, phyVars, Locked
  <2>5. CASE LockStep(t)
    BY <2>0, <2>5 DEF LockStep, Taking, Releasing, Leave, Disclaim, AskFlag, PollTimesOut, SeeFlag, Own, AskTimesOut,
       Drop, Undo, ReadSmbi, SmbiTimesOut, SmbiForced, Latch, LatchTimesOut, Look, InUse, Exhausted, PutBack, Claim,
       phyVars, Giving, GivePcs, Locked
  <2>6. CASE Acquired(t)
    BY <2>0, <2>6 DEF Acquired, lockVars, Locked
  <2>7. CASE AcquireFailed(t)
    BY <2>0, <2>7 DEF AcquireFailed, GoOn, Fail, lockVars, Locked, Gives
  <2>8. CASE ReleaseLock(t)
    BY <2>0, <2>8 DEF ReleaseLock, Release, ClearFlag, ReleaseSemaphore, Give, Locked
  <2>9. CASE Gate(t)
    BY <2>0, <2>9 DEF Gate, GateRead, GateWrite, Locked
  <2>10. CASE Reset(t)
    BY <2>0, <2>10 DEF Reset, ResetMac, Locked
  <2>11. CASE AccessCsr(t)
    BY <2>0, <2>11 DEF AccessCsr, lockVars, Locked
  <2>12. CASE AccessPhy(t)
    BY <2>0, <2>12 DEF AccessPhy, lockVars, Locked, Skipped
  <2>13. CASE MdicError(t)
    BY <2>0, <2>13 DEF MdicError, lockVars, Locked
  <2> QED
    BY <2>1, <2>2, <2>3, <2>4, <2>5, <2>6, <2>7, <2>8, <2>9, <2>10, <2>11, <2>12, <2>13 DEF Access
<1>4. \A u \in Threads \ {t} : pc'[u] = pc[u] /\ todo'[u] = todo[u]
  BY OthersKept
<1> QED
  BY <1>3, <1>4 DEF PcInv
-----------------------------------------------------------------------------
\* Every function any thread calls leaves phy.addr at 1.
AllOne == \A t \in Threads : \A c \in calls[t] : One(c)

\* What holds however the accesses go, of threads that keep out of each other's way.
Frame ==
  /\ LockTypeOK /\ Exclusive /\ SetupInv /\ LeftInv /\ PcInv
  /\ Orderly(family, calls)

\* Two threads that are inside at once have each their part of the lock.
LEMMA Excluded ==
  ASSUME Frame, forced = {}, NEW t \in Threads, NEW u \in Threads \ {t}, pc[t] = "in", pc[u] = "in"
  PROVE  /\ family = "80003"
         /\ \E c \in calls[t], d \in calls[u] :
              todo[t] \in Remains(c) /\ todo[u] \in Remains(d) /\ (Apart(c, d) \/ Apart(d, c))
<1>1. family = "80003" /\ mask[t] # mask[u]
  BY DEF Frame, Exclusive, Inside, SameResource
<1>2. ASSUME NEW v \in Threads, pc[v] = "in"
      PROVE  /\ todo[v] # <<>>
             /\ \E c \in calls[v] : LeftBy(v, c) /\ ~Locally(todo[v], "want")
  <2>1. Held(todo[v]) \/ Starts(todo[v], "acquire")
    BY <1>2 DEF Frame, PcInv
  <2>2. todo[v] # <<>>
    BY <2>1, NothingLeft DEF Starts
  <2>3. Locked(todo[v])
    BY Disciplined DEF Frame
  <2>4. ~Locally(todo[v], "want")
    BY <2>1, <2>3 DEF Locked, Locally, Starts
  <2> QED
    BY <2>2, <2>4 DEF Frame, LeftInv
<1>3. PICK c \in calls[t] : LeftBy(t, c) /\ ~Locally(todo[t], "want")
  BY <1>2
<1>4. PICK d \in calls[u] : LeftBy(u, d) /\ ~Locally(todo[u], "want")
  BY <1>2
<1>5. /\ Asks(c) /\ Asks(d)
      /\ OneMask(c, d) \/ Apart(c, d) \/ Apart(d, c)
  BY <1>1, <1>3, <1>4 DEF Frame, Orderly
<1>6. mask[t] \in Wanted(c) /\ mask[u] \in Wanted(d)
  BY <1>3, <1>4, <1>5 DEF LeftBy, Asks
<1>7. ~OneMask(c, d)
  BY <1>1, <1>6 DEF OneMask
<1> QED
  BY <1>1, <1>3, <1>4, <1>5, <1>7 DEF LeftBy

\* What is left outside the lock needs nothing of the PHY but phy.addr.
LEMMA OutsideNothing ==
  ASSUME Frame, NEW t \in Threads, pc[t] # "in"
  PROVE  NeedsNothing(todo[t]) /\ (Addrs(todo[t]) # {} => ~Held(todo[t]))
<1>1. Locked(todo[t])
  BY Disciplined DEF Frame
<1>2. Held(todo[t]) => Locally(todo[t], "reset")
  BY DEF Frame, PcInv
<1> QED
  BY <1>1, <1>2 DEF Locked

\* A thread that sets phy.addr disturbs no other that needs it.
LEMMA AddrKept ==
  ASSUME Frame, OneInv, forced = {}, NEW t \in Threads, NEW u \in Threads \ {t},
         Locally(todo[u], "aim") \/ (Starts(todo[u], "mdic") /\ pc[u] = "in"),
         AllOne => phyAddr' = phyAddr,
         \A a \in Addrs(todo[t]) : phyAddr = a
  PROVE  \A a \in Addrs(todo[t]) : phyAddr' = a
<1>1. CASE AllOne
  BY <1>1
<1>2. CASE ~AllOne /\ Addrs(todo[t]) # {}
  <2>1. PICK c \in calls[t] : todo[t] \in Remains(c)
    BY <1>2, NothingLeft DEF Frame, LeftInv, LeftBy
  <2>2. PICK d \in calls[u] : todo[u] \in Remains(d)
    BY DEF Frame, LeftInv, LeftBy, Locally, Starts
  <2>3. /\ Loose(c) => Quiet(d)
        /\ Loose(d) => Quiet(c)
    BY <1>2, <2>1, <2>2 DEF Frame, Orderly, AllOne
  <2>4. ~Quiet(c) /\ ~Quiet(d)
    BY <1>2, <2>1, <2>2 DEF Quiet
  <2>5. Held(todo[t]) /\ pc[t] = "in"
    BY <1>2, <2>1, <2>3, <2>4, OutsideNothing DEF Loose
  <2>6. Held(todo[u])
    <3>1. CASE Locally(todo[u], "aim")
      BY <2>2, <2>3, <2>4, <3>1 DEF Loose
    <3>2. CASE Starts(todo[u], "mdic")
      <4>1. Locked(todo[u])
        BY Disciplined DEF Frame
      <4> QED
        BY <3>2, <4>1 DEF Locked
    <3> QED
      BY <3>1, <3>2
  <2>7. pc[u] = "in"
    BY <2>6 DEF Frame, PcInv, Locally, Starts
  <2>8. PICK e \in calls[t], f \in calls[u] :
               todo[t] \in Remains(e) /\ todo[u] \in Remains(f) /\ (Apart(e, f) \/ Apart(f, e))
    BY <2>5, <2>7, Excluded
  <2>9. Quiet(e) \/ Quiet(f)
    BY <2>8 DEF Apart
  <2> QED
    BY <1>2, <2>8, <2>9 DEF Quiet
<1> QED
  BY <1>1, <1>2

\* An access under the lock disturbs no other thread.
LEMMA AccessApart ==
  ASSUME Frame, forced = {}, NEW t \in Threads, NEW u \in Threads \ {t}, pc[u] = "in",
         Starts(todo[u], "mdic") \/ Starts(todo[u], "csr") \/ Locally(todo[u], "arm")
  PROVE  /\ ~Opened(todo[t]) /\ ~Closing(todo[t])
         /\ Starts(todo[u], "mdic") => Pages(todo[t]) = {}
         /\ Head(todo[u]).kind = "port" => Latches(todo[t]) = {}
         /\ pc[t] = "in" => ~Closing(todo[u])
<1>1. CASE pc[t] # "in"
  BY <1>1, OutsideNothing DEF NeedsNothing
<1>2. CASE pc[t] = "in"
  <2>1. PICK c \in calls[t], d \in calls[u] :
               todo[t] \in Remains(c) /\ todo[u] \in Remains(d) /\ (Apart(c, d) \/ Apart(d, c))
    BY <1>2, Excluded
  <2>2. CASE Apart(c, d)
    BY <2>1, <2>2, NothingLeft DEF Apart, Starts, Locally
  <2>3. CASE Apart(d, c)
    BY <2>1, <2>3, NothingLeft DEF Apart, Starts, Locally, Quiet
  <2> QED
    BY <2>1, <2>2, <2>3
<1> QED
  BY <1>1, <1>2
-----------------------------------------------------------------------------
\* Where all functions leave phy.addr at 1 it never changes.
LEMMA OneKept ==
  ASSUME Frame, OneInv, NEW t \in Threads, Access(t)
  PROVE  OneInv' /\ (AllOne => phyAddr' = phyAddr)
<1>1. AllOne => phyAddr = 1
  BY DEF OneInv, AllOne
<1>2. calls' = calls
  BY SetupKept DEF Frame
<1>3. ASSUME AllOne
      PROVE  phyAddr' = 1
  <2>1. CASE AimPhy(t)
    <3>1. PICK c \in calls[t] : todo[t] \in Remains(c)
      BY <2>1 DEF AimPhy, Does, At, Frame, LeftInv, LeftBy
    <3> QED
      BY <1>3, <2>1, <3>1 DEF AimPhy, Does, At, Next1, AllOne, One, Locally, Starts
  <2>2. CASE AccessPhy(t) \/ MdicError(t)
    <3>1. Starts(todo[t], "mdic") /\ phyAddr' = BackAddr(Head(todo[t]))
      BY <2>2 DEF AccessPhy, MdicError, At, Next1, Starts
    <3>2. PICK c \in calls[t] : todo[t] \in Remains(c)
      BY <3>1 DEF Starts, Frame, LeftInv, LeftBy
    <3> QED
      BY <1>1, <1>3, <3>1, <3>2 DEF BackAddr, AllOne, One
  <2>3. CASE Begin(t) \/ Arm(t) \/ Acquired(t) \/ AccessCsr(t) \/ WantMask(t) \/ TakeLock(t) \/ LockStep(t)
    BY <1>1, <1>3, <2>3 DEF Begin, Arm, Acquired, AccessCsr, WantMask, TakeLock, LockStep, phyVars
  <2>4. CASE AcquireFailed(t) \/ ReleaseLock(t) \/ Gate(t) \/ Reset(t)
    BY <1>1, <1>3, <2>4 DEF AcquireFailed, ReleaseLock, Gate, Reset
  <2> QED
    BY <2>1, <2>2, <2>3, <2>4 DEF Access
<1> QED
  BY <1>1, <1>2, <1>3 DEF OneInv, AllOne

\* The steps that leave the PHY alone.
Still(t) ==
  \/ Begin(t) \/ WantMask(t) \/ TakeLock(t) \/ LockStep(t)
  \/ Acquired(t) \/ AcquireFailed(t) \/ ReleaseLock(t) \/ Gate(t)

LEMMA StillKept ==
  ASSUME NEW t \in Threads, Still(t)
  PROVE  UNCHANGED <<phyAddr, page, latch, wuc, saved, owed, broken>>
BY DEF Still, Begin, WantMask, TakeLock, LockStep, Acquired, AcquireFailed, ReleaseLock, Gate, phyVars

\* A reset that nobody else's lock suffers from.
LEMMA ResetAlone ==
  ASSUME Frame, IInv', forced = {}, forced' = {}, NEW t \in Threads, Reset(t), NEW u \in Threads \ {t}
  PROVE  pc[u] # "in"
<1>1. family \in {"ich", "82574"} /\ family' = family /\ busy' = NoThread
  BY DEF Reset, ResetMac
<1>2. FlagInv'
  BY DEF IInv
<1>3. pc'[u] = pc[u]
  BY OthersKept DEF Frame, Access
<1> QED
  BY <1>1, <1>2, <1>3, NoThreadAssumption DEF FlagInv, MutexPcs

\* What another thread needs is still there after a step.
LEMMA OthersMet ==
  ASSUME Frame, IInv', OneInv, NeedsInv, forced = {}, forced' = {}, NEW t \in Threads, Access(t),
         NEW u \in Threads \ {t}
  PROVE  Meets(u, todo[u])'
<1>1. todo'[u] = todo[u] /\ saved'[u] = saved[u]
  BY OthersKept DEF Frame
<1>2. Meets(u, todo[u])
  BY DEF NeedsInv
<1>3. AllOne => phyAddr' = phyAddr
  BY OneKept
<1>4. CASE Still(t)
  BY <1>1, <1>2, <1>4, StillKept DEF Meets
<1>5. CASE AimPhy(t)
  <2>1. Locally(todo[t], "aim")
    BY <1>5 DEF AimPhy, Does, At, Next1, Locally, Starts
  <2>2. \A a \in Addrs(todo[u]) : phyAddr' = a
    BY <1>2, <1>3, <2>1, AddrKept DEF Meets
  <2> QED
    BY <1>1, <1>2, <1>5, <2>2 DEF Meets, AimPhy
<1>6. CASE Arm(t)
  <2>1. Locally(todo[t], "arm")
    BY <1>6 DEF Arm, Does, At, Next1, Locally, Starts
  <2>2. Locked(todo[t])
    BY Disciplined DEF Frame
  <2>3. pc[t] = "in"
    BY <2>1, <2>2 DEF Locked, Frame, PcInv, Locally, Starts
  <2>4. ~Closing(todo[u])
    BY <2>1, <2>3, AccessApart
  <2> QED
    BY <1>1, <1>2, <1>6, <2>4 DEF Meets, Arm
<1>7. CASE Reset(t)
  <2>1. NeedsNothing(todo[u])
    BY <1>7, ResetAlone, OutsideNothing
  <2> QED
    BY <1>1, <1>2, <1>7, <2>1 DEF Meets, NeedsNothing, Reset
<1>8. CASE AccessCsr(t)
  <2>1. Starts(todo[t], "csr") /\ pc[t] = "in" /\ Head(todo[t]) = Next1(t)
    BY <1>8 DEF AccessCsr, At, Next1, Starts
  <2>2. Latches(todo[u]) = {} \/ latch' = latch
    BY <1>8, <2>1, AccessApart DEF AccessCsr
  <2> QED
    BY <1>1, <1>2, <1>8, <2>2 DEF Meets, AccessCsr
<1>9. CASE AccessPhy(t) \/ MdicError(t)
  <2>1. Starts(todo[t], "mdic") /\ pc[t] = "in" /\ Head(todo[t]) = Next1(t)
    BY <1>9 DEF AccessPhy, MdicError, At, Next1, Starts
  <2>2. \A a \in Addrs(todo[u]) : phyAddr' = a
    BY <1>2, <1>3, <2>1, AddrKept DEF Meets
  <2>3. /\ ~Opened(todo[u]) /\ ~Closing(todo[u]) /\ Pages(todo[u]) = {}
        /\ Next1(t).kind = "port" => Latches(todo[u]) = {}
    BY <2>1, AccessApart
  <2>4. Next1(t).kind # "port" => latch' = latch
    BY <1>9 DEF AccessPhy, MdicError, Effect, NoEffect
  <2> QED
    BY <1>1, <1>2, <2>2, <2>3, <2>4 DEF Meets
<1> QED
  BY <1>4, <1>5, <1>6, <1>7, <1>8, <1>9 DEF Access, Still
-----------------------------------------------------------------------------
\* What a thread needs is enough for the next of its accesses.
LEMMA AimedHere ==
  ASSUME Frame, NEW t \in Threads, NEW s, s = todo[t], Meets(t, s), s # <<>>
  PROVE  Aimed(t, Head(s))
<1>1. AimsFirst(s) /\ SelectsFirst(s) /\ LatchesFirst(s) /\ OpensFirst(s)
  BY Disciplined DEF Frame
<1>2. Head(s).do = "mdic" => Head(s).addr = phyAddr
  BY <1>1 DEF AimsFirst, Meets, Starts
<1>3. Head(s).do = "mdic" /\ Head(s).page # AnyPage => page[Head(s).addr] = Head(s).page
  <2>1. SUFFICES ASSUME Head(s).do = "mdic", Head(s).page # AnyPage
                 PROVE  page[Head(s).addr] = Head(s).page
    OBVIOUS
  <2>2. <<Head(s).addr, Head(s).page>> \in Pages(s)
    BY <1>1, <2>1 DEF SelectsFirst, Starts
  <2>3. page[<<Head(s).addr, Head(s).page>>[1]] = <<Head(s).addr, Head(s).page>>[2]
    BY <2>2 DEF Meets
  <2> QED
    BY <2>3
<1>4. Head(s).page = 800 => "enable" \in wuc
  BY <1>1 DEF OpensFirst, Meets
<1>5. Head(s).kind = "data" => latch[Head(s).arg] = t
  BY <1>1 DEF LatchesFirst, Meets
<1> QED
  BY <1>2, <1>3, <1>4, <1>5 DEF Aimed

\* A step, an access that fails included, provides what is left after it.
LEMMA OwnMet ==
  ASSUME Frame, PhyTypeOK, OneInv, NeedsInv, WucInv, forced = {}, ~broken', NEW t \in Threads, Access(t)
  PROVE  Meets(t, todo[t])'
<1> DEFINE s == todo[t]
           x == Head(s)
<1>1. Meets(t, s)
  BY DEF NeedsInv
<1>2. Proper(s) /\ Locked(s) /\ AimsFirst(s) /\ SelectsFirst(s) /\ LatchesFirst(s) /\ OpensFirst(s) /\ ClosesAfter(s)
  BY Disciplined DEF Frame
<1>3. todo = [u \in Threads |-> todo[u]] /\ saved = [u \in Threads |-> saved[u]]
  BY DEF Frame, LeftInv
<1>4. /\ page = [a \in {1, 2} |-> page[a]] /\ latch = [p \in Ports |-> latch[p]]
  BY DEF PhyTypeOK
<1>5. s # <<>> => Aimed(t, x)
  BY <1>1, AimedHere
<1>6. ~broken
  BY DEF Access, AimPhy, Arm, Reset, AccessCsr, AccessPhy, MdicError, Begin, WantMask, TakeLock, LockStep, Acquired,
     AcquireFailed, ReleaseLock, Gate, phyVars
<1>7. SUFFICES /\ \A a \in Addrs(todo'[t]) : phyAddr' = a
               /\ \A z \in Pages(todo'[t]) : page'[z[1]] = z[2]
               /\ \A p \in Latches(todo'[t]) : latch'[p] = t
               /\ Opened(todo'[t]) => "enable" \in wuc'
               /\ Closing(todo'[t]) => saved'[t] = owed'
  BY DEF Meets
<1>8. ASSUME s # <<>>, x.do # "mdic", x.kind \notin {"aim", "port", "open", "close", "save"}
      PROVE  /\ Addrs(Rest(s)) \subseteq Addrs(s) /\ Pages(Rest(s)) \subseteq Pages(s)
             /\ Latches(Rest(s)) \subseteq Latches(s) /\ (Opened(Rest(s)) => Opened(s))
             /\ Closing(Rest(s)) <=> Closing(s)
  BY <1>2, <1>8 DEF AimsFirst, SelectsFirst, LatchesFirst, OpensFirst, ClosesAfter, Locally, Starts
<1>9. CASE Still(t) /\ todo'[t] = s
  BY <1>1, <1>9, StillKept DEF Meets
<1>10. CASE Begin(t)
  <2>1. PICK c \in calls[t] : todo'[t] = Strip(Program[c])
    BY <1>3, <1>10 DEF Begin, Go
  <2>2. c \in DOMAIN Program
    BY <2>1, SetupAssumption DEF Frame, SetupInv
  <2>3. todo'[t] \in Remains(c) /\ ~Held(todo'[t])
    BY <2>1, <2>2, ProgramsClosed DEF Closed
  <2>4. NeedsNothing(todo'[t])
    BY <2>2, <2>3, ProgramsDisciplined DEF Locked
  <2>5. \A a \in Addrs(todo'[t]) : phyAddr = a
    <3>1. CASE AllOne
      BY <2>1, <2>3, <3>1 DEF AllOne, One, OneInv
    <3>2. CASE ~AllOne
      <4>1. SelfAimed(c)
        BY <3>2, <2>1 DEF Frame, Orderly, AllOne
      <4> QED
        BY <2>1, <4>1 DEF SelfAimed
    <3> QED
      BY <3>1, <3>2
  <2> QED
    BY <1>10, <2>4, <2>5, StillKept DEF NeedsNothing, Still
<1>11. CASE Still(t) /\ s # <<>> /\ todo'[t] = Rest(s) /\ x.do # "mdic" /\ x.kind \notin {"aim", "port", "open", "close", "save"}
  BY <1>1, <1>8, <1>11, StillKept DEF Meets
<1>12. CASE WantMask(t) \/ Acquired(t) \/ ReleaseLock(t) \/ Gate(t)
  <2>1. todo'[t] = s \/ (s # <<>> /\ todo'[t] = Rest(s) /\ x.do # "mdic" /\ x.kind \notin {"aim", "port", "open", "close", "save"})
    <3>1. CASE WantMask(t)
      BY <1>3, <3>1 DEF WantMask, Does, At, Next1, Advance, Go, Rest
    <3>2. CASE Acquired(t) \/ ReleaseLock(t)
      <4>1. s # <<>> /\ x.do \in {"acquire", "release"} /\ todo'[t] = Rest(s)
        BY <1>3, <3>2 DEF Acquired, ReleaseLock, At, Next1, Advance, Go, Rest
      <4>2. x.kind \in {"", "reset", "reacquire"}
        BY <1>2, <4>1 DEF Proper
      <4> QED
        BY <4>1, <4>2
    <3>3. CASE Gate(t)
      BY <1>3, <3>3 DEF Gate, Does, At, Next1, Advance, Go, Rest
    <3> QED
      BY <1>12, <3>1, <3>2, <3>3
  <2> QED
    BY <1>9, <1>11, <1>12, <2>1 DEF Still
<1>13. CASE AcquireFailed(t)
  <2>1. s # <<>> /\ x.do = "acquire" /\ x.kind \in {"", "reset", "reacquire"}
    BY <1>2, <1>13 DEF AcquireFailed, At, Next1, Proper
  <2>2. CASE todo'[t] = Rest(s)
    BY <1>11, <1>13, <2>1, <2>2 DEF Still
  <2>3. CASE todo'[t] = Cut(s, FALSE) /\ Gives(s)
    <3>1. NeedsNothing(Cut(s, FALSE))
      <4>1. PICK c \in calls[t] : c \in DOMAIN Program /\ LeftBy(t, c)
        BY <2>1, Disciplined DEF Frame
      <4>2. Cut(s, FALSE) \in Remains(c)
        BY <2>3, <4>1, ProgramsClosed DEF LeftBy, Closed
      <4>3. ~Held(Cut(s, FALSE))
        BY <1>2, <2>3 DEF Locked
      <4> QED
        BY <4>1, <4>2, <4>3, ProgramsDisciplined DEF Locked
    <3>2. Addrs(Cut(s, FALSE)) \subseteq Addrs(s)
      BY <1>2, <2>3 DEF AimsFirst
    <3> QED
      BY <1>1, <1>13, <2>3, <3>1, <3>2, StillKept DEF NeedsNothing, Meets, Still
  <2> QED
    BY <1>3, <1>13, <2>1, <2>2, <2>3 DEF AcquireFailed, At, Next1, Advance, Go, Rest, Cut, Gives, Starts
<1>14. CASE TakeLock(t) \/ LockStep(t)
  BY <1>9, <1>14 DEF Still, TakeLock, LockStep, phyVars
<1>15. CASE AimPhy(t)
  <2>1. s # <<>> /\ x.do = "local" /\ x.kind = "aim" /\ todo'[t] = Rest(s) /\ phyAddr' = x.arg
    BY <1>3, <1>15 DEF AimPhy, Does, At, Next1, Advance, Go, Rest
  <2>2. Addrs(Rest(s)) \subseteq {x.arg}
    BY <1>2, <2>1 DEF AimsFirst, Locally, Starts
  <2>3. /\ Pages(Rest(s)) \subseteq Pages(s) /\ Latches(Rest(s)) \subseteq Latches(s)
        /\ (Opened(Rest(s)) => Opened(s)) /\ (Closing(Rest(s)) => Closing(s))
    BY <1>2, <2>1 DEF SelectsFirst, LatchesFirst, OpensFirst, ClosesAfter
  <2> QED
    BY <1>1, <1>15, <2>1, <2>2, <2>3 DEF Meets, AimPhy
<1>16. CASE Arm(t)
  <2>1. s # <<>> /\ x.do = "local" /\ x.kind = "arm" /\ todo'[t] = Rest(s)
    BY <1>3, <1>16 DEF Arm, Does, At, Next1, Advance, Go, Rest
  <2>2. saved[t] = owed
    BY <1>1, <1>2, <2>1 DEF ClosesAfter, Meets
  <2>3. saved'[t] = owed'
    BY <1>3, <1>16, <2>2 DEF Arm
  <2> QED
    BY <1>1, <1>8, <1>16, <2>1, <2>3 DEF Meets, Arm
<1>17. CASE Reset(t)
  <2>1. Locally(s, "reset") /\ s # <<>> /\ x.do = "local" /\ x.kind = "reset" /\ todo'[t] = Rest(s)
    BY <1>3, <1>17 DEF Reset, Does, At, Next1, Advance, Go, Rest, Locally, Starts
  <2>2. NeedsNothing(s) /\ Addrs(s) = {}
    BY <1>2, <2>1 DEF Locked
  <2> QED
    BY <1>8, <2>1, <2>2 DEF NeedsNothing
<1>18. CASE AccessCsr(t)
  <2>1. s # <<>> /\ x.do = "csr" /\ x.kind \in {"port", "data"} /\ x.arg = "kmrn" /\ todo'[t] = Rest(s)
    BY <1>2, <1>3, <1>18 DEF AccessCsr, At, Next1, Advance, Go, Rest, Proper
  <2>2. CASE x.kind = "data"
    BY <1>1, <1>8, <1>18, <2>1, <2>2 DEF Meets, AccessCsr, Next1
  <2>3. CASE x.kind = "port"
    <3>1. Latches(Rest(s)) \subseteq Latches(s) \cup {"kmrn"}
      BY <1>2, <2>1, <2>3 DEF LatchesFirst
    <3>2. \A p \in Latches(Rest(s)) : latch'[p] = t
      <4>1. latch' = [latch EXCEPT !["kmrn"] = t]
        BY <1>18, <2>3 DEF AccessCsr, Next1
      <4>2. latch'["kmrn"] = t /\ \A p : p # "kmrn" => latch'[p] = latch[p]
        BY <1>4, <4>1 DEF Ports
      <4> QED
        BY <1>1, <3>1, <4>2 DEF Meets
    <3>3. /\ Pages(Rest(s)) \subseteq Pages(s) /\ Addrs(Rest(s)) \subseteq Addrs(s)
          /\ (Opened(Rest(s)) => Opened(s)) /\ (Closing(Rest(s)) => Closing(s))
      BY <1>2, <2>1, <2>3 DEF SelectsFirst, AimsFirst, OpensFirst, ClosesAfter, Locally, Starts
    <3> QED
      BY <1>1, <1>18, <2>1, <3>2, <3>3 DEF Meets, AccessCsr
  <2> QED
    BY <2>1, <2>2, <2>3
<1>19. CASE AccessPhy(t)
  <2>1. s # <<>> /\ x.do = "mdic" /\ x = Next1(t) /\ pc[t] = "in"
    BY <1>19 DEF AccessPhy, At, Next1
  <2>2. /\ Effect(t, x) /\ phyAddr' = BackAddr(x) /\ owed' = owed
        /\ saved' = CASE x.kind = "save" -> [saved EXCEPT ![t] = wuc]
                     [] x.kind = "close" -> [saved EXCEPT ![t] = {}]
                     [] OTHER -> saved
    BY <1>5, <1>19, <2>1 DEF AccessPhy
  <2>3. x.kind \in {"io", "select", "port", "data", "save", "open", "close", "check"}
    BY <1>2, <2>1 DEF Proper
  <2>4. CASE x.kind = "check" /\ todo'[t] = Skipped(s) /\ page[1] = x.arg
    <3>1. Starts(s, "mdic") /\ x.kind = "check"
      BY <2>1, <2>4 DEF Starts
    <3>2. UNCHANGED <<phyAddr, page, latch, wuc, saved>>
      BY <2>2, <2>4 DEF Effect, BackAddr
    <3>3. /\ Addrs(Skipped(s)) \subseteq Addrs(s) /\ Pages(Skipped(s)) \subseteq Pages(s) \cup {<<1, x.arg>>}
          /\ Latches(Skipped(s)) \subseteq Latches(s)
          /\ (Opened(Skipped(s)) => Opened(s)) /\ (Closing(Skipped(s)) => Closing(s))
      BY <1>2, <3>1 DEF AimsFirst, SelectsFirst, LatchesFirst, OpensFirst, ClosesAfter
    <3>4. \A z \in Pages(Skipped(s)) : page[z[1]] = z[2]
      BY <1>1, <2>4, <3>3 DEF Meets
    <3> QED
      BY <1>1, <2>2, <2>4, <3>2, <3>3, <3>4 DEF Meets
  <2>5. CASE todo'[t] = Rest(s)
    <3>1. \A a \in Addrs(Rest(s)) : phyAddr' = a
      BY <1>1, <1>2, <2>1, <2>2 DEF AimsFirst, Starts, BackAddr, Meets
    <3>2. \A z \in Pages(Rest(s)) : page'[z[1]] = z[2]
      <4>1. CASE x.kind = "select"
        <5>1. Pages(Rest(s)) \subseteq x.arg.as \X {x.arg.page} /\ x.arg.as \subseteq {1, 2}
          BY <1>2, <2>1, <4>1 DEF SelectsFirst, Starts, Proper
        <5>2. \A a \in x.arg.as : page'[a] = x.arg.page
          BY <2>2, <4>1, <5>1 DEF Effect
        <5> QED
          BY <5>1, <5>2
      <4>2. CASE x.kind # "select"
        BY <1>1, <1>2, <2>1, <2>2, <4>2 DEF SelectsFirst, Starts, Effect, Meets
      <4> QED
        BY <4>1, <4>2
    <3>3. \A p \in Latches(Rest(s)) : latch'[p] = t
      <4>1. CASE x.kind = "port"
        <5>1. latch' = [latch EXCEPT ![x.arg] = t] /\ x.arg \in Ports
          BY <1>2, <2>1, <2>2, <4>1 DEF Effect, Proper
        <5>2. latch'[x.arg] = t /\ \A p : p # x.arg => latch'[p] = latch[p]
          BY <1>4, <5>1
        <5>3. Latches(Rest(s)) \subseteq Latches(s) \cup {x.arg}
          BY <1>2, <2>1, <4>1 DEF LatchesFirst
        <5> QED
          BY <1>1, <5>2, <5>3 DEF Meets
      <4>2. CASE x.kind # "port"
        BY <1>1, <1>2, <2>1, <2>2, <4>2 DEF LatchesFirst, Effect, Meets
      <4> QED
        BY <4>1, <4>2
    <3>4. Opened(Rest(s)) => "enable" \in wuc'
      BY <1>1, <1>2, <2>1, <2>2, <2>3 DEF OpensFirst, Starts, Effect, Meets
    <3>5. Closing(Rest(s)) => saved'[t] = owed'
      <4>1. CASE x.kind = "save"
        <5>1. \A u \in Threads : ~Closing(todo[u])
          <6>1. ~Closing(s)
            BY <1>2, <2>1, <4>1 DEF ClosesAfter
          <6>2. ASSUME NEW u \in Threads \ {t}
                PROVE  ~Closing(todo[u])
            BY <2>1, <6>2, AccessApart DEF Starts
          <6> QED
            BY <6>1, <6>2
        <5>2. wuc = owed
          BY <5>1 DEF WucInv
        <5> QED
          BY <1>3, <2>2, <4>1, <5>2
      <4>2. CASE x.kind = "close"
        BY <1>2, <2>1, <4>2 DEF ClosesAfter
      <4>3. CASE x.kind \notin {"save", "close"}
        BY <1>1, <1>2, <2>1, <2>2, <4>3 DEF ClosesAfter, Meets
      <4> QED
        BY <4>1, <4>2, <4>3
    <3> QED
      BY <2>5, <3>1, <3>2, <3>3, <3>4, <3>5
  <2> QED
    BY <1>3, <1>19, <2>1, <2>4, <2>5 DEF AccessPhy, Go, Rest, Skipped
<1>20. CASE MdicError(t)
  <2>1. s # <<>> /\ x.do = "mdic" /\ Starts(s, "mdic") /\ todo'[t] = Cut(s, TRUE)
    BY <1>3, <1>20 DEF MdicError, At, Next1, Go, Cut, Starts
  <2>2. (Effect(t, x) \/ NoEffect) /\ phyAddr' = BackAddr(x) /\ owed' = owed /\ saved' = saved
    BY <1>20 DEF MdicError, Next1
  <2>3. \A a \in Addrs(Cut(s, TRUE)) : phyAddr' = a
    BY <1>1, <1>2, <2>1, <2>2 DEF AimsFirst, BackAddr, Meets
  <2>4. \A z \in Pages(Cut(s, TRUE)) : page'[z[1]] = z[2]
    BY <1>1, <1>2, <2>1, <2>2 DEF SelectsFirst, Effect, NoEffect, Meets
  <2>5. \A p \in Latches(Cut(s, TRUE)) : latch'[p] = t
    <3>1. Latches(Cut(s, TRUE)) \subseteq Latches(s)
      BY <1>2, <2>1 DEF LatchesFirst
    <3>2. \A p : latch[p] = t => latch'[p] = t
      <4>1. CASE x.kind = "port" /\ Effect(t, x)
        <5>1. latch' = [latch EXCEPT ![x.arg] = t] /\ x.arg \in Ports
          BY <1>2, <2>1, <4>1 DEF Effect, Proper
        <5> QED
          BY <1>4, <5>1
      <4>2. CASE ~(x.kind = "port" /\ Effect(t, x))
        BY <2>2, <4>2 DEF Effect, NoEffect
      <4> QED
        BY <4>1, <4>2
    <3> QED
      BY <1>1, <3>1, <3>2 DEF Meets
  <2>6. Opened(Cut(s, TRUE)) => "enable" \in wuc'
    BY <1>1, <1>2, <2>1, <2>2 DEF OpensFirst, Effect, NoEffect, Meets
  <2>7. Closing(Cut(s, TRUE)) => saved'[t] = owed'
    BY <1>1, <1>2, <2>1, <2>2 DEF ClosesAfter, Meets
  <2> QED
    BY <2>1, <2>3, <2>4, <2>5, <2>6, <2>7
<1> QED
  BY <1>10, <1>12, <1>13, <1>14, <1>15, <1>16, <1>17, <1>18, <1>19, <1>20 DEF Access

\* And leaves the wakeup page to be closed by somebody, or closed.
LEMMA WucKept ==
  ASSUME Frame, OneInv, NeedsInv, WucInv, forced = {}, ~broken', NEW t \in Threads, Access(t)
  PROVE  WucInv'
<1> DEFINE s == todo[t]
           x == Head(s)
<1>1. Meets(t, s)
  BY DEF NeedsInv
<1>2. Proper(s) /\ Locked(s) /\ ClosesAfter(s)
  BY Disciplined DEF Frame
<1>3. todo = [u \in Threads |-> todo[u]]
  BY DEF Frame, LeftInv
<1>4. s # <<>> => Aimed(t, x)
  BY <1>1, AimedHere
<1>5. \A u \in Threads \ {t} : todo'[u] = todo[u]
  BY OthersKept DEF Frame
<1>6. (~Closing(s) /\ \A u \in Threads : ~Closing(todo'[u])) => wuc = owed
  BY <1>5 DEF WucInv
<1>7. SUFFICES ASSUME ~Closing(todo'[t]), \A u \in Threads : ~Closing(todo'[u])
               PROVE  wuc' = owed'
  BY DEF WucInv
<1>8. CASE wuc' = wuc /\ owed' = owed /\ (Closing(s) => Closing(todo'[t]))
  BY <1>6, <1>7, <1>8
<1>9. CASE Still(t)
  <2>1. ~Closing(s) \/ todo'[t] = s
    <3>1. CASE LockStep(t)
      BY <3>1 DEF LockStep, phyVars
    <3>2. CASE Begin(t)
      BY <3>2, NothingLeft DEF Begin, NeedsNothing
    <3>3. CASE WantMask(t) \/ TakeLock(t) \/ Acquired(t) \/ AcquireFailed(t) \/ Gate(t)
      <4>1. Starts(s, "acquire") \/ Locally(s, "want") \/ Locally(s, "gate")
        BY <3>3 DEF WantMask, TakeLock, Acquired, AcquireFailed, Gate, Does, At, Next1, Starts, Locally
      <4> QED
        BY <1>2, <4>1 DEF Locked, NeedsNothing
    <3>4. CASE ReleaseLock(t)
      BY <1>2, <3>4 DEF ReleaseLock, At, Next1, Starts, Locked, NeedsNothing
    <3> QED
      BY <1>9, <3>1, <3>2, <3>3, <3>4 DEF Still
  <2> QED
    BY <1>8, <1>9, <2>1, StillKept
<1>10. CASE AimPhy(t) \/ AccessCsr(t)
  <2>1. s # <<>> /\ x.kind \notin {"save", "close"} /\ todo'[t] = Rest(s)
    <3>1. CASE AimPhy(t)
      BY <1>3, <3>1 DEF AimPhy, Does, At, Next1, Advance, Go, Rest
    <3>2. CASE AccessCsr(t)
      BY <1>2, <1>3, <3>2 DEF AccessCsr, At, Next1, Advance, Go, Rest, Proper
    <3> QED
      BY <1>10, <3>1, <3>2
  <2>2. wuc' = wuc /\ owed' = owed
    BY <1>10 DEF AimPhy, AccessCsr
  <2> QED
    BY <1>2, <1>8, <2>1, <2>2 DEF ClosesAfter
<1>11. CASE Arm(t)
  <2>1. s # <<>> /\ x.kind = "arm" /\ todo'[t] = Rest(s)
    BY <1>3, <1>11 DEF Arm, Does, At, Next1, Advance, Go, Rest
  <2> QED
    BY <1>2, <1>7, <2>1 DEF ClosesAfter
<1>12. CASE Reset(t)
  <2>1. Locally(s, "reset")
    BY <1>12 DEF Reset, Does, At, Next1, Locally, Starts
  <2>2. ~Closing(s)
    BY <1>2, <2>1 DEF Locked, NeedsNothing
  <2> QED
    BY <1>6, <1>7, <1>12, <2>2 DEF Reset
<1>13. CASE AccessPhy(t)
  <2>1. s # <<>> /\ x.do = "mdic" /\ Starts(s, "mdic") /\ x = Next1(t)
    BY <1>13 DEF AccessPhy, At, Next1, Starts
  <2>2. Effect(t, x) /\ owed' = owed
    BY <1>4, <1>13, <2>1 DEF AccessPhy
  <2>3. todo'[t] = Rest(s) \/ (x.kind = "check" /\ todo'[t] = Skipped(s))
    BY <1>3, <1>13, <2>1 DEF AccessPhy, Go, Rest, Skipped
  <2>4. CASE x.kind = "close"
    BY <1>1, <1>2, <2>1, <2>2, <2>4 DEF ClosesAfter, Meets, Effect, Restored
  <2>5. CASE x.kind = "open"
    BY <1>2, <1>7, <2>1, <2>3, <2>5 DEF ClosesAfter
  <2>6. CASE x.kind \notin {"open", "close"}
    <3>1. wuc' = wuc
      BY <2>2, <2>6 DEF Effect
    <3>2. Closing(s) => Closing(todo'[t])
      BY <1>2, <2>1, <2>3, <2>6 DEF ClosesAfter
    <3> QED
      BY <1>8, <2>2, <3>1, <3>2
  <2> QED
    BY <2>4, <2>5, <2>6
<1>14. CASE MdicError(t)
  <2>1. s # <<>> /\ x.do = "mdic" /\ Starts(s, "mdic") /\ x = Next1(t) /\ todo'[t] = Cut(s, TRUE)
    BY <1>3, <1>14 DEF MdicError, At, Next1, Go, Cut, Starts
  <2>2. (Effect(t, x) \/ NoEffect) /\ owed' = owed
    BY <1>14, <2>1 DEF MdicError
  <2>3. ~(wuc' # owed /\ Closes(AfterError(Tail(s), x.depth, TRUE)) < Closes(s))
    BY <1>14, <2>1 DEF MdicError
  <2>4. CASE Closing(s)
    BY <1>2, <1>7, <2>1, <2>2, <2>3, <2>4 DEF ClosesAfter
  <2>5. CASE ~Closing(s)
    <3>1. x.kind \notin {"open", "close"}
      BY <1>2, <2>1, <2>5 DEF ClosesAfter
    <3>2. wuc' = wuc
      BY <2>2, <3>1 DEF Effect, NoEffect
    <3> QED
      BY <1>8, <2>2, <2>5, <3>2
  <2> QED
    BY <2>4, <2>5
<1> QED
  BY <1>9, <1>10, <1>11, <1>12, <1>13, <1>14 DEF Access, Still
-----------------------------------------------------------------------------
LEMMA PhyTypesKept ==
  ASSUME PhyTypeOK, LockTypeOK', SetupInv, LeftInv, [PhyNext]_vars
  PROVE  PhyTypeOK'
<1> DEFINE Typed == /\ phyAddr \in {1, 2}
                    /\ page \in [{1, 2} -> 0..801]
                    /\ latch \in [Ports -> Threads \cup {NoThread}]
                    /\ {wuc, owed} \subseteq SUBSET {"enable", "host", "me"}
                    /\ saved \in [Threads -> SUBSET {"enable", "host", "me"}]
                    /\ broken \in BOOLEAN /\ errors \in 0..MdicErrors
<1>1. Typed
  BY DEF PhyTypeOK
<1>2. SUFFICES Typed'
  BY DEF PhyTypeOK
<1> HIDE DEF Typed
<1>3. ASSUME NEW t \in Threads, Still(t) \/ AimPhy(t) \/ Arm(t) \/ Reset(t) \/ AccessCsr(t)
      PROVE  Typed'
  <2>1. Proper(todo[t])
    BY Disciplined
  <2>2. CASE Still(t)
    <3>1. errors' = errors
      BY <2>2 DEF Still, Begin, WantMask, TakeLock, LockStep, Acquired, AcquireFailed, ReleaseLock, Gate, phyVars
    <3> QED
      BY <1>1, <2>2, <3>1, StillKept DEF Typed
  <2>3. CASE AimPhy(t)
    BY <1>1, <2>1, <2>3 DEF Typed, AimPhy, Does, At, Next1, Proper
  <2>4. CASE Arm(t) \/ Reset(t)
    BY <1>1, <2>4 DEF Typed, Arm, Reset
  <2>5. CASE AccessCsr(t)
    BY <1>1, <2>5 DEF Typed, AccessCsr, Ports
  <2> QED
    BY <1>3, <2>2, <2>3, <2>4, <2>5
<1>4. ASSUME NEW t \in Threads, AccessPhy(t) \/ MdicError(t)
      PROVE  Typed'
  <2> DEFINE x == Head(todo[t])
  <2>1. todo[t] # <<>> /\ x.do = "mdic" /\ x = Next1(t)
    BY <1>4 DEF AccessPhy, MdicError, At, Next1
  <2>2. Proper(todo[t])
    BY Disciplined
  <2>3. /\ x.kind = "select" => x.arg.page \in 0..801 /\ x.arg.as \subseteq {1, 2} /\ x.arg.back \in {1, 2}
        /\ x.kind = "port" => x.arg \in Ports
    BY <2>1, <2>2 DEF Proper
  <2>4. phyAddr' \in {1, 2}
    BY <1>1, <1>4, <2>1, <2>3 DEF AccessPhy, MdicError, BackAddr, Typed
  <2>5. Effect(t, x) \/ NoEffect
    BY <1>4, <2>1 DEF AccessPhy, MdicError
  <2>6. page' \in [{1, 2} -> 0..801]
    <3>1. page \in [{1, 2} -> 0..801]
      BY <1>1 DEF Typed
    <3>2. CASE page' = page
      BY <3>1, <3>2
    <3>3. CASE x.kind = "select" /\ page' = [a \in {1, 2} |-> IF a \in x.arg.as THEN x.arg.page ELSE page[a]]
      BY <2>3, <3>1, <3>3
    <3> QED
      BY <2>5, <3>2, <3>3 DEF Effect, NoEffect
  <2>7. latch' \in [Ports -> Threads \cup {NoThread}]
    BY <1>1, <2>3, <2>5 DEF Effect, NoEffect, Typed
  <2>8. wuc' \in SUBSET {"enable", "host", "me"} /\ owed' = owed
    BY <1>1, <1>4, <2>5 DEF Effect, Restored, NoEffect, Typed, AccessPhy, MdicError
  <2>9. saved' \in [Threads -> SUBSET {"enable", "host", "me"}]
    <3>1. saved' \in {saved, [saved EXCEPT ![t] = wuc], [saved EXCEPT ![t] = {}]}
      BY <1>4 DEF AccessPhy, MdicError
    <3>2. wuc \in SUBSET {"enable", "host", "me"} /\ saved \in [Threads -> SUBSET {"enable", "host", "me"}]
      BY <1>1 DEF Typed
    <3> QED
      BY <3>1, <3>2
  <2>10. broken' \in BOOLEAN /\ errors' \in 0..MdicErrors
    <3>1. broken \in BOOLEAN /\ errors \in 0..MdicErrors
      BY <1>1 DEF Typed
    <3>2. CASE AccessPhy(t)
      BY <3>1, <3>2 DEF AccessPhy
    <3>3. CASE MdicError(t)
      <4>1. errors < MdicErrors /\ errors' = errors + 1
        BY <3>3 DEF MdicError
      <4>2. \E b \in BOOLEAN : broken' = (broken \/ b)
        BY <3>3 DEF MdicError
      <4> QED
        BY <3>1, <4>1, <4>2, PhyAssumption
    <3> QED
      BY <1>4, <3>2, <3>3
  <2> QED
    BY <1>1, <2>4, <2>6, <2>7, <2>8, <2>9, <2>10 DEF Typed
<1>5. CASE FwTouch
  BY <1>1, <1>5 DEF FwTouch, Typed
<1>6. CASE UNCHANGED phyVars
  BY <1>1, <1>6 DEF phyVars, Typed
<1> QED
  BY <1>3, <1>4, <1>5, <1>6 DEF PhyNext, Access, Still, vars, phyVars

\* The inductive invariant.
PhyInv ==
  /\ IInv /\ Frame /\ PhyTypeOK /\ OneInv
  /\ forced = {} /\ ~broken => NeedsInv /\ WucInv

LEMMA BrokenStays ==
  ASSUME [PhyNext]_vars, ~broken'
  PROVE  ~broken
BY DEF PhyNext, Access, AimPhy, Arm, Reset, AccessCsr, AccessPhy, MdicError, Begin, WantMask, TakeLock, LockStep, Acquired,
   AcquireFailed, ReleaseLock, Gate, FwTouch, phyVars, vars

\* The firmware touches the PHY while no thread is inside.
LEMMA FirmwareApart ==
  ASSUME PhyInv, forced = {}, ~broken, FwTouch
  PROVE  NeedsInv' /\ WucInv'
<1>1. ASSUME NEW t \in Threads
      PROVE  pc[t] # "in"
  BY <1>1 DEF PhyInv, Frame, Exclusive, Inside, FwInside, FwTouch
<1>2. ASSUME NEW t \in Threads
      PROVE  NeedsNothing(todo[t])
  BY <1>1, <1>2, OutsideNothing DEF PhyInv
<1>3. wuc = owed
  BY <1>2 DEF PhyInv, WucInv, NeedsNothing
<1>4. todo' = todo /\ phyAddr' = phyAddr
  BY DEF FwTouch
<1>5. NeedsInv'
  BY <1>2, <1>4 DEF PhyInv, NeedsInv, Meets, NeedsNothing
<1>6. wuc' = owed'
  BY <1>3 DEF FwTouch
<1> QED
  BY <1>5, <1>6 DEF WucInv

LEMMA ExcludesNext == IInv' => Exclusive'
<1>1. IInv => Exclusive
  BY InvExcludes
<1> QED
  BY <1>1, PTL

LEMMA PhyKept ==
  ASSUME PhyInv, [PhyNext]_vars
  PROVE  PhyInv'
<1>1. IInv' /\ Exclusive'
  BY AccessUsesLocks, InvKept, ExcludesNext DEF PhyInv
<1>2. LockTypeOK /\ LockTypeOK'
  BY <1>1 DEF IInv, PhyInv
<1>3. PhyTypeOK'
  BY <1>2, PhyTypesKept DEF PhyInv, Frame
<1>4. ASSUME NEW t \in Threads, Access(t)
      PROVE  PhyInv'
  <2>1. SetupInv' /\ LeftInv' /\ PcInv' /\ OneInv' /\ Orderly(family, calls)'
    BY <1>2, <1>4, SetupKept, LeftKept, PcKept, OneKept DEF PhyInv, Frame
  <2>2. ASSUME forced' = {}, ~broken'
        PROVE  NeedsInv' /\ WucInv'
    <3>1. forced = {} /\ ~broken
      BY <2>2, AccessUsesLocks, ForcedGrows, BrokenStays
    <3>2. NeedsInv /\ WucInv
      BY <3>1 DEF PhyInv
    <3>3. ASSUME NEW u \in Threads
          PROVE  Meets(u, todo[u])'
      <4>1. CASE u = t
        BY <1>4, <2>2, <3>1, <3>2, <4>1, OwnMet DEF PhyInv
      <4>2. CASE u # t
        BY <1>1, <1>4, <2>2, <3>1, <3>2, <4>2, OthersMet DEF PhyInv
      <4> QED
        BY <4>1, <4>2
    <3>4. WucInv'
      BY <1>4, <2>2, <3>1, <3>2, WucKept DEF PhyInv
    <3> QED
      BY <3>3, <3>4 DEF NeedsInv
  <2> QED
    BY <1>1, <1>2, <1>3, <2>1, <2>2 DEF PhyInv, Frame
<1>5. CASE FwTouch
  <2>1. UNCHANGED <<lockVars, calls, todo, phyAddr, saved, broken>>
    BY <1>5 DEF FwTouch
  <2>2. SetupInv' /\ LeftInv' /\ PcInv' /\ OneInv' /\ Orderly(family, calls)'
    BY <2>1 DEF PhyInv, Frame, SetupInv, LeftInv, LeftBy, PcInv, OneInv, lockVars
  <2>3. forced' = {} /\ ~broken' => NeedsInv' /\ WucInv'
    BY <1>5, <2>1, FirmwareApart DEF lockVars
  <2> QED
    BY <1>1, <1>2, <1>3, <2>2, <2>3 DEF PhyInv, Frame
<1>6. CASE Environment /\ UNCHANGED phyVars
  <2>1. UNCHANGED <<family, pc, mask, forced>>
    BY <1>6 DEF Environment, HwGrant, FwTake, FwMark, FwRelease
  <2> QED
    BY <1>1, <1>2, <1>3, <1>6, <2>1 DEF PhyInv, Frame, SetupInv, LeftInv, LeftBy, PcInv, OneInv, NeedsInv, Meets, WucInv,
       phyVars
<1>7. CASE UNCHANGED vars
  BY <1>1, <1>2, <1>3, <1>7 DEF PhyInv, Frame, SetupInv, LeftInv, LeftBy, PcInv, OneInv, NeedsInv, Meets, WucInv,
     phyVars, lockVars, vars
<1> QED
  BY <1>4, <1>5, <1>6, <1>7 DEF PhyNext

LEMMA FirstTyped ==
  ASSUME PhyInit, LockTypeOK
  PROVE  SetupInv /\ LeftInv /\ OneInv /\ PhyTypeOK
<1>1. SetupInv /\ OneInv
  BY DEF PhyInit, SetupInv, OneInv
<1>2. LeftInv
  BY DEF PhyInit, LeftInv
<1>3. /\ phyAddr = 1 /\ page = [a \in {1, 2} |-> 0] /\ latch = [x \in Ports |-> NoThread]
      /\ wuc = {} /\ owed = {} /\ saved = [t \in Threads |-> {}] /\ broken = FALSE /\ errors = 0
  BY DEF PhyInit
<1>4. errors \in 0..MdicErrors
  BY <1>3, PhyAssumption
<1>5. page \in [{1, 2} -> 0..801]
  BY <1>3
<1> QED
  BY <1>1, <1>2, <1>3, <1>4, <1>5 DEF PhyTypeOK

LEMMA PhyInitKept ==
  ASSUME PhyInit, Orderly(family, calls)
  PROVE  PhyInv
<1>1. IInv /\ Exclusive
  BY InitKept, InvExcludes DEF PhyInit
<1>2. LockTypeOK
  BY <1>1 DEF IInv
<1>3. \A t \in Threads : todo[t] = <<>> /\ pc[t] = "out"
  BY DEF PhyInit, LockInit
<1>4. PcInv
  BY <1>3, NothingLeft DEF PcInv, TakePcs, Starts, Locally
<1>5. SetupInv /\ LeftInv /\ OneInv /\ PhyTypeOK
  BY <1>2, FirstTyped
<1>6. NeedsInv /\ WucInv
  BY <1>3, NothingLeft DEF NeedsInv, Meets, NeedsNothing, WucInv, PhyInit
<1> QED
  BY <1>1, <1>2, <1>4, <1>5, <1>6 DEF PhyInv, Frame

LEMMA InvRight ==
  ASSUME PhyInv
  PROVE  AccessesRight
<1>1. AccessesAimed
  <2>1. SUFFICES ASSUME forced = {}, ~broken, NEW t \in Threads, todo[t] # <<>>
                 PROVE  Aimed(t, Next1(t))
    BY DEF AccessesAimed, At
  <2>2. Meets(t, todo[t])
    BY <2>1 DEF PhyInv, NeedsInv
  <2> QED
    BY <2>1, <2>2, AimedHere DEF PhyInv, Next1
<1>2. WucRestored
  <2>1. SUFFICES ASSUME forced = {}, ~broken, \A t \in Threads : ~Inside(t)
                 PROVE  wuc = owed
    BY DEF WucRestored
  <2>2. ASSUME NEW t \in Threads
        PROVE  ~Closing(todo[t])
    BY <2>1, <2>2, OutsideNothing DEF PhyInv, Inside, NeedsNothing
  <2> QED
    BY <2>1, <2>2 DEF PhyInv, WucInv
<1> QED
  BY <1>1, <1>2 DEF AccessesRight, PhyInv

\* The types of what the threads share and of what they are in the middle of, whatever
\* they call (hw->phy.addr, the selected page, 769.17).
THEOREM AccessesAreTyped == PhySpec => []PhyTypeOK
<1> DEFINE Inv == IInv /\ SetupInv /\ LeftInv /\ PhyTypeOK
<1>1. ASSUME PhyInit
      PROVE  Inv
  <2>1. IInv
    BY <1>1, InitKept DEF PhyInit
  <2> QED
    BY <1>1, <2>1, FirstTyped DEF IInv
<1>2. ASSUME Inv, [PhyNext]_vars
      PROVE  Inv'
  <2>1. IInv'
    BY <1>2, AccessUsesLocks, InvKept
  <2>2. LockTypeOK /\ LockTypeOK'
    BY <1>2, <2>1 DEF IInv
  <2>3. PhyTypeOK'
    BY <1>2, <2>2, PhyTypesKept
  <2>4. CASE \E t \in Threads : Access(t)
    BY <1>2, <2>1, <2>2, <2>3, <2>4, SetupKept, LeftKept
  <2>5. CASE (Environment /\ UNCHANGED phyVars) \/ FwTouch \/ UNCHANGED vars
    <3>1. UNCHANGED <<family, mask, calls, todo, saved>>
      BY <2>5 DEF Environment, HwGrant, FwTake, FwMark, FwRelease, FwTouch, vars, lockVars, phyVars
    <3> QED
      BY <1>2, <2>1, <2>3, <3>1 DEF SetupInv, LeftInv, LeftBy
  <2> QED
    BY <1>2, <2>4, <2>5 DEF PhyNext
<1>3. Inv => PhyTypeOK
  OBVIOUS
<1> QED
  BY <1>1, <1>2, <1>3, PTL DEF PhySpec

\* Threads that do not touch phy.addr outside the lock, or are alone in doing so, or share
\* a PHY that has but one address: in any number, with any interleaving of their accesses,
\* any number of them failing and the firmware at work on the same PHY, each access gets to
\* the address, page, wakeup page and port it means, and the wakeup page is closed behind
\* it (__e1000_read_phy_reg_hv and its kin, e1000_access_phy_wakeup_reg_bm).
THEOREM AccessesStayRight == PhySpec /\ Orderly(family, calls) => []AccessesRight
<1>1. PhyInit /\ Orderly(family, calls) => PhyInv
  BY PhyInitKept
<1>2. PhyInv /\ [PhyNext]_vars => PhyInv'
  BY PhyKept
<1>3. PhyInv => AccessesRight
  BY InvRight
<1> QED
  BY <1>1, <1>2, <1>3, PTL DEF PhySpec
-----------------------------------------------------------------------------
(* The link.  Its invariant has a part for the traces a lost link leaves,  *)
(* one for resets, two for the flow control asked for and negotiated, and  *)
(* one for the serdes state machine.                                       *)

\* What a run looks at: bounds apart, the setup does not change.
LinkTypes == LinkTypeOK /\ setup \in LinkSetup

-----------------------------------------------------------------------------
\* The wire, the driver's steps and the user's only count the bounds down.
LEMMA SetupStays ==
  ASSUME setup \in LinkSetup, [LinkNext]_linkVars
  PROVE  /\ setup' \in LinkSetup
         /\ UNCHANGED <<setup.media, setup.ich, setup.default, setup.modes, setup.partners>>
<1> DEFINE Counts(s) == /\ s \in LinkSetup
                        /\ s.media = setup.media /\ s.ich = setup.ich /\ s.default = setup.default
                        /\ s.modes = setup.modes /\ s.partners = setup.partners
<1>1. ASSUME setup.changes > 0
      PROVE  Counts([setup EXCEPT !.changes = @ - 1])
  BY <1>1 DEF LinkSetup
<1>2. ASSUME setup.sets > 0
      PROVE  Counts([setup EXCEPT !.sets = @ - 1])
  BY <1>2 DEF LinkSetup
<1>3. ASSUME setup.errs > 0
      PROVE  Counts([setup EXCEPT !.errs = @ - 1])
  BY <1>3 DEF LinkSetup
<1>4. ASSUME setup.noises > 0
      PROVE  Counts([setup EXCEPT !.noises = @ - 1])
  BY <1>4 DEF LinkSetup
<1>5. Counts([setup EXCEPT !.noises = @]) /\ Counts(setup)
  BY DEF LinkSetup
<1> HIDE DEF Counts
<1>6. WireDown \/ (\E w \in {"none", "idles", "an"} : WireChange(w)) => Counts(setup')
  BY <1>1 DEF WireDown, WireChange
<1>7. User => Counts(setup')
  BY <1>2 DEF User, SetPause, BringDown, SetupSerdes
<1>8. PhyFails => Counts(setup')
  BY <1>3 DEF PhyFails
<1>9. Noise => Counts(setup')
  BY <1>4, <1>5 DEF Noise
<1>10. (\E p \in setup.partners : WireUp(p)) \/ Negotiated \/ LscInterrupt \/ UserStep
         \/ UNCHANGED linkVars => Counts(setup')
  BY <1>5 DEF WireUp, Negotiated, LscInterrupt, UserStep, ApplyPause, ResetAdapter, AdvertiseAgain,
              ResetDone, linkVars
<1>11. WatchdogStep => Counts(setup')
  BY <1>5 DEF WatchdogStep, CheckCopper, WatchdogStart, ReadBmsr, EarlyWorkarounds, ClearLinkStatus,
              LateWorkarounds, ForceCurrent, ReadAneg, ResolveFc, ApplyFc, Sample, Act, Recheck,
              Return, CarrierOn, CarrierOff, CarrierStays, quiet
<1>12. Counts(setup')
  BY <1>6, <1>7, <1>8, <1>9, <1>10, <1>11 DEF LinkNext, World
<1> QED
  BY <1>12 DEF Counts

\* A mode is advertised with pause bits, and what is resolved is a mode again.
LEMMA ModesTyped ==
  /\ \A m \in Modes : Advertise(m) \in PauseBits
  /\ \A a \in PauseBits, lp \in Partners, m \in Modes : Resolve(a, lp, m) \in Modes
BY DEF Modes, PauseBits, Advertise, Resolve

SerdesStates == [slu : BOOLEAN, ane : BOOLEAN, failed : BOOLEAN, has : BOOLEAN,
                 state : {"down", "progress", "complete", "forced"}]

\* A check of the link leaves the serdes in a state of its own, whatever it received.
LEMMA CheckTyped ==
  ASSUME NEW s \in SerdesStates, NEW r
  PROVE  Check(s, r) \subseteq SerdesStates
<1> USE DEF SerdesStates, Move, ForceLink, UnforceLink
<1>1. InSync(s, r) \in SerdesStates
  <2>1. CASE s.state = "complete"
    BY <2>1 DEF InSync
  <2>2. CASE s.state = "forced"
    BY <2>2 DEF InSync
  <2>3. CASE s.state = "progress"
    BY <2>3 DEF InSync
  <2>4. CASE s.state = "down"
    BY <2>4 DEF InSync
  <2> QED
    BY <2>1, <2>2, <2>3, <2>4
<1>2. Serdes82571(s, r) \subseteq SerdesStates
  BY <1>1 DEF Serdes82571
<1>3. ForceOrNegotiate(s, r) \in SerdesStates
  BY DEF ForceOrNegotiate
<1> QED
  BY <1>2, <1>3 DEF Check

\* So does the second half of a check, and a new start.
LEMMA SerdesTyped ==
  ASSUME NEW s \in SerdesStates, done \in BOOLEAN, noise \in BOOLEAN, serdes \in SerdesStates
  PROVE  /\ HasLink(s, Received) \in SerdesStates
         /\ HasLink(s, Received).ane = s.ane
         /\ \A came \in BOOLEAN : Polled(s, came) \subseteq SerdesStates
<1>1. HasLink(s, Received) \in SerdesStates /\ HasLink(s, Received).ane = s.ane
  <2>1. PICK h \in BOOLEAN : HasLink(s, Received) = [s EXCEPT !.has = h]
    BY DEF HasLink, Received, LinkUp, SerdesStates
  <2> QED
    BY <2>1 DEF SerdesStates
<1>2. ASSUME NEW came \in BOOLEAN
      PROVE  Polled(s, came) \subseteq SerdesStates
  <2> DEFINE fresh == [s EXCEPT !.slu = FALSE, !.ane = TRUE, !.state = "down", !.failed = FALSE]
  <2> DEFINE late == [fresh EXCEPT !.failed = TRUE]
  <2>1. fresh \in SerdesStates /\ late \in SerdesStates
    BY DEF SerdesStates
  <2>2. \A t \in SerdesStates : [t EXCEPT !.failed = FALSE] \in SerdesStates
    BY DEF SerdesStates
  <2> HIDE DEF fresh, late
  <2>3. Polled(s, came) \subseteq
          {fresh} \cup {[t EXCEPT !.failed = FALSE] :
             t \in Check(late, [link |-> FALSE, slu |-> FALSE, c |-> wire = "an",
                                sync |-> wire # "none", iv |-> noise])}
    BY DEF Polled, fresh, late
  <2> QED
    BY <2>1, <2>2, <2>3, CheckTyped
<1> QED
  BY <1>1, <1>2

\* The parts of the types that different steps disturb.
FlagTypes ==
  /\ up \in BOOLEAN /\ noise \in BOOLEAN /\ lsc \in BOOLEAN /\ gls \in BOOLEAN
  /\ active \in BOOLEAN /\ carrier \in BOOLEAN /\ txen \in BOOLEAN

PlaceTypes ==
  /\ wire \in {"none", "idles", "an"}
  /\ wpc \in {"idle", "bmsr", "early", "clear", "late", "force", "aneg", "ability", "apply",
              "sample", "act", "recheck", "return", "carrier"}
  /\ spc \in {"idle", "apply", "reset", "advertise", "watermarks"}

FlowTypes ==
  /\ partner \in Partners /\ watermarks \in BOOLEAN
  /\ requested \in Modes /\ current \in Modes /\ adv \in PauseBits /\ fce \in Modes

SerdesTypes == serdes \in SerdesStates /\ done \in BOOLEAN /\ (done => serdes.ane)

\* LinkTypeOK is these four.
LEMMA TypesSplit ==
  /\ LinkTypeOK <=> FlagTypes /\ PlaceTypes /\ FlowTypes /\ SerdesTypes
  /\ LinkTypeOK' <=> FlagTypes' /\ PlaceTypes' /\ FlowTypes' /\ SerdesTypes'
BY DEF LinkTypeOK, FlagTypes, PlaceTypes, FlowTypes, SerdesTypes, SerdesStates

\* The initial state is typed.
LEMMA InitTyped ==
  LinkInit => LinkTypes
<1> SUFFICES ASSUME LinkInit
             PROVE  LinkTypes
  OBVIOUS
<1>1. setup \in LinkSetup
  BY LinkAssumption DEF LinkInit
<1>2. setup.default \in Modes
  BY <1>1 DEF LinkSetup
<1>3. FlagTypes /\ PlaceTypes
  BY DEF LinkInit, FlagTypes, PlaceTypes
<1>4. partner \in Partners /\ fce \in Modes /\ watermarks \in BOOLEAN
  BY DEF LinkInit, Partners, PauseBits, Modes
<1>5. FlowTypes
  BY <1>2, <1>4, ModesTyped DEF LinkInit, FlowTypes
<1>6. SerdesTypes
  BY DEF LinkInit, SerdesTypes, SerdesStates
<1> QED
  BY <1>1, <1>3, <1>5, <1>6, TypesSplit DEF LinkTypes

\* Every step keeps the types.
LEMMA TypesStay ==
  ASSUME LinkTypes, [LinkNext]_linkVars
  PROVE  LinkTypes'
<1> USE DEF wireVars, flagVars, watchVars, stackVars, modeVars, macVars, ghosts, driver, quiet
<1>1. setup' \in LinkSetup
  BY SetupStays DEF LinkTypes
<1>2. setup.default \in Modes /\ setup.modes \subseteq Modes /\ setup.partners \subseteq Partners
  BY DEF LinkTypes, LinkSetup
<1>3. FlagTypes /\ PlaceTypes /\ FlowTypes /\ SerdesTypes
  BY TypesSplit DEF LinkTypes
<1>4. FlagTypes'
  <2> USE DEF FlagTypes
  <2>1. World => FlagTypes'
    BY <1>3 DEF World, WireUp, WireDown, Noise, WireChange
  <2>2. Negotiated \/ LscInterrupt \/ UNCHANGED linkVars => FlagTypes'
    BY <1>3 DEF Negotiated, LscInterrupt, linkVars
  <2>3. CheckCopper => FlagTypes'
    BY <1>3 DEF CheckCopper, ReadBmsr, EarlyWorkarounds, ClearLinkStatus,
                LateWorkarounds, ForceCurrent, ReadAneg, ResolveFc, ApplyFc
  <2>4. PhyFails \/ WatchdogStart \/ Sample \/ Act \/ Recheck => FlagTypes'
    BY <1>3 DEF PhyFails, WatchdogStart, Sample, Act, Recheck
  <2>5. Return => FlagTypes'
    BY <1>3 DEF Return, LinkUp, SerdesTypes, SerdesStates
  <2>6. CarrierOn \/ CarrierOff \/ CarrierStays => FlagTypes'
    BY <1>3 DEF CarrierOn, CarrierOff, CarrierStays, Enable
  <2>7. User => FlagTypes'
    BY <1>3, <1>2 DEF User, SetPause, BringDown, SetupSerdes
  <2>8. UserStep => FlagTypes'
    BY <1>3, ModesTyped DEF UserStep, ApplyPause, ResetAdapter, AdvertiseAgain, ResetDone, ForceMacFc,
                      SetWatermarks, RestoreMode
  <2> QED
    BY <2>1, <2>2, <2>3, <2>4, <2>5, <2>6, <2>7, <2>8 DEF LinkNext, WatchdogStep
<1>5. PlaceTypes'
  <2> USE DEF PlaceTypes, Leads
  <2>1. World => PlaceTypes'
    BY <1>3 DEF World, WireUp, WireDown, Noise, WireChange
  <2>2. Negotiated \/ LscInterrupt \/ UNCHANGED linkVars => PlaceTypes'
    BY <1>3 DEF Negotiated, LscInterrupt, linkVars
  <2>3. CheckCopper => PlaceTypes'
    BY <1>3 DEF CheckCopper, ReadBmsr, EarlyWorkarounds, ClearLinkStatus,
                LateWorkarounds, ForceCurrent, ReadAneg, ResolveFc, ApplyFc
  <2>4. PhyFails \/ WatchdogStart \/ Sample \/ Act \/ Recheck => PlaceTypes'
    BY <1>3 DEF PhyFails, WatchdogStart, Sample, Act, Recheck
  <2>5. Return => PlaceTypes'
    BY <1>3 DEF Return
  <2>6. CarrierOn \/ CarrierOff \/ CarrierStays => PlaceTypes'
    BY <1>3 DEF CarrierOn, CarrierOff, CarrierStays, Enable
  <2>7. User => PlaceTypes'
    BY <1>3, <1>2 DEF User, SetPause, BringDown, SetupSerdes
  <2>8. UserStep => PlaceTypes'
    BY <1>3, ModesTyped DEF UserStep, ApplyPause, ResetAdapter, AdvertiseAgain, ResetDone, ForceMacFc,
                      SetWatermarks, RestoreMode
  <2> QED
    BY <2>1, <2>2, <2>3, <2>4, <2>5, <2>6, <2>7, <2>8 DEF LinkNext, WatchdogStep
<1>6. FlowTypes'
  <2> USE DEF FlowTypes
  <2>1. World => FlowTypes'
    BY <1>2, <1>3 DEF World, WireUp, WireDown, Noise, WireChange
  <2>2. Negotiated \/ LscInterrupt \/ UNCHANGED linkVars => FlowTypes'
    BY <1>3 DEF Negotiated, LscInterrupt, linkVars
  <2>3. CheckCopper => FlowTypes'
    BY <1>3, ModesTyped DEF CheckCopper, ReadBmsr, EarlyWorkarounds, ClearLinkStatus,
                LateWorkarounds, ForceCurrent, ReadAneg, ResolveFc, ApplyFc, ForceMacFc
  <2>4. PhyFails \/ WatchdogStart \/ Sample \/ Act \/ Recheck => FlowTypes'
    BY <1>3 DEF PhyFails, WatchdogStart, Sample, Act, Recheck
  <2>5. Return => FlowTypes'
    BY <1>3 DEF Return
  <2>6. CarrierOn \/ CarrierOff \/ CarrierStays => FlowTypes'
    BY <1>3 DEF CarrierOn, CarrierOff, CarrierStays, Enable
  <2>7. User => FlowTypes'
    BY <1>3, <1>2 DEF User, SetPause, BringDown, SetupSerdes
  <2>8. UserStep => FlowTypes'
    <3>1. SetWatermarks => watermarks' \in BOOLEAN
      BY DEF SetWatermarks
    <3>2. ApplyPause \/ ResetDone => FlowTypes'
      BY <1>3, <3>1 DEF ApplyPause, ResetDone, ForceMacFc
    <3>3. ResetAdapter \/ AdvertiseAgain => FlowTypes'
      BY <1>3, ModesTyped DEF ResetAdapter, AdvertiseAgain, RestoreMode, Modes
    <3> QED
      BY <3>2, <3>3 DEF UserStep
  <2> QED
    BY <2>1, <2>2, <2>3, <2>4, <2>5, <2>6, <2>7, <2>8 DEF LinkNext, WatchdogStep
<1>7. SerdesTypes'
  <2> USE DEF SerdesTypes
  <2>1. ASSUME Act
        PROVE  SerdesTypes'
    <3>1. serdes' \in SerdesStates
      BY <1>3, <2>1, CheckTyped DEF Act
    <3>2. done' = (done /\ serdes'.ane)
      BY <2>1 DEF Act
    <3> QED
      BY <1>3, <3>1, <3>2 DEF SerdesStates
  <2>2. ASSUME Recheck
        PROVE  SerdesTypes'
    <3>1. serdes' = HasLink(serdes, Received) /\ done' = done
      BY <2>2 DEF Recheck
    <3> QED
      BY <1>3, <3>1, SerdesTyped DEF FlagTypes
  <2>3. ASSUME NEW came \in BOOLEAN, SetupSerdes(came)
        PROVE  SerdesTypes'
    <3>1. serdes' \in Polled(serdes, came) /\ done' = came
      BY <2>3 DEF SetupSerdes
    <3>2. serdes' \in SerdesStates
      BY <1>3, <3>1, SerdesTyped DEF FlagTypes
    <3>3. came => serdes'.ane
      BY <1>3, <3>1 DEF Polled, SerdesStates
    <3> QED
      BY <3>1, <3>2, <3>3
  <2>4. ASSUME Negotiated
        PROVE  SerdesTypes'
    BY <1>3, <2>4 DEF Negotiated
  <2>5. ASSUME UNCHANGED serdes, done' = FALSE \/ UNCHANGED done
        PROVE  SerdesTypes'
    <3>1. CASE done' = FALSE
      BY <1>3, <2>5, <3>1
    <3>2. CASE UNCHANGED done
      BY <1>3, <2>5, <3>2
    <3> QED
      BY <2>5, <3>1, <3>2
  <2>6. World \/ LscInterrupt \/ UNCHANGED linkVars => SerdesTypes'
    <3>1. World => UNCHANGED serdes /\ (done' = FALSE \/ UNCHANGED done)
      BY DEF World, WireUp, WireDown, Noise, WireChange
    <3>2. LscInterrupt \/ UNCHANGED linkVars => UNCHANGED <<serdes, done>>
      BY DEF LscInterrupt, linkVars
    <3> QED
      BY <2>5, <3>1, <3>2
  <2>7. PhyFails \/ UserStep => SerdesTypes'
    BY <2>5 DEF PhyFails, UserStep, ApplyPause, ResetAdapter, AdvertiseAgain, ResetDone
  <2>8. WatchdogStep => SerdesTypes'
    BY <2>1, <2>2, <2>5 DEF WatchdogStep, CheckCopper, WatchdogStart, ReadBmsr, EarlyWorkarounds,
       ClearLinkStatus, LateWorkarounds, ForceCurrent, ReadAneg, ResolveFc, ApplyFc, Sample, Return,
       CarrierOn, CarrierOff, CarrierStays
  <2>9. User => SerdesTypes'
    BY <2>3, <2>5 DEF User, SetPause, BringDown
  <2> QED
    BY <2>4, <2>6, <2>7, <2>8, <2>9 DEF LinkNext
<1> QED
  BY <1>1, <1>4, <1>5, <1>6, <1>7, TypesSplit DEF LinkTypes

\* get_link_status stays up from the start of a look at the PHY until it is cleared, and a
\* change since the status was read has left a trace.
LossInv ==
  /\ wpc \in {"bmsr", "early", "clear"} => gls
  /\ Copper /\ ~up =>
       /\ gls \/ lsc \/ lost \/ Down
       /\ wpc = "clear" \/ (wpc = "early" /\ status.link) => lsc \/ news \/ Down

\* Unless it ran beside the watchdog a reset is alone, with the carrier off.
ResetInv ==
  /\ spc # "idle" => Copper
  /\ spc = "apply" => imposed
  /\ Down /\ ~beside => wpc = "idle" /\ ~carrier
  /\ CarrierTransmits

\* What was asked for, at rest and at each step of a reset.
AskedInv ==
  Copper /\ ~imposed /\ ~beside =>
    /\ spc = "idle" =>
         current \subseteq requested /\ fce \subseteq requested /\ (watermarks <=> "tx" \in requested)
    /\ spc \in {"advertise", "watermarks"} => current = requested /\ fce = {}
    /\ spc \in {"idle", "watermarks"} => adv = Advertise(requested)

\* Unless a change is under way, what is in force from the last look at the PHY on is what was
\* negotiated with the partner there is.
ResolvedInv ==
  /\ wpc \in {"sample", "act", "recheck"} => ~Copper
  /\ Copper /\ up /\ ~lsc /\ ~gls /\ ~erred /\ ~imposed /\ ~Down =>
       /\ wpc = "apply" => current = Resolve(adv, partner, requested)
       /\ wpc \in {"idle", "return", "carrier"} => fce = Resolve(adv, partner, requested)

\* The ghost dirty is what it stands for, and the 82571's machine negotiates where it says so.
SerdesInv ==
  /\ dirty <=> serdes.slu /\ serdes.ane
  /\ setup.media = "serdes82571" /\ serdes.state \in {"progress", "complete"} => serdes.ane

-----------------------------------------------------------------------------
\* A lost copper link stays known.
LEMMA LossStays ==
  ASSUME LinkTypes, LossInv, [LinkNext]_linkVars
  PROVE  LossInv'
<1> USE DEF wireVars, flagVars, watchVars, stackVars, modeVars, macVars, ghosts, driver, quiet, Leads,
            LossInv, Down
<1>1. Copper' = Copper
  BY SetupStays DEF Copper, LinkTypes
<1>2. World => LossInv'
  BY <1>1 DEF World, WireUp, WireDown, Noise, WireChange
<1>3. Negotiated \/ LscInterrupt \/ UNCHANGED linkVars => LossInv'
  BY <1>1 DEF Negotiated, LscInterrupt, linkVars
<1>4. WatchdogStart => LossInv'
  BY <1>1 DEF WatchdogStart
<1>5. ReadBmsr => LossInv'
  BY <1>1 DEF ReadBmsr
<1>6. EarlyWorkarounds => LossInv'
  BY <1>1 DEF EarlyWorkarounds
<1>7. ClearLinkStatus => LossInv'
  BY <1>1 DEF ClearLinkStatus
<1>8. LateWorkarounds \/ ForceCurrent \/ ReadAneg \/ ResolveFc \/ ApplyFc => LossInv'
  BY <1>1 DEF LateWorkarounds, ForceCurrent, ReadAneg, ResolveFc, ApplyFc
<1>9. PhyFails \/ Sample \/ Act \/ Recheck => LossInv'
  BY <1>1 DEF PhyFails, Sample, Act, Recheck
<1>10. Return \/ CarrierOn \/ CarrierOff \/ CarrierStays => LossInv'
  BY <1>1 DEF Return, CarrierOn, CarrierOff, CarrierStays
<1>11. User => LossInv'
  BY <1>1 DEF User, SetPause, BringDown, SetupSerdes
<1>12. UserStep => LossInv'
  BY <1>1 DEF UserStep, ApplyPause, ResetAdapter, AdvertiseAgain, ResetDone
<1> QED
  BY <1>2, <1>3, <1>4, <1>5, <1>6, <1>7, <1>8, <1>9, <1>10, <1>11, <1>12
     DEF LinkNext, WatchdogStep, CheckCopper

\* A reset stays alone.
LEMMA ResetStays ==
  ASSUME LinkTypes, ResetInv, [LinkNext]_linkVars
  PROVE  ResetInv'
<1> USE DEF wireVars, flagVars, watchVars, stackVars, modeVars, macVars, ghosts, driver, quiet, Leads,
            ResetInv, Down, CarrierTransmits
<1>1. Copper' = Copper
  BY SetupStays DEF Copper, LinkTypes
<1>2. ASSUME UNCHANGED <<wpc, carrier, txen, spc, imposed, beside>>
      PROVE  ResetInv'
  BY <1>1, <1>2
<1>3. World \/ Negotiated \/ LscInterrupt \/ UNCHANGED linkVars => ResetInv'
  BY <1>2 DEF World, WireUp, WireDown, Noise, WireChange, Negotiated, LscInterrupt, linkVars
<1>4. CheckCopper => ResetInv'
  BY <1>1 DEF CheckCopper, ReadBmsr, EarlyWorkarounds, ClearLinkStatus, LateWorkarounds, ForceCurrent,
              ReadAneg, ResolveFc, ApplyFc
<1>5. PhyFails \/ WatchdogStart \/ Sample \/ Act \/ Recheck \/ Return => ResetInv'
  BY <1>1 DEF PhyFails, WatchdogStart, Sample, Act, Recheck, Return
<1>6. CarrierOn \/ CarrierOff \/ CarrierStays => ResetInv'
  BY <1>1 DEF CarrierOn, CarrierOff, CarrierStays, Enable
<1>7. ASSUME NEW m, SetPause(m)
      PROVE  ResetInv'
  BY <1>1, <1>7 DEF SetPause
<1>9. ASSUME NEW m, BringDown(m)
      PROVE  ResetInv'
  BY <1>1, <1>9 DEF BringDown
<1>10. ASSUME NEW came, SetupSerdes(came)
       PROVE  ResetInv'
  BY <1>1, <1>10 DEF SetupSerdes
<1>11. User => ResetInv'
  BY <1>7, <1>9, <1>10 DEF User
<1>8. UserStep => ResetInv'
  BY <1>1 DEF UserStep, ApplyPause, ResetAdapter, AdvertiseAgain, ResetDone
<1> QED
  BY <1>3, <1>4, <1>5, <1>6, <1>8, <1>11 DEF LinkNext, WatchdogStep

\* What is resolved of what was asked for is part of it.
LEMMA ResolvedWithin ==
  ASSUME NEW m \in Modes, NEW lp \in Partners
  PROVE  Resolve(Advertise(m), lp, m) \subseteq m
BY DEF Modes, Partners, PauseBits, Advertise, Resolve

\* What was asked for stays in force and advertised.
LEMMA AskedStays ==
  ASSUME LinkTypes, ResetInv, AskedInv, [LinkNext]_linkVars
  PROVE  AskedInv'
<1> USE DEF wireVars, flagVars, watchVars, stackVars, modeVars, macVars, ghosts, driver, quiet, Leads,
            AskedInv, Down
<1>1. Copper' = Copper
  BY SetupStays DEF Copper, LinkTypes
<1>2. FlowTypes /\ setup.default \in Modes
  BY TypesSplit DEF LinkTypes, LinkSetup
<1>3. ASSUME UNCHANGED <<modeVars, macVars, spc, imposed, beside>>
      PROVE  AskedInv'
  BY <1>1, <1>3
<1>4. World \/ Negotiated \/ LscInterrupt \/ UNCHANGED linkVars => AskedInv'
  BY <1>3 DEF World, WireUp, WireDown, Noise, WireChange, Negotiated, LscInterrupt, linkVars
<1>5. ReadBmsr \/ EarlyWorkarounds \/ ClearLinkStatus \/ LateWorkarounds \/ ReadAneg => AskedInv'
  BY <1>3 DEF ReadBmsr, EarlyWorkarounds, ClearLinkStatus, LateWorkarounds, ReadAneg
<1>6. PhyFails \/ WatchdogStart \/ Sample \/ Act \/ Recheck \/ Return => AskedInv'
  BY <1>3 DEF PhyFails, WatchdogStart, Sample, Act, Recheck, Return
<1>7. CarrierOn \/ CarrierOff \/ CarrierStays => AskedInv'
  BY <1>3 DEF CarrierOn, CarrierOff, CarrierStays
<1>8. ForceCurrent \/ ApplyFc => AskedInv'
  BY <1>1 DEF ForceCurrent, ApplyFc, ForceMacFc, ResetInv
<1>9. ResolveFc => AskedInv'
  BY <1>1, <1>2, ResolvedWithin DEF ResolveFc, ResetInv, FlowTypes
<1>10. User => AskedInv'
  <2>1. ASSUME NEW m, SetPause(m)
        PROVE  AskedInv'
    BY <1>1, <2>1 DEF SetPause
  <2>2. ASSUME NEW m, BringDown(m)
        PROVE  AskedInv'
    BY <1>1, <2>2 DEF BringDown
  <2>3. ASSUME NEW came, SetupSerdes(came)
        PROVE  AskedInv'
    BY <1>1, <2>3 DEF SetupSerdes
  <2> QED
    BY <2>1, <2>2, <2>3 DEF User
<1>11. ApplyPause => AskedInv'
  BY <1>1 DEF ApplyPause, ResetInv
<1>12. ResetAdapter \/ AdvertiseAgain => AskedInv'
  BY <1>1 DEF ResetAdapter, AdvertiseAgain, RestoreMode
<1>13. ResetDone => AskedInv'
  <2>1. SetWatermarks => (watermarks' <=> "tx" \in current)
    BY DEF SetWatermarks
  <2> QED
    BY <1>1, <1>2, <2>1 DEF ResetDone
<1> QED
  BY <1>4, <1>5, <1>6, <1>7, <1>8, <1>9, <1>10, <1>11, <1>12, <1>13
     DEF LinkNext, WatchdogStep, CheckCopper, UserStep

\* What was negotiated stays in force.
LEMMA ResolvedStays ==
  ASSUME LinkTypes, LossInv, ResetInv, ResolvedInv, [LinkNext]_linkVars
  PROVE  ResolvedInv'
<1> USE DEF wireVars, flagVars, watchVars, stackVars, modeVars, macVars, ghosts, driver, quiet, Leads,
            ResolvedInv, Down
<1>1. Copper' = Copper
  BY SetupStays DEF Copper, LinkTypes
<1>2. ASSUME UNCHANGED <<wireVars, flagVars, wpc, modeVars, fce, spc, erred, imposed>>
      PROVE  ResolvedInv'
  BY <1>1, <1>2
<1>3. ASSUME UNCHANGED <<flagVars, modeVars, fce, spc, erred, imposed>>, UNCHANGED <<up, partner>>,
             wpc' = wpc
      PROVE  ResolvedInv'
  BY <1>1, <1>3
<1>4. World \/ Negotiated => ResolvedInv'
  BY <1>1, <1>3 DEF World, WireUp, WireDown, Noise, WireChange, Negotiated
<1>19. LscInterrupt \/ UNCHANGED linkVars => ResolvedInv'
  BY <1>1, <1>2 DEF LscInterrupt, linkVars
<1>5. WatchdogStart => ResolvedInv'
  BY <1>1 DEF WatchdogStart
<1>6. ReadBmsr \/ EarlyWorkarounds => ResolvedInv'
  BY <1>1 DEF ReadBmsr, EarlyWorkarounds, LossInv
<1>7. ClearLinkStatus \/ LateWorkarounds \/ ForceCurrent => ResolvedInv'
  BY <1>1 DEF ClearLinkStatus, LateWorkarounds, ForceCurrent
<1>8. ReadAneg => ResolvedInv'
  BY <1>1 DEF ReadAneg
<1>9. ResolveFc => ResolvedInv'
  BY <1>1 DEF ResolveFc
<1>10. ApplyFc => ResolvedInv'
  BY <1>1 DEF ApplyFc, ForceMacFc
<1>11. PhyFails => ResolvedInv'
  <2>1. PhyFails => (erred' <=> wpc \in {"late", "aneg", "ability"})
    BY DEF PhyFails
  <2> QED
    BY <1>1, <2>1 DEF PhyFails, LossInv
<1>12. Sample \/ Act \/ Recheck => ResolvedInv'
  BY <1>1 DEF Sample, Act, Recheck
<1>13. Return \/ CarrierOn \/ CarrierOff \/ CarrierStays => ResolvedInv'
  BY <1>1 DEF Return, CarrierOn, CarrierOff, CarrierStays
<1>14. User => ResolvedInv'
  <2>1. ASSUME NEW m, SetPause(m)
        PROVE  ResolvedInv'
    BY <1>1, <2>1 DEF SetPause
  <2>2. ASSUME NEW m, BringDown(m)
        PROVE  ResolvedInv'
    BY <1>1, <2>2 DEF BringDown
  <2>3. ASSUME NEW came, SetupSerdes(came)
        PROVE  ResolvedInv'
    BY <1>1, <2>3 DEF SetupSerdes
  <2> QED
    BY <2>1, <2>2, <2>3 DEF User
<1>15. ApplyPause => ResolvedInv'
  BY <1>1 DEF ApplyPause, ResetInv
<1>16. ResetAdapter => ResolvedInv'
  BY <1>1 DEF ResetAdapter
<1>17. AdvertiseAgain => ResolvedInv'
  BY <1>1 DEF AdvertiseAgain
<1>18. ResetDone => ResolvedInv'
  BY <1>1 DEF ResetDone
<1> QED
  BY <1>4, <1>5, <1>6, <1>7, <1>8, <1>9, <1>10, <1>11, <1>12, <1>13, <1>14, <1>15, <1>16, <1>17,
     <1>18, <1>19 DEF LinkNext, WatchdogStep, CheckCopper, UserStep

\* With a clean signal the 82571's machine negotiates wherever it says so.
LEMMA InSyncNegotiates ==
  ASSUME NEW s \in SerdesStates, NEW r,
         s.state \in {"progress", "complete"} => s.ane
  PROVE  InSync(s, r).state \in {"progress", "complete"} => InSync(s, r).ane
<1> USE DEF SerdesStates, Move, ForceLink, UnforceLink, InSync
<1>1. CASE s.state = "complete"
  BY <1>1
<1>2. CASE s.state = "forced"
  BY <1>2
<1>3. CASE s.state = "progress"
  BY <1>3
<1>4. CASE s.state = "down"
  BY <1>4
<1> QED
  BY <1>1, <1>2, <1>3, <1>4

\* And so it does whatever it receives.
LEMMA CheckNegotiates ==
  ASSUME NEW s \in SerdesStates, NEW r, setup.media = "serdes82571",
         s.state \in {"progress", "complete"} => s.ane
  PROVE  \A t \in Check(s, r) : t.state \in {"progress", "complete"} => t.ane
<1>1. \A t \in {Move(s, "down", FALSE), Move([s EXCEPT !.ane = TRUE], "progress", FALSE)} :
        t.state \in {"progress", "complete"} => t.ane
  BY DEF Move, SerdesStates
<1> QED
  BY <1>1, InSyncNegotiates DEF Check, Serdes82571

\* A check, and a new start, never leave a forced link with the adapter negotiating, unless
\* invalid codes do so in the 82571's machine.
LEMMA StartIsClean ==
  ASSUME NEW s \in SerdesStates, NEW came \in BOOLEAN, NEW t \in Polled(s, came), LinkTypes
  PROVE  /\ ~(t.slu /\ t.ane)
         /\ setup.media = "serdes82571" /\ t.state \in {"progress", "complete"} => t.ane
<1> DEFINE fresh == [s EXCEPT !.slu = FALSE, !.ane = TRUE, !.state = "down", !.failed = FALSE]
           late == [fresh EXCEPT !.failed = TRUE]
           r == [link |-> FALSE, slu |-> FALSE, c |-> wire = "an", sync |-> wire # "none", iv |-> noise]
<1>1. fresh \in SerdesStates /\ ~fresh.slu /\ fresh.ane /\ fresh.state = "down"
  BY DEF SerdesStates
<1>2. late \in SerdesStates /\ ~late.slu /\ late.ane /\ late.state = "down"
  BY <1>1 DEF SerdesStates
<1>3. CASE t = fresh
  BY <1>1, <1>3
<1> HIDE DEF fresh, late, r
<1>4. ASSUME NEW u \in Check(late, r)
      PROVE  /\ u \in SerdesStates /\ ~(u.slu /\ u.ane)
             /\ setup.media = "serdes82571" /\ u.state \in {"progress", "complete"} => u.ane
  <2>1. u \in SerdesStates
    BY <1>2, <1>4, CheckTyped
  <2>2. CASE setup.media = "serdes82571"
    <3>1. InSync(late, r) = Move(UnforceLink(late), "progress", FALSE)
      BY <1>2 DEF InSync
    <3>2. u \in {Move(late, "down", FALSE), Move(UnforceLink(late), "progress", FALSE),
                 Move([late EXCEPT !.ane = TRUE], "progress", FALSE)}
      BY <1>4, <2>2, <3>1 DEF Check, Serdes82571
    <3> QED
      BY <1>2, <2>1, <3>2 DEF Move, UnforceLink, SerdesStates
  <2>3. CASE setup.media # "serdes82571"
    <3>1. u = ForceOrNegotiate(late, r) /\ ~r.slu
      BY <1>4, <2>3 DEF Check, r
    <3>2. u \in {ForceLink(late), [late EXCEPT !.failed = TRUE], late}
      BY <3>1 DEF ForceOrNegotiate
    <3> QED
      BY <1>2, <2>1, <2>3, <3>2 DEF ForceLink, SerdesStates
  <2> QED
    BY <2>2, <2>3
<1>5. t = fresh \/ \E u \in Check(late, r) : t = [u EXCEPT !.failed = FALSE]
  BY DEF Polled, fresh, late, r
<1>6. ASSUME NEW u \in Check(late, r), t = [u EXCEPT !.failed = FALSE]
      PROVE  t.slu = u.slu /\ t.ane = u.ane /\ t.state = u.state
  BY <1>4, <1>6 DEF SerdesStates
<1> QED
  BY <1>3, <1>4, <1>5, <1>6

\* The ghost stays true, and the machine negotiates where it says so.
LEMMA SerdesStays ==
  ASSUME LinkTypes, SerdesInv, [LinkNext]_linkVars
  PROVE  SerdesInv'
<1> USE DEF wireVars, flagVars, watchVars, stackVars, modeVars, macVars, ghosts, driver, quiet
<1>1. setup.media' = setup.media /\ SerdesTypes /\ FlagTypes
  BY SetupStays, TypesSplit DEF LinkTypes
<1>2. ASSUME UNCHANGED <<serdes, dirty>>
      PROVE  SerdesInv'
  BY <1>1, <1>2 DEF SerdesInv
<1>3. World \/ Negotiated \/ LscInterrupt \/ UNCHANGED linkVars => SerdesInv'
  BY <1>2 DEF World, WireUp, WireDown, Noise, WireChange, Negotiated, LscInterrupt, linkVars
<1>4. CheckCopper \/ WatchdogStart \/ Sample \/ Return => SerdesInv'
  BY <1>2 DEF CheckCopper, ReadBmsr, EarlyWorkarounds, ClearLinkStatus, LateWorkarounds,
              ForceCurrent, ReadAneg, ResolveFc, ApplyFc, WatchdogStart, Sample, Return
<1>5. PhyFails \/ CarrierOn \/ CarrierOff \/ CarrierStays \/ UserStep => SerdesInv'
  BY <1>2 DEF PhyFails, CarrierOn, CarrierOff, CarrierStays, UserStep, ApplyPause, ResetAdapter,
              AdvertiseAgain, ResetDone
<1>6. ASSUME Act
      PROVE  SerdesInv'
  <2>1. serdes' \in Check(serdes, status) /\ (dirty' <=> serdes'.slu /\ serdes'.ane)
    BY <1>6 DEF Act
  <2>2. setup.media = "serdes82571" /\ serdes'.state \in {"progress", "complete"} => serdes'.ane
    BY <1>1, <2>1, CheckNegotiates DEF SerdesInv, SerdesTypes
  <2> QED
    BY <1>1, <2>1, <2>2 DEF SerdesInv
<1>7. ASSUME Recheck
      PROVE  SerdesInv'
  <2>1. serdes' = HasLink(serdes, Received) /\ dirty' = dirty
    BY <1>7 DEF Recheck
  <2>2. \E h : serdes' = [serdes EXCEPT !.has = h]
    BY <2>1 DEF HasLink
  <2>3. serdes'.slu = serdes.slu /\ serdes'.ane = serdes.ane /\ serdes'.state = serdes.state
    BY <1>1, <2>2 DEF SerdesTypes, SerdesStates
  <2> QED
    BY <1>1, <2>1, <2>3 DEF SerdesInv
<1>8. ASSUME NEW came \in BOOLEAN, SetupSerdes(came)
      PROVE  SerdesInv'
  <2>1. serdes' \in Polled(serdes, came) /\ dirty' = FALSE
    BY <1>8 DEF SetupSerdes
  <2> QED
    BY <1>1, <2>1, StartIsClean DEF SerdesInv, SerdesTypes
<1>9. User => SerdesInv'
  BY <1>2, <1>8 DEF User, SetPause, BringDown
<1> QED
  BY <1>3, <1>4, <1>5, <1>6, <1>7, <1>9 DEF LinkNext, WatchdogStep

-----------------------------------------------------------------------------
LinkInv == LinkTypes /\ LossInv /\ ResetInv /\ AskedInv /\ ResolvedInv /\ SerdesInv

\* The invariant of the link: types, traces of a change, and what is in force.
THEOREM LinkInductive ==
  LinkSpec => []LinkInv
<1>1. LinkInit => LinkInv
  <2> SUFFICES ASSUME LinkInit
               PROVE  LinkInv
    OBVIOUS
  <2>1. LinkTypes
    BY InitTyped
  <2>2. LossInv /\ ResetInv /\ ResolvedInv /\ SerdesInv
    BY DEF LinkInit, LossInv, ResetInv, CarrierTransmits, ResolvedInv, SerdesInv, Down
  <2>3. watermarks <=> "tx" \in requested
    BY DEF LinkInit
  <2>4. AskedInv
    BY <2>3 DEF LinkInit, AskedInv
  <2> QED
    BY <2>1, <2>2, <2>4 DEF LinkInv
<1>2. LinkInv /\ [LinkNext]_linkVars => LinkInv'
  BY TypesStay, LossStays, ResetStays, AskedStays, ResolvedStays, SerdesStays DEF LinkInv
<1> QED
  BY <1>1, <1>2, PTL DEF LinkSpec

\* Two ends that resolve by the same rule agree on who may send pause frames.
LEMMA EndsAgree ==
  ASSUME NEW a \in PauseBits, NEW lp \in Partners, NEW wanted \in Modes
  PROVE  LET theirs == IF lp.full
                       THEN Resolve(lp.pause, [pause |-> a, full |-> TRUE],
                                    IF "pause" \in lp.pause THEN {"rx", "tx"} ELSE {"tx"})
                       ELSE {}
         IN  /\ "tx" \in Resolve(a, lp, wanted) => "rx" \in theirs
             /\ "tx" \in theirs /\ "tx" \in wanted => "rx" \in Resolve(a, lp, wanted)
<1> DEFINE them == [pause |-> a, full |-> TRUE]
           mine == Resolve(a, lp, wanted)
           theirs == Resolve(lp.pause, them, IF "pause" \in lp.pause THEN {"rx", "tx"} ELSE {"tx"})
<1>1. CASE lp.full = FALSE
  <2>1. mine = {}
    <3>1. ~lp.full
      BY <1>1
    <3> QED
      BY <3>1 DEF Resolve
  <2> QED
    BY <1>1, <2>1
<1>2. CASE lp.full = TRUE
  <2>1. CASE "pause" \in a /\ "pause" \in lp.pause
    <3>1. theirs = {"rx", "tx"}
      BY <2>1 DEF Resolve
    <3>2. mine = IF wanted = {"rx", "tx"} THEN wanted ELSE {"rx"}
      BY <1>2, <2>1 DEF Resolve
    <3> HIDE DEF theirs, mine
    <3>3. "rx" \in mine /\ "rx" \in theirs
      BY <3>1, <3>2
    <3> QED
      BY <1>2, <3>3 DEF theirs, mine
  <2>2. CASE a = {"asm"} /\ lp.pause = {"pause", "asm"}
    <3>1. "pause" \in lp.pause /\ "pause" \notin a /\ lp.pause # {"asm"} /\ a # {"pause", "asm"}
      BY <2>2
    <3>2. theirs = {"rx"}
      BY <2>2, <3>1 DEF Resolve
    <3> HIDE DEF theirs, mine
    <3> QED
      BY <1>2, <3>2 DEF theirs, mine
  <2>3. CASE a = {"pause", "asm"} /\ lp.pause = {"asm"}
    <3>1. "pause" \notin lp.pause /\ lp.pause # {"pause", "asm"} /\ a # {"asm"}
      BY <2>3
    <3>2. mine = {"rx"}
      BY <1>2, <2>3, <3>1 DEF Resolve
    <3> HIDE DEF theirs, mine
    <3> QED
      BY <1>2, <3>2 DEF theirs, mine
  <2>4. CASE ~("pause" \in a /\ "pause" \in lp.pause) /\ ~(a = {"asm"} /\ lp.pause = {"pause", "asm"})
             /\ ~(a = {"pause", "asm"} /\ lp.pause = {"asm"})
    <3>1. mine = {} /\ theirs = {}
      BY <2>4 DEF Resolve
    <3> HIDE DEF theirs, mine
    <3> QED
      BY <1>2, <3>1 DEF theirs, mine
  <2> QED
    BY <2>1, <2>2, <2>3, <2>4
<1> QED
  BY <1>1, <1>2 DEF Partners

\* Flow control in force is what was asked for and negotiated (mac.c:1063-1103), whatever partners
\* come and go and whatever resets and settings run beside the watchdog.
THEOREM FlowControlStaysRight ==
  LinkSpec => []FlowControlRight
<1>1. LinkInv => FlowControlRight
  <2> SUFFICES ASSUME LinkInv
               PROVE  FlowControlRight
    OBVIOUS
  <2>1. FlowTypes
    BY TypesSplit DEF LinkInv, LinkTypes
  <2>2. FcAsAsked /\ WatermarksSet /\ AdvertisedAsAsked
    BY DEF LinkInv, AskedInv, FcAsAsked, WatermarksSet, AdvertisedAsAsked
  <2>3. Copper /\ Settled /\ up /\ ~erred /\ ~imposed => fce = Resolve(adv, partner, requested)
    BY DEF LinkInv, ResolvedInv, Settled, Down
  <2>4. PauseAgrees
    BY <2>1, <2>3, EndsAgree DEF PauseAgrees, FlowTypes
  <2> QED
    BY <2>2, <2>4 DEF FlowControlRight
<1> QED
  BY <1>1, LinkInductive, PTL

\* What the driver believes of the link is not wrong without a sign of it under way: a loss is
\* known, a carrier transmits (netdev.c:5898-5903), a complete link is negotiated (82571.c:1500).
THEOREM LinkStaysKnown ==
  LinkSpec => []LinkKnown
<1>1. LinkInv => LinkKnown
  <2> SUFFICES ASSUME LinkInv
               PROVE  LinkKnown
    OBVIOUS
  <2>1. LinkTypeOK
    BY DEF LinkInv, LinkTypes
  <2>2. LinkLossKnown /\ CarrierTransmits
    BY DEF LinkInv, LossInv, ResetInv, LinkLossKnown
  <2>3. CompleteIsNegotiated
    BY DEF LinkInv, SerdesInv, CompleteIsNegotiated
  <2> QED
    BY <2>1, <2>2, <2>3 DEF LinkKnown
<1> QED
  BY <1>1, LinkInductive, PTL
=============================================================================
