----------------------------- MODULE TaskProofs -----------------------------
(***************************************************************************)
(* Proofs about module Task, for every number of pids, and about module    *)
(* Mail, for every capacity of the boxes and of packets.                   *)
(***************************************************************************)
EXTENDS Mail, SeqLemmas, FiniteSetTheorems

USE ZenonT(10), SMTT(30)

(* Children vectors are sequences of pids without repetition.              *)
LEMMA ChildrenTyped ==
  ASSUME TypeOK, ProcessTree
  PROVE  /\ DOMAIN children = Pid
         /\ \A q \in Pid : children[q] \in Seq(Pid) /\ IsInjective(children[q])
  BY DEF TypeOK, ProcessTree

(* Pids are numbers, and None is not one of them.                          *)
LEMMA PidFacts == INITPROC \in Pid /\ Pid \subseteq Nat /\ None \notin Pid
  BY MaxPidAssumption DEF Pid, INITPROC, None

(* What system calls return is well typed.                                 *)
Result == Pid \cup {-1, -2}
ResultsTyped == a0 \in Result /\ result \in Result

LEMMA AnswersTyped ==
  ASSUME TypeOK, NEW p \in Pid, NEW r \in Result, answers(p, r) \/ no_answer
  PROVE  ResultsTyped'
  BY PidFacts DEF TypeOK, answers, no_answer, Result, ResultsTyped, INITPROC

LEMMA InitIInv == Init => IInv
<1> SUFFICES ASSUME Init PROVE IInv
  OBVIOUS
<1> USE DEF Init
<1>1. \A S : <<>> \in Seq(S)
  BY EmptySeqFacts
<1>2. /\ Range(<<>>) = {} /\ IsInjective(<<>>)
      /\ Range(<<INITPROC>>) = {INITPROC} /\ IsInjective(<<INITPROC>>)
      /\ <<INITPROC>> \in Seq(Pid)
  BY PidFacts DEF Range, IsInjective
<1>3. TypeOK
  BY <1>1, <1>2, PidFacts, MaxPidAssumption, SMTT(30) DEF TypeOK, Pid, INITPROC, None
<1>4. ScheduledOnce
  BY <1>2, PidFacts DEF ScheduledOnce
<1>5. ProcessTree
  BY <1>2, PidFacts DEF ProcessTree, Owns, Live
<1>6. PidsAccounted
  BY <1>2, PidFacts, SMTT(30) DEF PidsAccounted, Live, INITPROC
<1> QED BY <1>3, <1>4, <1>5, <1>6, PidFacts
        DEF IInv, InitprocAlive, LeakedExited

(* Giving up the processor: the task goes from current to the back of the  *)
(* queue, so the scheduler still holds it exactly once.                    *)
LEMMA SuspendIInv ==
  ASSUME IInv, NEW p \in Pid, suspend_current_and_run_next(p),
         ResultsTyped'
  PROVE  IInv'
<1> USE DEF IInv, suspend_current_and_run_next
<1>1. task_status[p] = "Running" /\ p # None
  BY PidFacts DEF ScheduledOnce
<1>2. p \notin Range(ready_queue)
  BY <1>1 DEF ScheduledOnce
<1>3. /\ ready_queue' \in Seq(Pid)
      /\ Range(ready_queue') = Range(ready_queue) \cup {p}
      /\ IsInjective(ready_queue')
  BY <1>2, AppendRange, SMTT(30) DEF TypeOK, ScheduledOnce
<1>4. TypeOK'
  BY <1>3 DEF TypeOK, ResultsTyped, Result
<1>5. ScheduledOnce'
  BY <1>1, <1>3, SMTT(30) DEF ScheduledOnce, TypeOK
<1>6. Live' = Live
  BY <1>1 DEF Live, TypeOK
<1>7. ProcessTree'
  BY <1>1, <1>6, SMTT(30) DEF ProcessTree, Owns, TypeOK
<1>8. PidsAccounted'
  BY <1>6 DEF PidsAccounted
<1>9. InitprocAlive' /\ LeakedExited'
  BY <1>1, SMTT(30) DEF InitprocAlive, LeakedExited, TypeOK
<1> QED BY <1>4, <1>5, <1>7, <1>8, <1>9

(* Dispatching: the head of the queue becomes the running task.            *)
LEMMA RunIInv == ASSUME IInv, run_tasks PROVE IInv'
<1> USE DEF IInv, run_tasks
<1> DEFINE h == Head(ready_queue)
<1>1. /\ h \in Pid /\ h \in Range(ready_queue)
      /\ ready_queue' \in Seq(Pid)
      /\ Range(ready_queue') = Range(ready_queue) \ {h}
      /\ IsInjective(ready_queue')
  BY TailRange DEF TypeOK, ScheduledOnce
<1> HIDE DEF h
<1>2. task_status[h] = "Ready"
  BY <1>1 DEF ScheduledOnce
<1>3. current' = h /\ task_status' = [task_status EXCEPT ![h] = "Running"]
  BY DEF h
<1>4. TypeOK'
  <2>1. task_status' \in [Pid -> {"Ready", "Running", "Zombie", "Dropped"}]
    BY <1>1, <1>3 DEF TypeOK
  <2>2. ResultsTyped'
    BY AnswersTyped, PidFacts DEF Result
  <2> QED BY <1>1, <1>3, <2>1, <2>2, Zenon DEF TypeOK, ResultsTyped, Result
<1>5. ScheduledOnce'
  BY <1>1, <1>2, <1>3, PidFacts, SMTT(30) DEF ScheduledOnce, TypeOK
<1>6. Live' = Live
  BY <1>1, <1>2, <1>3 DEF Live, TypeOK
<1>7. ProcessTree'
  BY <1>1, <1>2, <1>3, <1>6, SMTT(30) DEF ProcessTree, Owns, TypeOK
<1>8. PidsAccounted'
  BY <1>6 DEF PidsAccounted
<1>9. InitprocAlive' /\ LeakedExited'
  BY <1>1, <1>2, <1>3, SMTT(30) DEF InitprocAlive, LeakedExited, TypeOK
<1> QED BY <1>4, <1>5, <1>7, <1>8, <1>9

(* Exit: the exiting task is still held by its parent's vector, so it is   *)
(* kept as a zombie; its children move to initproc's vector, which shares  *)
(* none of them.                                                           *)
LEMMA ExitIInv ==
  ASSUME IInv, NEW p \in Pid \ {INITPROC}, NEW abandoned \in SUBSET {p},
         exit_current_and_run_next(p, abandoned)
  PROVE  IInv' /\ task_status' = [task_status EXCEPT ![p] = "Zombie"]
<1> DEFINE kids == reparented(p)
           leak == leaked \cup abandoned
<1> USE DEF IInv
<1>1. task_status[p] = "Running" /\ p # None /\ current = p
  BY PidFacts DEF ScheduledOnce, exit_current_and_run_next
<1>2. /\ \A q \in Pid : children[q] \in Seq(Pid) /\ IsInjective(children[q])
      /\ Range(children[INITPROC]) \cap Range(children[p]) = {}
  <2>1. \A q \in Pid : children[q] \in Seq(Pid)
    BY DEF TypeOK
  <2>2. \A q \in Pid : Range(children[q]) \subseteq Pid
    BY <2>1, SeqFacts, SMTT(30) DEF Range
  <2>3. \A q \in Pid : IsInjective(children[q])
    BY DEF ProcessTree
  <2>4. ASSUME NEW c \in Range(children[INITPROC]) \cap Range(children[p])
        PROVE  FALSE
    <3>1. c \in Pid
      BY <2>2, PidFacts
    <3>2. parent[c] = INITPROC
      BY <3>1, PidFacts DEF ProcessTree, Owns
    <3>3. parent[c] = p
      BY <3>1 DEF ProcessTree, Owns
    <3> QED BY <3>2, <3>3
  <2> QED BY <2>1, <2>3, <2>4
<1>3. /\ kids \in [Pid -> Seq(Pid)]
      /\ kids[p] = <<>>
      /\ kids[INITPROC] = children[INITPROC] \o children[p]
      /\ \A q \in Pid \ {p, INITPROC} : kids[q] = children[q]
  BY <1>2, PidFacts, ConcatRange, EmptySeqFacts, Zenon DEF reparented
<1> HIDE DEF kids
<1>4. /\ Range(kids[p]) = {} /\ IsInjective(kids[p])
      /\ Range(kids[INITPROC]) =
           Range(children[INITPROC]) \cup Range(children[p])
      /\ IsInjective(kids[INITPROC])
  <2>1. Range(<<>>) = {} /\ IsInjective(<<>>)
    BY DEF Range, IsInjective
  <2> QED BY <1>2, <1>3, <2>1, PidFacts, ConcatRange, SMTT(30)
<1>5. PICK owner \in Pid : p \in Range(children[owner])
  BY <1>1 DEF ProcessTree, Live, Owns
<1>6. \E q \in Pid : p \in Range(kids[q])
  <2>1. CASE owner = p \/ owner = INITPROC
    BY <1>4, <1>5, <2>1, PidFacts
  <2>2. CASE owner \notin {p, INITPROC}
    BY <1>3, <1>5, <2>2
  <2> QED BY <2>1, <2>2
<1>7. Referenced(p, ready_queue, None, kids, leak)
  BY <1>6 DEF Referenced
<1>8. /\ current' = None /\ children' = kids /\ leaked' = leak
      /\ parent' = [c \in Pid |-> IF c \in Range(children[p])
                                 THEN INITPROC ELSE parent[c]]
      /\ task_status' = [task_status EXCEPT ![p] = "Zombie"]
      /\ UNCHANGED <<pid_current, pid_recycled, ready_queue>>
      /\ ResultsTyped'
  <2>1. ResultsTyped'
    BY AnswersTyped, PidFacts DEF exit_current_and_run_next, Result
  <2> QED BY <1>7, <2>1 DEF exit_current_and_run_next, kids, dealloc
<1>9. TypeOK'
  <2>1. /\ task_status' \in [Pid -> {"Ready", "Running", "Zombie", "Dropped"}]
        /\ parent' \in [Pid -> Pid \cup {None}]
    BY <1>8, PidFacts DEF TypeOK
  <2> QED BY <1>3, <1>8, <2>1, Zenon DEF TypeOK, ResultsTyped, Result
<1>10. ScheduledOnce'
  BY <1>1, <1>8, PidFacts DEF ScheduledOnce, TypeOK
<1>11. Live' = Live
  BY <1>1, <1>8 DEF Live, TypeOK
<1>12. ProcessTree'
  <2>1. ASSUME NEW q \in Pid PROVE IsInjective(children'[q])
    BY <1>2, <1>3, <1>4, <1>8, Zenon
  <2>2. ASSUME NEW q \in Pid, NEW c \in Pid, c \in Range(children'[q])
        PROVE  /\ parent'[c] = q /\ c # INITPROC
               /\ task_status'[q] \in {"Ready", "Running"}
               /\ task_status'[c] # "Dropped"
    <3>1. q # p
      BY <1>4, <1>8, <2>2
    <3>2. CASE q = INITPROC
      <4>1. c \in Range(children[INITPROC]) \/ c \in Range(children[p])
        BY <1>4, <1>8, <2>2, <3>2
      <4>2. parent'[c] = INITPROC
        BY <1>8, <4>1, PidFacts DEF ProcessTree, Owns
      <4>3. c # INITPROC /\ task_status[c] # "Dropped"
        BY <4>1, PidFacts DEF ProcessTree, Owns
      <4> QED BY <1>8, <3>1, <3>2, <4>2, <4>3 DEF InitprocAlive, TypeOK
    <3>3. CASE q # INITPROC
      <4>1. c \in Range(children[q])
        BY <1>3, <1>8, <2>2, <3>1, <3>3
      <4>2. c \notin Range(children[p])
        BY <3>1, <4>1, SMTT(30) DEF ProcessTree, Owns
      <4> QED BY <1>8, <3>1, <4>1, <4>2, SMTT(30) DEF ProcessTree, Owns, TypeOK
    <3> QED BY <3>2, <3>3
  <2>3. ASSUME NEW c \in Live \ {INITPROC}
        PROVE  \/ \E q \in Pid : c \in Range(children'[q])
               \/ c \in leaked' /\ task_status'[c] = "Zombie"
    <3>1. CASE c \in leaked /\ task_status[c] = "Zombie"
      BY <1>8, <3>1 DEF TypeOK, Live
    <3>2. CASE \E q \in Pid : c \in Range(children[q])
      <4>1. PICK q \in Pid : c \in Range(children[q])
        BY <3>2
      <4>2. CASE q = p \/ q = INITPROC
        BY <1>4, <1>8, <4>1, <4>2, PidFacts
      <4>3. CASE q \notin {p, INITPROC}
        BY <1>3, <1>8, <4>1, <4>3
      <4> QED BY <4>2, <4>3
    <3> QED BY <3>1, <3>2 DEF ProcessTree, Owns
  <2> QED BY <1>11, <2>1, <2>2, <2>3 DEF ProcessTree, Owns
<1>13. PidsAccounted'
  BY <1>8, <1>11 DEF PidsAccounted
<1>14. InitprocAlive' /\ LeakedExited'
  BY <1>1, <1>8, PidFacts DEF InitprocAlive, LeakedExited, TypeOK
<1> QED BY <1>8, <1>9, <1>10, <1>12, <1>13, <1>14

(* The allocator hands out a pid that no live TCB has.                     *)
LEMMA PidAllocFresh ==
  ASSUME IInv, PidAvailable
  PROVE  /\ pid_alloc \in Pid \ Live
         /\ pid_alloc # INITPROC
<1> USE DEF IInv
<1>1. CASE pid_recycled # <<>>
  <2>1. top(pid_recycled) \in Pid /\ top(pid_recycled) \in Range(pid_recycled)
    BY <1>1, PopRange DEF TypeOK, PidsAccounted, pop, top
  <2>2. INITPROC \in Live
    BY PidFacts DEF InitprocAlive, Live
  <2> QED BY <1>1, <2>1, <2>2 DEF PidsAccounted, pid_alloc
<1>2. CASE pid_recycled = <<>>
  <2>1. pid_alloc = pid_current /\ pid_current \in Pid
    BY <1>2, MaxPidAssumption, SMTT(30) DEF pid_alloc, PidAvailable, TypeOK, Pid
  <2>2. pid_current \notin 0 .. pid_current - 1 /\ pid_current # INITPROC
    BY MaxPidAssumption DEF TypeOK, INITPROC
  <2> QED BY <2>1, <2>2 DEF PidsAccounted
<1> QED BY <1>1, <1>2

(* Fork: the new TCB has a fresh pid, one owner and one place in the queue. *)
LEMMA ForkIInv ==
  ASSUME IInv, NEW p \in Pid, current = p, fork(p)
  PROVE  IInv'
<1> USE DEF IInv
<1> DEFINE c == pid_alloc
<1>1. c \in Pid /\ c \notin Live /\ c # INITPROC
  BY PidAllocFresh DEF fork
<1>2. task_status[c] = "Dropped" /\ task_status[p] = "Running" /\ c # p
  BY <1>1, PidFacts DEF Live, ScheduledOnce
<1>3. /\ task_status' = [task_status EXCEPT ![c] = "Ready"]
      /\ parent' = [parent EXCEPT ![c] = p]
      /\ children' = [children EXCEPT ![p] = Append(children[p], c),
                                     ![c] = <<>>]
      /\ ready_queue' = Append(ready_queue, c)
      /\ UNCHANGED <<current, leaked>>
      /\ ResultsTyped'
  <2>1. ResultsTyped'
    BY <1>1, AnswersTyped DEF fork, Result
  <2> QED BY <2>1 DEF fork
<1>4. /\ pid_recycled' \in Seq(Pid) /\ IsInjective(pid_recycled')
      /\ pid_current' \in 1 .. MaxPid
      /\ Range(pid_recycled') = Range(pid_recycled) \ {c}
      /\ 0 .. pid_current' - 1 = (0 .. pid_current - 1) \cup {c}
  <2>1. CASE pid_recycled # <<>>
    <3>1. pid_recycled' = pop(pid_recycled) /\ pid_current' = pid_current
          /\ c = top(pid_recycled)
      BY <2>1 DEF fork, pid_alloc
    <3>2. /\ top(pid_recycled) \in Range(pid_recycled)
          /\ pop(pid_recycled) \in Seq(Pid) /\ IsInjective(pop(pid_recycled))
          /\ Range(pop(pid_recycled)) = Range(pid_recycled) \ {top(pid_recycled)}
      <4>1. pid_recycled \in Seq(Pid) /\ IsInjective(pid_recycled)
        BY DEF TypeOK, PidsAccounted
      <4> QED BY ONLY <2>1, <4>1, PopRange DEF pop, top
    <3>3. c \in 0 .. pid_current - 1
      BY <3>1, <3>2 DEF PidsAccounted
    <3>4. /\ pid_recycled' \in Seq(Pid) /\ IsInjective(pid_recycled')
          /\ Range(pid_recycled') = Range(pid_recycled) \ {c}
      BY ONLY <3>1, <3>2, Zenon
    <3>5. 0 .. pid_current' - 1 = (0 .. pid_current - 1) \cup {c}
      BY <3>1, <3>3
    <3> QED BY <3>1, <3>4, <3>5 DEF TypeOK
  <2>2. CASE pid_recycled = <<>>
    <3>1. pid_recycled' = pid_recycled /\ pid_current' = pid_current + 1
          /\ c = pid_current /\ pid_current < MaxPid
      BY <2>2 DEF fork, pid_alloc, PidAvailable
    <3>2. Range(<<>>) = {}
      BY DEF Range
    <3>3. /\ pid_current' \in 1 .. MaxPid
          /\ 0 .. pid_current' - 1 = (0 .. pid_current - 1) \cup {pid_current}
      BY <3>1, MaxPidAssumption, SMTT(30) DEF TypeOK
    <3> QED BY <2>2, <3>1, <3>2, <3>3 DEF TypeOK, PidsAccounted
  <2> QED BY <2>1, <2>2
<1> HIDE DEF c
<1>5. c \notin Range(ready_queue) /\ (\A q \in Pid : c \notin Range(children[q]))
  BY <1>1, <1>2 DEF ScheduledOnce, ProcessTree, Owns
<1>6. /\ ready_queue' \in Seq(Pid)
      /\ Range(ready_queue') = Range(ready_queue) \cup {c}
      /\ IsInjective(ready_queue')
  BY <1>1, <1>3, <1>5, AppendRange, SMTT(30) DEF TypeOK, ScheduledOnce
<1>7. /\ \A q \in Pid : children[q] \in Seq(Pid) /\ IsInjective(children[q])
      /\ Append(children[p], c) \in Seq(Pid)
      /\ Range(Append(children[p], c)) = Range(children[p]) \cup {c}
      /\ IsInjective(Append(children[p], c))
      /\ <<>> \in Seq(Pid) /\ Range(<<>>) = {} /\ IsInjective(<<>>)
  <2>1. \A q \in Pid : children[q] \in Seq(Pid) /\ IsInjective(children[q])
    BY ChildrenTyped, Zenon
  <2>2. <<>> \in Seq(Pid) /\ Range(<<>>) = {} /\ IsInjective(<<>>)
    BY EmptySeqFacts
  <2> QED BY <1>1, <1>5, <2>1, <2>2, AppendRange, SMTT(30)
<1>8. /\ children'[p] = Append(children[p], c) /\ children'[c] = <<>>
      /\ \A q \in Pid \ {p, c} : children'[q] = children[q]
      /\ children' \in [Pid -> Seq(Pid)]
  BY <1>1, <1>2, <1>3, <1>7, Zenon DEF TypeOK
<1>9. TypeOK'
  BY <1>1, <1>3, <1>4, <1>6, <1>8, PidFacts, Zenon DEF TypeOK, ResultsTyped, Result
<1>10. ScheduledOnce'
  BY <1>1, <1>2, <1>3, <1>6, SMTT(30) DEF ScheduledOnce, TypeOK
<1>11. Live' = Live \cup {c}
  BY <1>1, <1>3 DEF Live, TypeOK
<1>12. ProcessTree'
  <2>1. ASSUME NEW q \in Pid PROVE IsInjective(children'[q])
    BY <1>7, <1>8, Zenon
  <2>2. ASSUME NEW q \in Pid, NEW d \in Pid, d \in Range(children'[q])
        PROVE  /\ parent'[d] = q /\ d # INITPROC
               /\ task_status'[q] \in {"Ready", "Running"}
               /\ task_status'[d] # "Dropped"
    <3>1. q # c
      BY <1>7, <1>8, <2>2
    <3>2. CASE d = c
      <4>1. q = p
        BY <1>5, <1>8, <2>2, <3>1, <3>2, Zenon
      <4> QED BY <1>1, <1>2, <1>3, <3>2, <4>1 DEF TypeOK
    <3>3. CASE d # c
      <4>1. d \in Range(children[q])
        BY <1>7, <1>8, <2>2, <3>1, <3>3, Zenon
      <4> QED BY <1>3, <3>1, <3>3, <4>1, SMTT(30) DEF ProcessTree, Owns, TypeOK
    <3> QED BY <3>2, <3>3
  <2>3. ASSUME NEW d \in Live' \ {INITPROC}
        PROVE  \/ \E q \in Pid : d \in Range(children'[q])
               \/ d \in leaked' /\ task_status'[d] = "Zombie"
    <3>1. CASE d = c
      BY <1>7, <1>8, <3>1, Zenon
    <3>2. CASE d # c /\ d \in leaked /\ task_status[d] = "Zombie"
      BY <1>3, <3>2 DEF TypeOK
    <3>3. CASE d # c /\ \E q \in Pid : d \in Range(children[q])
      <4>1. PICK q \in Pid : d \in Range(children[q])
        BY <3>3
      <4>2. q # c
        BY <1>1, <1>2, <4>1, <3>3, <1>11 DEF ProcessTree, Owns, Live
      <4> QED BY <1>7, <1>8, <4>1, <4>2, Zenon
    <3> QED BY <1>11, <3>1, <3>2, <3>3 DEF ProcessTree, Owns
  <2> QED BY <2>1, <2>2, <2>3 DEF ProcessTree, Owns
<1>13. PidsAccounted'
  BY <1>1, <1>4, <1>11 DEF PidsAccounted
<1>14. InitprocAlive' /\ LeakedExited'
  BY <1>1, <1>2, <1>3, SMTT(30) DEF InitprocAlive, LeakedExited, TypeOK
<1> QED BY <1>9, <1>10, <1>12, <1>13, <1>14

(* A system call that only returns a value.                                *)
LEMMA ReturnsIInv ==
  ASSUME IInv, NEW p \in Pid, NEW r \in Pid \cup {-1, -2}, returns(p, r)
  PROVE  IInv'
<1> USE DEF IInv, returns
<1>1. TypeOK'
  BY AnswersTyped DEF TypeOK, ResultsTyped, Result
<1>2. ScheduledOnce' /\ PidsAccounted' /\ InitprocAlive' /\ LeakedExited'
  BY DEF ScheduledOnce, PidsAccounted, InitprocAlive, LeakedExited, Live
<1>3. ProcessTree'
  BY SMTT(20) DEF ProcessTree, Owns, Live
<1> QED BY <1>1, <1>2, <1>3

(* What waitpid finds is a zombie of the caller's children vector.         *)
LEMMA ZombieIdx ==
  ASSUME IInv, NEW p \in Pid, NEW pid, zombie_idx(p, pid) # 0
  PROVE  /\ zombie_idx(p, pid) \in 1 .. Len(children[p])
         /\ task_status[children[p][zombie_idx(p, pid)]] = "Zombie"
<1> DEFINE I == {i \in 1 .. Len(children[p]) :
                   /\ task_status[children[p][i]] = "Zombie"
                   /\ Matches(children[p][i], pid)}
<1>1. zombie_idx(p, pid) = IF I # {} THEN least(I) ELSE 0
  BY DEF zombie_idx, position
<1>2. I # {} /\ zombie_idx(p, pid) = least(I)
  BY <1>1
<1>3. I \in SUBSET Nat
  BY SMTT(30)
<1>4. least(I) \in I
  BY <1>2, <1>3, LeastElement, Zenon DEF least
<1> QED BY <1>2, <1>4

(* Reaping: the zombie leaves its owner's vector; either its last Arc went *)
(* with it, and TCB and pid are released together, or it is leaked.        *)
LEMMA ReapIInv ==
  ASSUME IInv, NEW p \in Pid, current = p, NEW writable \in BOOLEAN,
         NEW i \in 1 .. Len(children[p]),
         task_status[children[p][i]] = "Zombie",
         reap(p, i, writable)
  PROVE  /\ IInv'
         /\ children[p][i] \in Pid /\ parent[children[p][i]] = p
<1> USE DEF IInv
<1> DEFINE c == children[p][i]
           kids == [children EXCEPT ![p] = remove(children[p], i)]
           kept == Referenced(c, ready_queue, current, kids, leaked)
<1>1. /\ \A q \in Pid : children[q] \in Seq(Pid) /\ IsInjective(children[q])
      /\ c \in Pid /\ c \in Range(children[p])
  <2>1. \A q \in Pid : children[q] \in Seq(Pid) /\ IsInjective(children[q])
    BY ChildrenTyped, Zenon
  <2>2. c \in Pid /\ c \in Range(children[p])
    BY <2>1, SeqFacts DEF Range
  <2> QED BY <2>1, <2>2
<1>2. /\ children' = kids
      /\ task_status' = IF kept THEN task_status
                        ELSE [task_status EXCEPT ![c] = "Dropped"]
      /\ parent' = IF kept THEN parent ELSE [parent EXCEPT ![c] = None]
      /\ pid_recycled' = IF kept THEN pid_recycled
                                 ELSE Append(pid_recycled, c)
      /\ UNCHANGED <<pid_current, ready_queue, current, leaked>>
      /\ ResultsTyped'
  <2>1. ResultsTyped'
    BY <1>1, AnswersTyped DEF reap, Result
  <2> QED BY <2>1 DEF reap, dealloc
<1>3. /\ kids \in [Pid -> Seq(Pid)]
      /\ Range(kids[p]) = Range(children[p]) \ {c}
      /\ IsInjective(kids[p])
      /\ \A q \in Pid \ {p} : kids[q] = children[q]
  <2>1. /\ remove(children[p], i) \in Seq(Pid)
        /\ Range(remove(children[p], i)) = Range(children[p]) \ {c}
        /\ IsInjective(remove(children[p], i))
    BY <1>1, RemoveRange
  <2>2. children \in [Pid -> Seq(Pid)]
    BY DEF TypeOK
  <2>3. kids = [children EXCEPT ![p] = remove(children[p], i)]
    OBVIOUS
  <2> HIDE DEF kids
  <2> QED BY ONLY <2>1, <2>2, <2>3, p \in Pid
<1>4. /\ task_status[c] = "Zombie" /\ c # INITPROC /\ parent[c] = p
      /\ task_status[p] = "Running" /\ c # p
  <2>1. task_status[c] = "Zombie"
    OBVIOUS
  <2>2. c # INITPROC /\ parent[c] = p
    BY <1>1 DEF ProcessTree, Owns
  <2>3. task_status[p] = "Running"
    BY PidFacts DEF ScheduledOnce
  <2> QED BY <2>1, <2>2, <2>3
<1> SUFFICES IInv'
  BY <1>1, <1>4
<1> HIDE DEF c, kids
<1>5. kept <=> c \in leaked
  <2>1. c \notin Range(ready_queue) /\ c # current
    BY <1>1, <1>4 DEF ScheduledOnce
  <2>2. \A q \in Pid : c \notin Range(kids[q])
    <3>1. \A q \in Pid \ {p} : c \notin Range(children[q])
      BY <1>1, <1>4 DEF ProcessTree, Owns
    <3>2. \A q \in Pid \ {p} : Range(kids[q]) = Range(children[q])
      BY <1>3
    <3>3. c \notin Range(kids[p])
      BY <1>3
    <3> QED BY <3>1, <3>2, <3>3
  <2> QED BY <1>4, <2>1, <2>2 DEF Referenced
<1> HIDE DEF kept
<1>6. \A q, d \in Pid : d \in Range(children'[q])
                         => d \in Range(children[q]) /\ d # c
  <2>1. \A q \in Pid \ {p} : c \notin Range(children[q])
    BY <1>1, <1>4 DEF ProcessTree, Owns
  <2>2. \A q \in Pid \ {p} : Range(kids[q]) = Range(children[q])
    BY <1>3
  <2>3. \A d \in Pid : d \in Range(kids[p]) => d \in Range(children[p]) /\ d # c
    BY <1>3
  <2> QED BY <1>2, <2>1, <2>2, <2>3, SMTT(30)
<1>7. \A q, d \in Pid : d \in Range(children[q]) /\ d # c
                         => d \in Range(children'[q])
  <2>1. \A q \in Pid \ {p} : Range(kids[q]) = Range(children[q])
    BY <1>3
  <2> QED BY <1>2, <1>3, <2>1, Zenon
<1>8. \A q \in Pid : IsInjective(children'[q])
  BY <1>1, <1>2, <1>3, Zenon
<1>9. \A q \in Pid : c \notin Range(children[q]) \/ q = p
  BY <1>1, <1>4 DEF ProcessTree, Owns
<1>10. Range(children[c]) \cap Pid = {}
  BY <1>1, <1>4 DEF ProcessTree, Owns
<1>11. CASE c \in leaked
  <2>1. UNCHANGED <<task_status, parent, pid_recycled>>
    BY <1>2, <1>5, <1>11
  <2>2. TypeOK'
    BY <1>1, <1>2, <1>3, <2>1, Zenon DEF TypeOK, ResultsTyped, Result
  <2>3. ScheduledOnce' /\ PidsAccounted' /\ InitprocAlive' /\ LeakedExited'
    BY <1>2, <2>1, SMTT(30) DEF ScheduledOnce, PidsAccounted, InitprocAlive,
                      LeakedExited, Live
  <2>4. ProcessTree'
    BY <1>2, <1>4, <1>6, <1>7, <1>8, <1>11, <2>1, SMTT(30)
       DEF ProcessTree, Owns, Live
  <2> QED BY <2>2, <2>3, <2>4
<1>12. CASE c \notin leaked
  <2>1. /\ task_status' = [task_status EXCEPT ![c] = "Dropped"]
        /\ parent' = [parent EXCEPT ![c] = None]
        /\ pid_recycled' = Append(pid_recycled, c)
    BY <1>2, <1>5, <1>12
  <2>2. Live' = Live \ {c} /\ c \in Live
    BY <1>1, <1>4, <2>1, SMTT(20) DEF Live, TypeOK
  <2>3. /\ pid_recycled' \in Seq(Pid) /\ IsInjective(pid_recycled')
        /\ Range(pid_recycled') = Range(pid_recycled) \cup {c}
    BY <1>1, <2>1, <2>2, AppendRange, SMTT(30) DEF TypeOK, PidsAccounted
  <2>4. TypeOK'
    <3>1. /\ task_status' \in [Pid -> {"Ready", "Running", "Zombie", "Dropped"}]
          /\ parent' \in [Pid -> Pid \cup {None}]
      BY <1>1, <2>1 DEF TypeOK
    <3> QED BY <1>2, <1>3, <2>3, <3>1, Zenon DEF TypeOK, ResultsTyped, Result
  <2>11. \A d \in Pid : task_status'[d] = IF d = c THEN "Dropped"
                                                   ELSE task_status[d]
    BY <1>1, <2>1 DEF TypeOK
  <2>5. ScheduledOnce'
    <3>1. /\ {d \in Pid : task_status'[d] = "Ready"}
               = {d \in Pid : task_status[d] = "Ready"}
          /\ {d \in Pid : task_status'[d] = "Running"}
               = {d \in Pid : task_status[d] = "Running"}
      BY ONLY <1>4, <2>11
    <3> QED BY <1>2, <3>1, Zenon DEF ScheduledOnce
  <2>6. PidsAccounted'
    <3>1. /\ Range(pid_recycled) \cap Live = {}
          /\ Range(pid_recycled) \cup Live = 0 .. pid_current - 1
      BY DEF PidsAccounted
    <3>2. /\ Range(pid_recycled') \cap Live' = {}
          /\ Range(pid_recycled') \cup Live' = 0 .. pid_current - 1
      BY ONLY <2>2, <2>3, <3>1
    <3> QED BY <1>2, <2>3, <3>2, Zenon DEF PidsAccounted
  <2>7. InitprocAlive' /\ LeakedExited'
    <3>1. InitprocAlive'
      BY <1>4, <2>11, PidFacts, Zenon DEF InitprocAlive
    <3>2. \A d \in leaked' : d \in Pid /\ d # c /\ task_status[d] = "Zombie"
      BY <1>2, <1>12, Zenon DEF LeakedExited, TypeOK
    <3> QED BY <2>11, <3>1, <3>2, Zenon DEF LeakedExited
  <2>8. ASSUME NEW q \in Pid, NEW d \in Pid, d \in Range(children'[q])
        PROVE  /\ parent'[d] = q /\ d # INITPROC
               /\ task_status'[q] \in {"Ready", "Running"}
               /\ task_status'[d] # "Dropped"
    <3>1. d \in Range(children[q]) /\ d # c
      BY <1>6, <2>8
    <3>2. q # c
      BY <1>10, <3>1, SMTT(20)
    <3> QED BY <2>1, <3>1, <3>2, SMTT(30) DEF ProcessTree, Owns, TypeOK
  <2>9. ASSUME NEW d \in Live' \ {INITPROC}
        PROVE  \/ \E q \in Pid : d \in Range(children'[q])
               \/ d \in leaked' /\ task_status'[d] = "Zombie"
    <3>1. d \in Live \ {INITPROC} /\ d # c /\ d \in Pid
      BY <2>2 DEF Live
    <3> QED BY <1>2, <1>7, <2>1, <3>1, SMTT(30) DEF ProcessTree, Owns, TypeOK
  <2>10. ProcessTree'
    BY <1>8, <2>8, <2>9, Zenon DEF ProcessTree, Owns
  <2> QED BY <2>4, <2>5, <2>6, <2>7, <2>10
<1> QED BY <1>11, <1>12

(* Every step is one of a few kinds, whichever system call makes it.       *)
LEMMA StepKinds ==
  ASSUME IInv, [Next]_vars
  PROVE  \/ UNCHANGED vars
         \/ run_tasks
         \/ \E p \in Pid : /\ suspend_current_and_run_next(p)
                           /\ ResultsTyped' /\ result' = 0
         \/ \E p \in Pid, r \in {-1, -2} : returns(p, r)
         \/ \E p \in Pid : current = p /\ fork(p)
         \/ \E p \in Pid \ {INITPROC} : \E abandoned \in SUBSET {p} :
              exit_current_and_run_next(p, abandoned)
         \/ \E p \in Pid, w \in BOOLEAN : \E i \in 1 .. Len(children[p]) :
              /\ current = p /\ task_status[children[p][i]] = "Zombie"
              /\ reap(p, i, w)
<1> DEFINE Fork == \E p \in Pid : current = p /\ fork(p)
           Exit == \E p \in Pid \ {INITPROC} : \E abandoned \in SUBSET {p} :
                     exit_current_and_run_next(p, abandoned)
           Return == \E p \in Pid, r \in {-1, -2} : returns(p, r)
           Suspend == \E p \in Pid : /\ suspend_current_and_run_next(p)
                                    /\ ResultsTyped' /\ result' = 0
           Reap == \E p \in Pid, w \in BOOLEAN : \E i \in 1 .. Len(children[p]) :
                     /\ current = p /\ task_status[children[p][i]] = "Zombie"
                     /\ reap(p, i, w)
<1>1. ASSUME NEW p \in Pid, NEW pid, NEW w \in BOOLEAN, sys_waitpid(p, pid, w)
      PROVE  Return \/ Reap
  <2>1. CASE returns(p, -1) \/ returns(p, -2)
    BY <2>1
  <2>2. CASE zombie_idx(p, pid) # 0 /\ reap(p, zombie_idx(p, pid), w)
    <3>1. /\ zombie_idx(p, pid) \in 1 .. Len(children[p])
          /\ task_status[children[p][zombie_idx(p, pid)]] = "Zombie"
      BY <2>2, ZombieIdx
    <3> QED BY <1>1, <2>2, <3>1 DEF sys_waitpid
  <2> QED BY <1>1, <2>1, <2>2 DEF sys_waitpid
<1>2. ASSUME NEW p \in Pid, NEW low_memory \in BOOLEAN, NEW copied \in BOOLEAN,
             p = INITPROC => ~low_memory, sys_fork(p, low_memory, copied)
      PROVE  Fork \/ Exit \/ Return
  BY <1>2 DEF sys_fork
<1>3. ASSUME NEW p \in Pid, timer_interrupt(p) \/ sys_yield(p)
      PROVE  Suspend
  <2>1. TypeOK /\ 0 \in Result
    BY PidFacts DEF IInv, INITPROC, Result
  <2>2. ResultsTyped'
    BY <1>3, <2>1, AnswersTyped DEF timer_interrupt, sys_yield
  <2>3. result' = 0
    BY <1>3 DEF timer_interrupt, sys_yield, answers, no_answer
  <2> QED BY <1>3, <2>2, <2>3 DEF timer_interrupt, sys_yield
<1>4. ASSUME current = INITPROC, initproc_step
      PROVE  Fork \/ Exit \/ Return \/ Suspend \/ Reap
  BY <1>1, <1>2, <1>3, <1>4, PidFacts, Zenon DEF initproc_step
<1>5. ASSUME NEW p \in Pid \ {INITPROC}, user_step(p)
      PROVE  Fork \/ Exit \/ Return \/ Suspend \/ Reap
  <2>1. ASSUME NEW ok \in BOOLEAN, sys_spawn(p, ok) PROVE Fork \/ Return
    BY <2>1 DEF sys_spawn
  <2>2. ASSUME sys_exit(p) PROVE Exit
    BY <2>2 DEF sys_exit
  <2>3. ASSUME NEW low_memory \in BOOLEAN, NEW copied \in BOOLEAN,
               sys_fork(p, low_memory, copied)
        PROVE  Fork \/ Exit \/ Return
    BY <1>2, <2>3
  <2> HIDE DEF Fork, Exit, Return, Suspend, Reap
  <2> QED BY <1>1, <1>3, <1>5, <2>1, <2>2, <2>3 DEF user_step
<1> HIDE DEF Fork, Exit, Return, Suspend, Reap
<1>6. UNCHANGED vars \/ run_tasks \/ Suspend \/ Return \/ Fork \/ Exit \/ Reap
  BY <1>3, <1>4, <1>5 DEF Next
<1> QED BY <1>6 DEF Fork, Exit, Return, Suspend, Reap

(* IInv is preserved by every step of the system.                          *)
LEMMA NextIInv == IInv /\ [Next]_vars => IInv'
<1> SUFFICES ASSUME IInv, [Next]_vars PROVE IInv'
  OBVIOUS
<1>1. CASE UNCHANGED vars
  <2> USE <1>1 DEF IInv, vars
  <2>1. TypeOK'
    BY DEF TypeOK
  <2>2. ScheduledOnce' /\ PidsAccounted' /\ InitprocAlive' /\ LeakedExited'
    BY DEF ScheduledOnce, PidsAccounted, InitprocAlive, LeakedExited, Live
  <2>3. ProcessTree'
    BY DEF ProcessTree, Owns, Live
  <2> QED BY <2>1, <2>2, <2>3
<1> QED BY <1>1, StepKinds, RunIInv, SuspendIInv, ReturnsIInv, ForkIInv,
           ExitIInv, ReapIInv

(* The inductive invariant holds throughout.                               *)
THEOREM Invariant == Spec => []IInv
  BY InitIInv, NextIInv, PTL DEF Spec

(* "No more tasks" (the panic of Processor::run) is never reached.         *)
LEMMA InitprocRuns == IInv => SomethingToRun
<1> SUFFICES ASSUME IInv PROVE current # None \/ ready_queue # <<>>
  BY DEF SomethingToRun
<1> USE DEF IInv
<1>1. CASE task_status[INITPROC] = "Ready"
  <2>1. INITPROC \in Range(ready_queue)
    BY <1>1, PidFacts DEF ScheduledOnce
  <2> QED BY <2>1 DEF Range
<1>2. CASE task_status[INITPROC] = "Running"
  BY <1>2, PidFacts DEF ScheduledOnce
<1> QED BY <1>1, <1>2 DEF InitprocAlive

(* No set of processes is cut off from initproc: a new child hangs below   *)
(* its parent, whose own ancestors are older; exit moves the children of   *)
(* the exiting process to initproc; reaping takes a leaf away.             *)
LEMMA NextRooted ==
  IInv /\ RootedAtInitproc /\ [Next]_vars => RootedAtInitproc'
<1> SUFFICES ASSUME IInv, RootedAtInitproc, [Next]_vars,
                    NEW S \in SUBSET (Live' \ ({INITPROC} \cup leaked')),
                    S # {}
             PROVE  \E c \in S : parent'[c] \notin S
  BY DEF RootedAtInitproc
<1> USE DEF IInv
<1>1. ASSUME Live' \subseteq Live, leaked \subseteq leaked',
             \A c \in Live' : parent'[c] = parent[c]
      PROVE  \E c \in S : parent'[c] \notin S
  BY <1>1 DEF RootedAtInitproc
<1>2. CASE \/ UNCHANGED vars
           \/ \E p \in Pid, r \in {-1, -2} : returns(p, r)
  BY <1>1, <1>2 DEF vars, returns, Live
<1>3. CASE run_tasks
  <2>1. Head(ready_queue) \in Live
    <3>1. Head(ready_queue) \in Range(ready_queue)
      BY <1>3, TailRange DEF run_tasks, TypeOK, ScheduledOnce
    <3> QED BY <3>1 DEF ScheduledOnce, Live
  <2> QED BY <1>1, <1>3, <2>1 DEF run_tasks, Live, TypeOK
<1>4. CASE \E p \in Pid : suspend_current_and_run_next(p)
  <2>1. PICK p \in Pid : suspend_current_and_run_next(p)
    BY <1>4
  <2>2. p \in Live
    BY <2>1, PidFacts DEF suspend_current_and_run_next, ScheduledOnce, Live
  <2> QED BY <1>1, <2>1, <2>2 DEF suspend_current_and_run_next, Live, TypeOK
<1>5. CASE \E p \in Pid : current = p /\ fork(p)
  <2>1. PICK p \in Pid : current = p /\ fork(p)
    BY <1>5
  <2> DEFINE c == pid_alloc
  <2>2. c \in Pid /\ c \notin Live
    BY <2>1, PidAllocFresh DEF fork
  <2>3. /\ task_status' = [task_status EXCEPT ![c] = "Ready"]
        /\ parent' = [parent EXCEPT ![c] = p]
        /\ leaked' = leaked
    BY <2>1 DEF fork
  <2> HIDE DEF c
  <2>4. Live' = Live \cup {c} /\ (\A d \in Live : parent'[d] = parent[d])
    BY <2>2, <2>3, SMTT(30) DEF Live, TypeOK
  <2>5. p \in Live /\ p # c
    BY <2>1, <2>2, PidFacts DEF ScheduledOnce, Live
  <2>6. CASE S = {c}
    BY <2>2, <2>3, <2>5, <2>6 DEF TypeOK
  <2>7. CASE S # {c}
    <3>1. S \ {c} \in SUBSET (Live \ ({INITPROC} \cup leaked)) /\ S \ {c} # {}
      BY <2>3, <2>4, <2>7
    <3>2. PICK d \in S \ {c} : parent[d] \notin S \ {c}
      BY <3>1, Zenon DEF RootedAtInitproc
    <3>3. PICK q \in Pid : Owns(q, d)
      BY <3>1, <3>2 DEF ProcessTree
    <3>4. d \in Pid /\ d \in Live
      BY <3>1, <3>2 DEF Live
    <3>5. parent[d] = q /\ q \in Live
      BY <3>3, <3>4 DEF ProcessTree, Live
    <3>6. parent[d] # c
      BY <2>2, <3>5
    <3> QED BY <2>4, <3>2, <3>4, <3>6
  <2> QED BY <2>6, <2>7
<1>6. CASE \E p \in Pid \ {INITPROC} : \E abandoned \in SUBSET {p} :
             exit_current_and_run_next(p, abandoned)
  <2> PICK p \in Pid \ {INITPROC} : \E abandoned \in SUBSET {p} :
             exit_current_and_run_next(p, abandoned)
    BY <1>6
  <2>1. PICK abandoned \in SUBSET {p} : exit_current_and_run_next(p, abandoned)
    BY Zenon
  <2>2. /\ leaked \subseteq leaked'
        /\ parent' = [c \in Pid |-> IF c \in Range(children[p])
                                   THEN INITPROC ELSE parent[c]]
    BY <2>1 DEF exit_current_and_run_next
  <2>3. task_status' = [task_status EXCEPT ![p] = "Zombie"]
    BY <2>1, ExitIInv, Zenon
  <2>4. current = p
    BY <2>1 DEF exit_current_and_run_next
  <2>5. p \in Live
    BY <2>4, PidFacts DEF ScheduledOnce, Live
  <2>6. Live' = Live
    BY <2>3, <2>5 DEF Live, TypeOK
  <2>7. CASE S \cap Range(children[p]) = {}
    <3>1. PICK d \in S : parent[d] \notin S
      BY <2>2, <2>6 DEF RootedAtInitproc
    <3> QED BY <2>2, <2>7, <3>1 DEF Live
  <2>8. CASE S \cap Range(children[p]) # {}
    BY <2>2, <2>8 DEF Live
  <2> QED BY <2>7, <2>8
<1>7. CASE \E p \in Pid, w \in BOOLEAN : \E i \in 1 .. Len(children[p]) :
             /\ current = p /\ task_status[children[p][i]] = "Zombie"
             /\ reap(p, i, w)
  <2> PICK p \in Pid, w \in BOOLEAN : \E i \in 1 .. Len(children[p]) :
             /\ current = p /\ task_status[children[p][i]] = "Zombie"
             /\ reap(p, i, w)
    BY <1>7
  <2>1. PICK i \in 1 .. Len(children[p]) :
               /\ current = p /\ task_status[children[p][i]] = "Zombie"
               /\ reap(p, i, w)
    OBVIOUS
  <2> DEFINE c == children[p][i]
  <2>2. c \in Pid
    BY <2>1, ReapIInv
  <2>3. /\ leaked' = leaked
        /\ \/ task_status' = task_status /\ parent' = parent
           \/ /\ task_status' = [task_status EXCEPT ![c] = "Dropped"]
              /\ parent' = [parent EXCEPT ![c] = None]
    BY <2>1, Zenon DEF reap
  <2> HIDE DEF c
  <2>4. Live' \subseteq Live /\ (\A d \in Live' : parent'[d] = parent[d])
    BY <2>2, <2>3, SMTT(30) DEF Live, TypeOK
  <2> QED BY <1>1, <2>3, <2>4
<1> QED BY <1>2, <1>3, <1>4, <1>5, <1>6, <1>7, StepKinds

(* Arc::strong_count of a zombie in a children vector: the slot of the     *)
(* vector is the only Arc, but for the frame of a leaked one.              *)
LEMMA ZombieCount == IInv => WaitpidAssertion
<1> SUFFICES ASSUME IInv, NEW q \in Pid, NEW c \in Pid, Owns(q, c),
                    task_status[c] = "Zombie"
             PROVE  strong_count(c) = IF c \in leaked THEN 2 ELSE 1
  BY DEF WaitpidAssertion
<1> USE DEF IInv
<1> DEFINE Slots == {slot \in UNION {{r} \X DOMAIN children[r] : r \in Pid} :
                       children[slot[1]][slot[2]] = c}
           Queued == {i \in DOMAIN ready_queue : ready_queue[i] = c}
<1>1. c # INITPROC /\ (\A r \in Pid : Owns(r, c) => r = q)
  BY SMTT(30) DEF ProcessTree
<1>2. c # current
  BY PidFacts DEF ScheduledOnce
<1>3. Queued = {}
  BY DEF ScheduledOnce, Range
<1>4. PICK i \in DOMAIN children[q] : children[q][i] = c
  BY DEF Owns, Range
<1>5. \A j \in DOMAIN children[q] : children[q][j] = c => j = i
  BY <1>4 DEF ProcessTree, IsInjective
<1>6. Slots = {<<q, i>>}
  <2>1. <<q, i>> \in Slots
    BY <1>4, SMTT(30)
  <2>2. ASSUME NEW slot \in Slots PROVE slot = <<q, i>>
    <3>1. PICK r \in Pid : slot \in {r} \X DOMAIN children[r]
      OBVIOUS
    <3>2. PICK j \in DOMAIN children[r] : slot = <<r, j>>
      BY <3>1
    <3>3. children[r][j] = c
      BY <3>2
    <3>4. r = q
      BY <1>1, <3>3 DEF Owns, Range
    <3> QED BY <1>5, <3>2, <3>3, <3>4
  <2> QED BY <2>1, <2>2
<1>7. Cardinality(Slots) = 1 /\ Cardinality(Queued) = 0
  BY <1>3, <1>6, FS_Singleton, FS_EmptySet, Zenon
<1>8. strong_count(c) = (IF c = INITPROC THEN 1 ELSE 0) + Cardinality(Queued)
                        + (IF c = current THEN 1 ELSE 0) + Cardinality(Slots)
                        + (IF c \in leaked THEN 1 ELSE 0)
  BY DEF strong_count
<1> HIDE DEF Slots, Queued
<1> QED BY <1>1, <1>2, <1>7, <1>8

(* Only a waitpid of the parent drops a TCB.                               *)
LEMMA NextDrops ==
  ASSUME IInv, [Next]_vars, NEW c \in Pid, c \in Live,
         task_status'[c] = "Dropped"
  PROVE  task_status[c] = "Zombie" /\ current = parent[c]
<1> USE DEF IInv
<1>1. CASE \/ UNCHANGED vars
           \/ \E p \in Pid, r \in {-1, -2} : returns(p, r)
  BY <1>1 DEF vars, returns, Live
<1>2. CASE run_tasks \/ \E p \in Pid : suspend_current_and_run_next(p)
  BY <1>2 DEF run_tasks, suspend_current_and_run_next, Live, TypeOK
<1>3. CASE \E p \in Pid : current = p /\ fork(p)
  BY <1>3 DEF fork, Live, TypeOK
<1>4. CASE \E p \in Pid \ {INITPROC} : \E abandoned \in SUBSET {p} :
             exit_current_and_run_next(p, abandoned)
  <2>1. PICK p \in Pid : task_status' = [task_status EXCEPT ![p] = "Zombie"]
    BY <1>4, ExitIInv
  <2> QED BY <2>1 DEF Live, TypeOK
<1>5. CASE \E p \in Pid, w \in BOOLEAN : \E i \in 1 .. Len(children[p]) :
             /\ current = p /\ task_status[children[p][i]] = "Zombie"
             /\ reap(p, i, w)
  <2> PICK p \in Pid, w \in BOOLEAN : \E i \in 1 .. Len(children[p]) :
             /\ current = p /\ task_status[children[p][i]] = "Zombie"
             /\ reap(p, i, w)
    BY <1>5
  <2>1. PICK i \in 1 .. Len(children[p]) :
               /\ current = p /\ task_status[children[p][i]] = "Zombie"
               /\ reap(p, i, w)
    OBVIOUS
  <2>2. children[p][i] \in Pid /\ parent[children[p][i]] = p
    BY <2>1, ReapIInv
  <2>3. \/ task_status' = task_status
        \/ task_status' = [task_status EXCEPT ![children[p][i]] = "Dropped"]
    BY <2>1, Zenon DEF reap
  <2>4. c = children[p][i]
    <3>1. task_status[c] # "Dropped"
      BY DEF Live
    <3>2. task_status \in [Pid -> {"Ready", "Running", "Zombie", "Dropped"}]
      BY DEF TypeOK
    <3>3. c \in Pid /\ task_status'[c] = "Dropped"
      OBVIOUS
    <3> QED BY ONLY <2>2, <2>3, <3>1, <3>2, <3>3
  <2> QED BY <2>1, <2>2, <2>4, Zenon
<1> QED BY <1>1, <1>2, <1>3, <1>4, <1>5, StepKinds, Zenon

(* A step that returns the pid of a child the caller already had takes     *)
(* that child, a zombie, out of the caller's vector.                       *)
LEMMA NextAnswers ==
  ASSUME IInv, [Next]_vars, vars' # vars, NEW q \in Pid, NEW c \in Pid,
         q = current, Owns(q, c), result' = c
  PROVE  task_status[c] = "Zombie" /\ ~Owns(q, c)'
<1> USE DEF IInv
<1>1. c # 0 /\ c \in Live /\ c # -1 /\ c # -2
  BY PidFacts, SMTT(30) DEF ProcessTree, Live, INITPROC, Pid
<1>2. ASSUME \/ run_tasks
             \/ \E p \in Pid, r \in {-1, -2} : returns(p, r)
             \/ \E p \in Pid \ {INITPROC} : \E abandoned \in SUBSET {p} :
                  exit_current_and_run_next(p, abandoned)
      PROVE  FALSE
  BY <1>1, <1>2, Zenon DEF run_tasks, returns, exit_current_and_run_next, no_answer, answers
<1>3. ASSUME NEW p \in Pid, fork(p) PROVE FALSE
  <2>1. result' = pid_alloc /\ PidAvailable
    BY <1>3 DEF fork, answers
  <2> QED BY <1>1, <2>1, PidAllocFresh
<1>4. ASSUME NEW p \in Pid, NEW w \in BOOLEAN, NEW i \in 1 .. Len(children[p]),
             current = p, task_status[children[p][i]] = "Zombie", reap(p, i, w)
      PROVE  task_status[c] = "Zombie" /\ ~Owns(q, c)'
  <2>1. p = q /\ c = children[p][i]
    BY <1>1, <1>4, Zenon DEF reap, answers
  <2>2. children[p] \in Seq(Pid) /\ IsInjective(children[p])
    BY ChildrenTyped, Zenon
  <2>3. children'[p] = remove(children[p], i)
    BY <1>4, ChildrenTyped, Zenon DEF reap
  <2>4. c \notin Range(children'[p])
    <3>1. i \in 1 .. Len(children[p])
      OBVIOUS
    <3>2. Range(remove(children[p], i)) = Range(children[p]) \ {children[p][i]}
      BY ONLY <2>2, <3>1, RemoveRange, Zenon
    <3> QED BY ONLY <2>1, <2>3, <3>2, Zenon
  <2>5. task_status[c] = "Zombie"
    BY <1>4, <2>1, Zenon
  <2> QED BY ONLY <2>1, <2>4, <2>5, Zenon DEF Owns
<1> QED BY <1>1, <1>2, <1>3, <1>4, StepKinds

-----------------------------------------------------------------------------
(* The theorems, for every value of MaxPid.                                *)

(* All variables keep their types: in particular pid_alloc never hands out *)
(* a pid beyond those counted by PidAllocator.current.                     *)
THEOREM TypeCorrect == Spec => []TypeOK
<1>1. IInv => TypeOK
  BY DEF IInv
<1> QED BY <1>1, Invariant, PTL

(* suspend, exit and run_tasks keep every process in exactly one place of  *)
(* the scheduler.                                                          *)
THEOREM SchedulerCorrect == Spec => []ScheduledOnce
<1>1. IInv => ScheduledOnce
  BY DEF IInv
<1> QED BY <1>1, Invariant, PTL

(* fork, exit and waitpid keep parents and children vectors consistent.    *)
THEOREM TreeCorrect == Spec => []ProcessTree
<1>1. IInv => ProcessTree
  BY DEF IInv
<1> QED BY <1>1, Invariant, PTL

(* PidAllocator neither loses a pid nor hands one out twice.               *)
THEOREM PidsCorrect == Spec => []PidsAccounted
<1>1. IInv => PidsAccounted
  BY DEF IInv
<1> QED BY <1>1, Invariant, PTL

(* The idle flow of Processor::run always finds a task.                    *)
THEOREM NeverIdle == Spec => []SomethingToRun
  BY InitprocRuns, Invariant, PTL

(* The assertion of sys_waitpid_non_blocking on the strong count holds.    *)
THEOREM AssertionHolds == Spec => []WaitpidAssertion
  BY ZombieCount, Invariant, PTL

(* Every process is a descendant of initproc.                              *)
THEOREM Rooted == Spec => []RootedAtInitproc
<1>1. Init => RootedAtInitproc
  <2>1. Init => Live \ {INITPROC} = {}
    BY DEF Init, Live
  <2> QED BY <2>1 DEF RootedAtInitproc
<1> QED BY <1>1, NextRooted, Invariant, PTL DEF Spec

(* A TCB is dropped only by a waitpid of its parent, after it exited.      *)
THEOREM DropsCorrect == Spec => DroppedByParentOnly
<1>1. IInv /\ [Next]_vars =>
        [\A c \in Pid : c \in Live /\ task_status'[c] = "Dropped" =>
           task_status[c] = "Zombie" /\ current = parent[c]]_vars
  BY NextDrops
<1> QED BY <1>1, Invariant, PTL DEF Spec, DroppedByParentOnly

(* waitpid reports the exit of a child once, after it exited.              *)
THEOREM AnswersOnce == Spec => WaitpidAnswers
<1>1. IInv /\ [Next]_vars =>
        [\A q, c \in Pid :
           q = current /\ Owns(q, c) /\ result' = c =>
             task_status[c] = "Zombie" /\ ~Owns(q, c)']_vars
  BY NextAnswers
<1> QED BY <1>1, Invariant, PTL DEF Spec, WaitpidAnswers

-----------------------------------------------------------------------------
(* Module Mail.                                                            *)

Box == [size : Nat, packets : Seq(Seq(Byte))]

(* A well-formed box: what MailTypeOK and SizeMatches say of each.         *)
BoxOK(box) ==
  /\ box \in Box
  /\ \A i \in DOMAIN box.packets : Len(box.packets[i]) \in 1 .. PACKET_BUFFER_SIZE
  /\ box.size = Len(box.packets)
  /\ box.size <= MAX_PACKET_NUM

(* The inductive invariant: that of the processes, and well-formed boxes.  *)
MailInv ==
  /\ IInv
  /\ mail_box \in [Pid -> Box]
  /\ \A p \in Pid : BoxOK(mail_box[p])

-----------------------------------------------------------------------------
(* The operations of MailBox.                                              *)

(* MailPacket::from_buffer cuts the message off at the packet buffer.      *)
LEMMA FromBuffer ==
  ASSUME NEW buf \in Messages
  PROVE  /\ from_buffer(buf) \in Seq(Byte)
         /\ Len(from_buffer(buf)) \in 0 .. PACKET_BUFFER_SIZE
<1> DEFINE n == IF Len(buf) < PACKET_BUFFER_SIZE THEN Len(buf)
                ELSE PACKET_BUFFER_SIZE
<1>1. /\ buf \in Seq(Byte) /\ Len(buf) \in Nat
      /\ \A i \in 1 .. Len(buf) : buf[i] \in Byte
  BY MailAssumption, SeqFacts
<1>2. n \in 0 .. PACKET_BUFFER_SIZE /\ n <= Len(buf)
  BY <1>1, MailAssumption
<1>3. from_buffer(buf) = SubSeq(buf, 1, n)
  BY DEF from_buffer
<1> HIDE DEF n
<1>4. \A i \in 1 .. n : buf[i] \in Byte
  BY <1>1, <1>2
<1>5. /\ SubSeq(buf, 1, n) \in Seq(Byte)
      /\ Len(SubSeq(buf, 1, n)) = n
  BY <1>1, <1>2, <1>4, SubSeqFacts, MailAssumption, SMTT(30)
<1> QED BY <1>2, <1>3, <1>5, MailAssumption

LEMMA EmptyBoxOK == BoxOK(empty_box)
  BY MailAssumption, EmptySeqFacts DEF BoxOK, Box, empty_box

(* MailBox::write either leaves the box alone or adds one packet at the    *)
(* end, within the capacity.                                               *)
LEMMA WriteOK ==
  ASSUME NEW box, BoxOK(box), NEW buf \in Messages
  PROVE  /\ BoxOK(write(box, buf))
         /\ \/ write(box, buf) = box
            \/ write(box, buf).packets = Append(box.packets, from_buffer(buf))
<1> DEFINE pk == from_buffer(buf)
           new == Append(box.packets, pk)
<1>1. pk \in Seq(Byte) /\ Len(pk) \in 0 .. PACKET_BUFFER_SIZE
  BY FromBuffer
<1>2. CASE is_full(box) \/ Len(pk) = 0
  BY <1>2 DEF write
<1>3. CASE ~ (is_full(box) \/ Len(pk) = 0)
  <2>1. write(box, buf) = [size |-> box.size + 1, packets |-> new]
    BY <1>3 DEF write, push
  <2> HIDE DEF pk
  <2>2. box.packets \in Seq(Seq(Byte)) /\ box.size \in Nat
    BY DEF BoxOK, Box
  <2>3. /\ new \in Seq(Seq(Byte)) /\ Len(new) = Len(box.packets) + 1
        /\ \A i \in 1 .. Len(box.packets) : new[i] = box.packets[i]
        /\ new[Len(box.packets) + 1] = pk
    BY <1>1, <2>2
  <2>4. /\ DOMAIN new = 1 .. Len(box.packets) + 1
        /\ DOMAIN box.packets = 1 .. Len(box.packets) /\ Len(box.packets) \in Nat
    BY <2>2, <2>3, SeqFacts
  <2>5. Len(pk) \in 1 .. PACKET_BUFFER_SIZE
    BY <1>1, <1>3, MailAssumption
  <2> HIDE DEF new
  <2>6. ASSUME NEW i \in DOMAIN new PROVE Len(new[i]) \in 1 .. PACKET_BUFFER_SIZE
    <3>1. CASE i = Len(box.packets) + 1
      BY <2>3, <2>5, <3>1
    <3>2. CASE i \in 1 .. Len(box.packets)
      BY <2>3, <2>4, <3>2, Zenon DEF BoxOK
    <3> QED BY <2>4, <3>1, <3>2
  <2>7. box.size = Len(box.packets) /\ box.size < MAX_PACKET_NUM
    BY <1>3, <2>2, MailAssumption DEF BoxOK, is_full
  <2>8. box.size + 1 = Len(new) /\ box.size + 1 <= MAX_PACKET_NUM
    BY <2>2, <2>3, <2>7, MailAssumption
  <2>9. BoxOK([size |-> box.size + 1, packets |-> new])
    BY <2>2, <2>3, <2>6, <2>8, SMTT(30) DEF BoxOK, Box
  <2> QED BY <2>1, <2>9 DEF new, pk
<1> QED BY <1>2, <1>3

(* MailBox::read either leaves the box alone or takes its oldest packet.   *)
LEMMA ReadOK ==
  ASSUME NEW box, BoxOK(box), NEW len \in ReadLens
  PROVE  /\ BoxOK(read(box, len))
         /\ \/ read(box, len) = box
            \/ /\ box.packets # <<>>
               /\ read(box, len).packets = Tail(box.packets)
<1> DEFINE new == Tail(box.packets)
<1>1. CASE box.size = 0 \/ len = 0
  BY <1>1 DEF read
<1>2. CASE ~ (box.size = 0 \/ len = 0)
  <2>1. read(box, len) = [size |-> box.size - 1, packets |-> new]
    BY <1>2 DEF read
  <2>2. /\ box.packets \in Seq(Seq(Byte)) /\ box.size \in Nat \ {0}
        /\ box.size = Len(box.packets) /\ box.packets # <<>>
    BY <1>2, SeqFacts DEF BoxOK, Box
  <2>3. /\ new \in Seq(Seq(Byte)) /\ Len(new) = Len(box.packets) - 1
        /\ \A i \in 1 .. Len(new) : new[i] = box.packets[i + 1]
    BY <2>2
  <2>4. /\ DOMAIN new = 1 .. Len(box.packets) - 1
        /\ DOMAIN box.packets = 1 .. Len(box.packets) /\ Len(box.packets) \in Nat
    BY <2>2, <2>3, SeqFacts
  <2> HIDE DEF new
  <2>5. ASSUME NEW i \in DOMAIN new PROVE Len(new[i]) \in 1 .. PACKET_BUFFER_SIZE
    <3> DEFINE n == Len(box.packets)
    <3>1. n \in Nat /\ i \in 1 .. n - 1 /\ i \in 1 .. Len(new)
      BY <2>3, <2>4
    <3>2. i + 1 \in 1 .. n
      <4> HIDE DEF n
      <4> QED BY <3>1
    <3>3. i + 1 \in DOMAIN box.packets /\ new[i] = box.packets[i + 1]
      BY <2>3, <2>4, <3>1, <3>2
    <3> QED BY <3>3 DEF BoxOK
  <2>6. /\ box.size - 1 \in Nat /\ box.size - 1 = Len(new)
        /\ box.size - 1 <= MAX_PACKET_NUM
    BY <2>2, <2>3, MailAssumption DEF BoxOK
  <2>7. BoxOK([size |-> box.size - 1, packets |-> new])
    BY <2>3, <2>5, <2>6 DEF BoxOK, Box
  <2> QED BY <2>1, <2>2, <2>7 DEF new
<1> QED BY <1>1, <1>2

(* A forked child gets a box as good as its parent's.                      *)
LEMMA InheritedOK ==
  ASSUME NEW box, BoxOK(box) PROVE BoxOK(inherited(box))
<1>2. box = [size |-> Len(box.packets), packets |-> box.packets]
  <2>1. box \in Box /\ box.size = Len(box.packets)
    BY DEF BoxOK
  <2> QED BY ONLY <2>1 DEF Box
<1>3. inherited(box) = box
  BY ONLY <1>2, SMTT(20) DEF inherited
<1> QED BY <1>3, Zenon

-----------------------------------------------------------------------------
(* The inductive invariant.                                                *)

(* A TCB only comes into being in a fork of the running process.           *)
LEMMA NewTcb ==
  ASSUME IInv, [Next]_vars, NEW c \in Pid, task_status[c] = "Dropped",
         task_status'[c] # "Dropped"
  PROVE  current \in Pid
<1> USE DEF IInv
<1>1. CASE \/ UNCHANGED vars
           \/ \E p \in Pid, r \in {-1, -2} : returns(p, r)
  BY <1>1 DEF vars, returns
<1>2. CASE run_tasks
  <2>1. Head(ready_queue) \in Range(ready_queue)
    BY <1>2, TailRange DEF run_tasks, TypeOK, ScheduledOnce
  <2>2. task_status[Head(ready_queue)] = "Ready"
    BY <2>1 DEF ScheduledOnce
  <2> QED BY <1>2, <2>2 DEF run_tasks, TypeOK
<1>3. CASE \/ \E p \in Pid : suspend_current_and_run_next(p)
           \/ \E p \in Pid : current = p /\ fork(p)
           \/ \E p \in Pid \ {INITPROC} : \E abandoned \in SUBSET {p} :
                exit_current_and_run_next(p, abandoned)
           \/ \E p \in Pid, w \in BOOLEAN : \E i \in 1 .. Len(children[p]) :
                /\ current = p /\ task_status[children[p][i]] = "Zombie"
                /\ reap(p, i, w)
  BY <1>3, Zenon DEF suspend_current_and_run_next, exit_current_and_run_next
<1> QED BY <1>1, <1>2, <1>3, StepKinds

(* Every step of the composition is a step of the processes or leaves them *)
(* alone.                                                                  *)
LEMMA MailStep == [MailNext]_mail_vars => [Next]_vars
  BY DEF MailNext, mail_vars, task_step, sys_mail_write, sys_mail_read

LEMMA InitMail == MailInit => MailInv
<1> SUFFICES ASSUME MailInit PROVE MailInv
  OBVIOUS
<1>1. IInv
  BY InitIInv DEF MailInit
<1>2. mail_box = [p \in Pid |-> empty_box]
  BY DEF MailInit
<1>3. \A p \in Pid : BoxOK(mail_box[p])
  BY <1>2, EmptyBoxOK
<1> QED BY <1>1, <1>2, <1>3 DEF MailInv, BoxOK

LEMMA NextMail == MailInv /\ [MailNext]_mail_vars => MailInv'
<1> SUFFICES ASSUME MailInv, [MailNext]_mail_vars PROVE MailInv'
  OBVIOUS
<1>1. IInv'
  BY MailStep, NextIInv DEF MailInv
<1>2. /\ mail_box \in [Pid -> Box]
      /\ \A p \in Pid : BoxOK(mail_box[p])
  BY DEF MailInv
<1> DEFINE Good == mail_box' \in [Pid -> Box] /\ \A p \in Pid : BoxOK(mail_box'[p])
<1>3. ASSUME task_step PROVE Good
  <2> DEFINE b(p) == IF task_status'[p] = "Dropped" THEN empty_box
                     ELSE IF task_status[p] = "Dropped"
                          THEN inherited(mail_box[current])
                     ELSE mail_box[p]
  <2>1. mail_box' = [p \in Pid |-> b(p)]
    BY <1>3 DEF task_step
  <2>2. ASSUME NEW p \in Pid PROVE BoxOK(b(p))
    <3>1. CASE task_status'[p] = "Dropped"
      BY <3>1, EmptyBoxOK
    <3>2. CASE task_status'[p] # "Dropped" /\ task_status[p] = "Dropped"
      <4>1. current \in Pid
        BY <3>2, MailStep, NewTcb DEF MailInv
      <4> QED BY <1>2, <3>2, <4>1, InheritedOK
    <3>3. CASE task_status'[p] # "Dropped" /\ task_status[p] # "Dropped"
      BY <1>2, <3>3
    <3> QED BY <3>1, <3>2, <3>3
  <2> HIDE DEF b
  <2> QED BY <2>1, <2>2 DEF BoxOK
<1>4. ASSUME NEW p \in Pid, NEW q \in Pid, NEW buf \in Messages,
             sys_mail_write(p, q, buf)
      PROVE  Good
  <2>1. mail_box' = [mail_box EXCEPT ![q] = write(mail_box[q], buf)]
    BY <1>4 DEF sys_mail_write
  <2>2. BoxOK(write(mail_box[q], buf))
    BY <1>2, WriteOK
  <2> QED BY <1>2, <2>1, <2>2 DEF BoxOK
<1>5. ASSUME NEW p \in Pid, NEW len \in ReadLens, sys_mail_read(p, len)
      PROVE  Good
  <2>1. mail_box' = [mail_box EXCEPT ![p] = read(mail_box[p], len)]
    BY <1>5 DEF sys_mail_read
  <2>2. BoxOK(read(mail_box[p], len))
    BY <1>2, ReadOK
  <2> QED BY <1>2, <2>1, <2>2 DEF BoxOK
<1>6. ASSUME UNCHANGED mail_vars PROVE Good
  BY <1>2, <1>6 DEF mail_vars
<1>7. Good
  <2> HIDE DEF Good
  <2> QED BY <1>3, <1>4, <1>5, <1>6 DEF MailNext
<1> QED BY <1>1, <1>7 DEF MailInv, BoxOK, Box

(* The inductive invariant holds throughout.                               *)
THEOREM MailInvariant == MailSpec => []MailInv
  BY InitMail, NextMail, PTL DEF MailSpec

-----------------------------------------------------------------------------
(* The theorems, for every value of the constants.                         *)

(* With mail, processes behave as module Task says: all theorems about     *)
(* them carry over.                                                        *)
THEOREM MailRefinesTask == MailSpec => Spec
<1>1. MailInit => Init
  BY DEF MailInit
<1> QED BY <1>1, MailStep, PTL DEF MailSpec, Spec

(* Packets are never empty and never longer than the packet buffer.        *)
THEOREM MailTypeCorrect == MailSpec => []MailTypeOK
<1>1. MailInv => MailTypeOK
  BY DEF MailInv, MailTypeOK, IInv, BoxOK, Box
<1> QED BY <1>1, MailInvariant, PTL

(* The counter of a box agrees with its queue and its capacity.            *)
THEOREM SizesCorrect == MailSpec => []SizeMatches
<1>1. MailInv => SizeMatches
  BY DEF MailInv, SizeMatches, BoxOK
<1> QED BY <1>1, MailInvariant, PTL

(* A process that has not exited is found by the running one: it is that   *)
(* process itself or is in the ready queue.                                *)
LEMMA ReachableIffExists ==
  ASSUME IInv, NEW p \in Pid, NEW q \in Pid, current = p
  PROVE  reachable(p, q) <=> Exists(q)
<1> USE DEF IInv
<1>1. q = p <=> task_status[q] = "Running"
  BY PidFacts DEF ScheduledOnce
<1>2. q \in Range(ready_queue) <=> task_status[q] = "Ready"
  BY DEF ScheduledOnce
<1> QED BY <1>1, <1>2 DEF reachable, Exists

(* The mail calls tell their caller the truth: set_task_mail, which only   *)
(* searches the ready queue, misses no process that has not exited.        *)
THEOREM AnswersCorrect == MailSpec => []AnswersTruthful
<1>1. ASSUME MailInv PROVE AnswersTruthful
  <2> SUFFICES ASSUME NEW p \in Pid, NEW q \in Pid, current = p, Exists(q)
               PROVE  /\ \A buf \in Messages :
                           mail_write_result(p, q, buf) = -1
                             <=> Len(mail_box[q].packets) = MAX_PACKET_NUM
                      /\ \A len \in ReadLens :
                           read_result(mail_box[p], len) = -1
                             <=> mail_box[p].packets = <<>>
    BY DEF AnswersTruthful
  <2>1. reachable(p, q)
    BY <1>1, ReachableIffExists DEF MailInv
  <2>2. BoxOK(mail_box[p]) /\ BoxOK(mail_box[q])
    BY <1>1 DEF MailInv
  <2>3. ASSUME NEW buf \in Messages
        PROVE  mail_write_result(p, q, buf) = -1
                 <=> Len(mail_box[q].packets) = MAX_PACKET_NUM
    <3>1. Len(from_buffer(buf)) \in Nat
      BY FromBuffer, MailAssumption
    <3>2. /\ mail_box[q].size \in Nat /\ mail_box[q].size <= MAX_PACKET_NUM
          /\ mail_box[q].size = Len(mail_box[q].packets)
      BY <2>2 DEF BoxOK, Box
    <3>3. is_full(mail_box[q]) <=> Len(mail_box[q].packets) = MAX_PACKET_NUM
      BY <3>2, MailAssumption DEF is_full
    <3>4. mail_write_result(p, q, buf)
            = IF is_full(mail_box[q]) THEN -1 ELSE Len(from_buffer(buf))
      BY <2>1 DEF mail_write_result, write_result
    <3> QED BY <3>1, <3>3, <3>4
  <2>4. ASSUME NEW len \in ReadLens
        PROVE  read_result(mail_box[p], len) = -1
                 <=> mail_box[p].packets = <<>>
    <3> DEFINE box == mail_box[p]
    <3>1. /\ box.packets \in Seq(Seq(Byte)) /\ box.size = Len(box.packets)
          /\ len \in Nat
      BY <2>2, MailAssumption DEF BoxOK, Box
    <3>2. box.size = 0 <=> box.packets = <<>>
      BY <3>1, SeqFacts
    <3>3. CASE box.size = 0
      BY <3>2, <3>3 DEF read_result
    <3>4. CASE box.size # 0
      <4>1. Head(box.packets) \in Seq(Byte)
        BY <3>1, <3>2, <3>4
      <4>2. Len(Head(box.packets)) \in Nat
        BY <4>1, SeqFacts
      <4> QED BY <3>1, <3>2, <3>4, <4>2 DEF read_result
    <3> QED BY <3>3, <3>4
  <2> QED BY <2>3, <2>4
<1> QED BY <1>1, MailInvariant, PTL

(* Boxes are FIFO queues of their process.                                 *)
THEOREM FifoCorrect == MailSpec => MailFifo
<1>1. ASSUME MailInv, [MailNext]_mail_vars, NEW q \in Pid, q \in Live, q \in Live'
      PROVE  FifoStep(q)
  <2>1. mail_box \in [Pid -> Box] /\ \A p \in Pid : BoxOK(mail_box[p])
    BY <1>1 DEF MailInv
  <2>2. CASE task_step
    BY <1>1, <2>2 DEF task_step, Live, FifoStep
  <2>3. ASSUME NEW p \in Pid, NEW r \in Pid, NEW buf \in Messages,
               sys_mail_write(p, r, buf)
        PROVE  FifoStep(q)
    <3>1. /\ mail_box' = [mail_box EXCEPT ![r] = write(mail_box[r], buf)]
          /\ current = p /\ reachable(p, r)
      BY <2>3 DEF sys_mail_write
    <3>2. CASE r # q
      BY <2>1, <3>1, <3>2 DEF FifoStep
    <3>3. CASE r = q
      <4>1. Exists(q) /\ current # None
        BY <1>1, <3>1, <3>3, ReachableIffExists, PidFacts DEF MailInv
      <4>2. mail_box'[q] = write(mail_box[q], buf)
        BY <2>1, <3>1, <3>3
      <4> QED BY <2>1, <4>1, <4>2, WriteOK DEF FifoStep
    <3> QED BY <3>2, <3>3
  <2>4. ASSUME NEW p \in Pid, NEW len \in ReadLens, sys_mail_read(p, len)
        PROVE  FifoStep(q)
    <3>1. /\ mail_box' = [mail_box EXCEPT ![p] = read(mail_box[p], len)]
          /\ current = p
      BY <2>4, SMTT(20) DEF sys_mail_read
    <3>2. CASE p # q
      BY <2>1, <3>1, <3>2, SMTT(20) DEF FifoStep
    <3>3. CASE p = q
      <4>1. mail_box'[q] = read(mail_box[q], len)
        BY <2>1, <3>1, <3>3
      <4> QED BY <2>1, <3>1, <3>3, <4>1, ReadOK DEF FifoStep
    <3> QED BY <3>2, <3>3
  <2>5. CASE UNCHANGED mail_vars
    BY <2>5 DEF mail_vars, FifoStep
  <2> QED BY <1>1, <2>2, <2>3, <2>4, <2>5 DEF MailNext
<1>2. MailInv /\ [MailNext]_mail_vars =>
        [\A q \in Pid : q \in Live /\ q \in Live' => FifoStep(q)]_mail_vars
  BY <1>1
<1> QED BY <1>2, MailInvariant, PTL DEF MailSpec, MailFifo
=============================================================================
