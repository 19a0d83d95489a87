------------------------------ MODULE AscopeProofs ------------------------------
(***************************************************************************)
(* The batch service and the rollout of A-SCOPE.                           *)
(*                                                                         *)
(* AscopeBatch for any stocks, server threads, processes and restarts: its *)
(* types, one process per life of the service, and what COMPLETED means.   *)
(* A process of the present life belongs to the job's thread until it has  *)
(* exited (Own); before the first restart it is therefore the only one,    *)
(* and its copy of the rows is the checkpoint (Same).  What the exit code  *)
(* says of the rows is then true of the checkpoint (Earned), and stays so. *)
(*                                                                         *)
(* Rollout for any number of batches, runs and results recorded again: the *)
(* phase alone does not tell what may still arrive, so the invariant       *)
(* relates it to the runs in flight and to the results already recorded,   *)
(* any of which may come again: before the gates nothing has arrived that  *)
(* could open them (Start, Smoke), the first batch has one result only     *)
(* (First), and every run of another batch proves that the first has       *)
(* passed (Later).                                                         *)
(***************************************************************************)
EXTENDS AscopeBatch, Rollout, FiniteSetTheorems, WellFoundedInduction, TLAPS

RunPcs == {"none", "begin", "mark", "spawn", "register", "pid", "wait", "finish", "pop"}
CallPcs == {"idle", "create", "cancel", "signal", "resume", "start"}
ProcStates == [pc : {"new", "load", "work", "done", "exited"}, rows : Rows,
               code : {"none", "0", "1", "2", "signal"}, life : Nat]

Lives == \A p \in Procs : procs[p].life <= crashes

Own ==
  /\ run.pc \in {"register", "pid", "wait"} => run.proc \in Procs
  /\ \A p \in Procs : Alive(p) /\ procs[p].life = crashes =>
       run.proc = p /\ run.pc \in {"register", "pid", "wait"}

Processes == TypeOK /\ Lives /\ Own /\ OneProcessPerLife

AllDone == \A s \in Stocks : checkpoint[s] = "success"

Same == crashes = 0 => \A p \in Procs : procs[p].pc \in {"work", "done"} => procs[p].rows = checkpoint

Earned ==
  crashes = 0 =>
    /\ \A p \in Procs : procs[p].code = "0" => AllDone
    /\ run.st.status = "COMPLETED" => AllDone

Asking == \A c \in Callers : call[c].st.status # "COMPLETED"

IInv == Processes /\ Same /\ Earned /\ Asking /\ CompletedMeansDone

----------------------------------------------------------------------------
(* Types *)

\* The initial state has the types (AscopeBatchManager.__init__).
LEMMA TypeInit == Init => TypeOK
<1> SUFFICES ASSUME Init PROVE TypeOK
  OBVIOUS
<1>1. NoJob \in JobStates /\ NoRows \in Rows
  BY DEF NoJob, JobStates, NoRows, Rows
<1>2. job \in JobStates /\ registered \in Procs \cup {0} /\ checkpoint \in Rows
  BY <1>1 DEF Init
<1>3. run \in [pc : RunPcs, st : JobStates, proc : Procs \cup {0}]
  BY <1>1 DEF Init, NoRun, RunPcs
<1>4. call \in [Callers -> [pc : CallPcs, st : JobStates]]
  BY <1>1 DEF Init, NoCall, CallPcs
<1>5. procs \in [Procs -> ProcStates]
  BY <1>1 DEF Init, ProcStates
<1>6. asked \in BOOLEAN /\ boot \in BOOLEAN /\ crashes \in Nat
  BY DEF Init
<1> QED BY <1>2, <1>3, <1>4, <1>5, <1>6 DEF TypeOK, RunPcs, CallPcs, ProcStates

\* One process gets a new state: the others keep theirs (procs of a batch job).
LEMMA OneProcessChanges ==
  ASSUME procs \in [Procs -> ProcStates], NEW p \in Procs, NEW r \in ProcStates,
         procs' = [procs EXCEPT ![p] = r]
  PROVE  /\ procs' \in [Procs -> ProcStates]
         /\ procs'[p] = r
         /\ \A q \in Procs : q # p => procs'[q] = procs[q]
OBVIOUS

\* A process is stopped by a signal or exits by itself: one process changes.
LEMMA ExitChanges ==
  ASSUME procs \in [Procs -> ProcStates], NEW p \in Procs, NEW k \in {"0", "1", "2", "signal"},
         procs' = [procs EXCEPT ![p].pc = "exited", ![p].code = k]
  PROVE  /\ procs' \in [Procs -> ProcStates]
         /\ procs'[p] = [procs[p] EXCEPT !.pc = "exited", !.code = k]
         /\ \A q \in Procs : q # p => procs'[q] = procs[q]
<1> DEFINE r == [procs[p] EXCEPT !.pc = "exited", !.code = k]
<1>1. r \in ProcStates
  BY DEF ProcStates
<1>2. procs' = [procs EXCEPT ![p] = r]
  BY DEF ProcStates
<1> QED BY <1>1, <1>2, OneProcessChanges

\* Requests on server threads keep the types.
LEMMA TypeRequests ==
  ASSUME TypeOK, NEW c \in Callers, Request(c) \/ Answer(c)
  PROVE  TypeOK'
<1> USE DEF TypeOK, JobStates, ActiveStatuses, TERMINAL_STATUSES, Goto, disk, NoJob, NoRun
<1>1. CASE Create(c)
  BY <1>1 DEF Create
<1>2. CASE CancelRead(c)
  BY <1>2 DEF CancelRead
<1>3. CASE ResumeRead(c)
  BY <1>3 DEF ResumeRead
<1>4. CASE CancelWrite(c)
  BY <1>4 DEF CancelWrite
<1>5. CASE CancelSignal(c)
  <2>1. CASE registered # 0 /\ Alive(registered)
    <3>1. registered \in Procs /\ procs \in [Procs -> ProcStates]
      BY <2>1 DEF ProcStates
    <3>2. procs' = [procs EXCEPT ![registered].pc = "exited", ![registered].code = "signal"]
      BY <1>5, <2>1 DEF CancelSignal
    <3>3. procs' \in [Procs -> ProcStates]
      BY <3>1, <3>2, ExitChanges
    <3> QED BY <1>5, <3>3 DEF CancelSignal, ProcStates
  <2>2. CASE ~(registered # 0 /\ Alive(registered))
    BY <1>5, <2>2 DEF CancelSignal
  <2> QED BY <2>1, <2>2
<1>6. CASE PendingWrite(c)
  <2>1. call[c].st \in JobStates /\ job' = call[c].st
    BY <1>6 DEF PendingWrite
  <2>2. PICK w : w = [pc |-> "start", st |-> call[c].st]
    OBVIOUS
  <2>3. w \in [pc : CallPcs, st : JobStates]
    BY ONLY <2>1, <2>2 DEF CallPcs
  <2>4. call \in [Callers -> [pc : CallPcs, st : JobStates]] /\ call' = [call EXCEPT ![c] = w]
    BY <1>6, <2>2 DEF PendingWrite, CallPcs
  <2>5. call' \in [Callers -> [pc : CallPcs, st : JobStates]]
    BY ONLY <2>3, <2>4
  <2>6. asked' \in BOOLEAN /\ UNCHANGED <<checkpoint, run, registered, procs, boot, crashes>>
    BY <1>6 DEF PendingWrite
  <2> HIDE DEF JobStates, NoJob, NoRun
  <2> QED BY <2>1, <2>5, <2>6 DEF CallPcs
<1>7. CASE StartThread(c)
  <2>1. call' \in [Callers -> [pc : CallPcs, st : JobStates]]
    BY <1>7 DEF StartThread, CallPcs
  <2>2. run' = [pc |-> "begin", st |-> NoJob, proc |-> 0] \/ run' = run
    BY <1>7 DEF StartThread
  <2>3. run' \in [pc : RunPcs, st : JobStates, proc : Procs \cup {0}]
    <3>1. NoJob \in JobStates /\ run \in [pc : RunPcs, st : JobStates, proc : Procs \cup {0}]
      BY DEF RunPcs
    <3> HIDE DEF NoJob, JobStates, TypeOK
    <3> QED BY <2>2, <3>1 DEF RunPcs
  <2> QED BY <1>7, <2>1, <2>3 DEF StartThread, CallPcs, RunPcs
<1> QED BY <1>1, <1>2, <1>3, <1>4, <1>5, <1>6, <1>7 DEF Request, Answer

\* The job's thread keeps the types.
LEMMA TypeThread == TypeOK /\ Thread => TypeOK'
<1> SUFFICES ASSUME TypeOK, Thread PROVE TypeOK'
  OBVIOUS
<1> USE DEF TypeOK, JobStates, ActiveStatuses, TERMINAL_STATUSES, disk, NoJob, NoRun
<1>1. CASE RunRead
  BY <1>1 DEF RunRead
<1>2. CASE RunWrite
  BY <1>2 DEF RunWrite
<1>3. CASE Spawn
  <2>1. ASSUME NEW p \in Procs,
               procs' = [procs EXCEPT ![p].pc = "load", ![p].life = crashes],
               run' = [run EXCEPT !.pc = "register", !.proc = p]
        PROVE  TypeOK'
    <3> DEFINE r == [procs[p] EXCEPT !.pc = "load", !.life = crashes]
    <3>1. procs \in [Procs -> ProcStates]
      BY DEF ProcStates
    <3>2. procs[p] \in ProcStates /\ crashes \in Nat
      BY <3>1
    <3>3. r \in ProcStates
      BY ONLY <3>2 DEF ProcStates
    <3>4. procs' = [procs EXCEPT ![p] = r]
      BY <2>1
    <3>5. procs' \in [Procs -> ProcStates]
      BY ONLY <3>1, <3>3, <3>4, <2>1, OneProcessChanges
    <3> QED BY <1>3, <2>1, <3>5 DEF Spawn, ProcStates
  <2>2. CASE run' = [run EXCEPT !.pc = "finish", !.st = [job EXCEPT !.status = "FAILED_TERMINAL"]]
             /\ UNCHANGED procs
    BY <1>3, <2>2 DEF Spawn
  <2> QED BY <1>3, <2>1, <2>2 DEF Spawn
<1>4. CASE Register
  BY <1>4 DEF Register
<1>5. CASE RunEnded
  BY <1>5 DEF RunEnded, FinalStatus
<1>6. CASE RunFinish
  BY <1>6 DEF RunFinish
<1>7. CASE RunPop
  BY <1>7 DEF RunPop
<1> QED BY <1>1, <1>2, <1>3, <1>4, <1>5, <1>6, <1>7 DEF Thread

\* The processes keep the types.
LEMMA TypeProcess ==
  ASSUME TypeOK, NEW p \in Procs, Process(p)
  PROVE  TypeOK'
<1> USE DEF TypeOK, disk, mem
<1>0. procs \in [Procs -> ProcStates] /\ procs[p].rows \in Rows
  BY DEF ProcStates
<1>1. CASE Load(p)
  <2> DEFINE r == [procs[p] EXCEPT !.pc = "work", !.rows = checkpoint]
  <2>1. r \in ProcStates /\ procs' = [procs EXCEPT ![p] = r]
    BY <1>0, <1>1 DEF Load, ProcStates
  <2>2. procs' \in [Procs -> ProcStates]
    BY <1>0, <2>1, OneProcessChanges
  <2> QED BY <1>1, <2>2 DEF Load, ProcStates
<1>2. ASSUME NEW s \in Stocks, Settle(p, s) PROVE TypeOK'
  <2>1. PICK o \in {"open", "success", "failure"} : procs' = [procs EXCEPT ![p].rows[s] = o]
    BY <1>2 DEF Settle
  <2> DEFINE w == [procs[p].rows EXCEPT ![s] = o]
  <2> DEFINE r == [procs[p] EXCEPT !.rows = w]
  <2>2. w \in Rows
    BY <1>0, <2>1 DEF Rows
  <2>3. r \in ProcStates /\ procs' = [procs EXCEPT ![p] = r]
    BY <1>0, <2>1, <2>2 DEF ProcStates
  <2>4. procs' \in [Procs -> ProcStates] /\ procs'[p] = r
    BY <1>0, <2>3, OneProcessChanges
  <2>5. checkpoint' \in Rows
    BY <1>2, <2>4 DEF Settle, ProcStates
  <2> QED BY <1>2, <2>4, <2>5 DEF Settle, ProcStates
<1>3. CASE Conclude(p)
  <2> DEFINE r == [procs[p] EXCEPT !.pc = "done"]
  <2>1. r \in ProcStates /\ procs' = [procs EXCEPT ![p] = r]
    BY <1>0, <1>3 DEF Conclude, ProcStates
  <2>2. procs' \in [Procs -> ProcStates]
    BY <1>0, <2>1, OneProcessChanges
  <2> QED BY <1>0, <1>3, <2>2 DEF Conclude, ProcStates
<1>4. CASE ExitProc(p)
  <2>1. PICK code \in {"0", "1", "2"} : procs' = [procs EXCEPT ![p].pc = "exited", ![p].code = code]
    BY <1>4 DEF ExitProc, ExitCode
  <2>3. procs' \in [Procs -> ProcStates]
    BY <1>0, <2>1, ExitChanges
  <2> QED BY <1>4, <2>3 DEF ExitProc, ProcStates
<1> QED BY <1>1, <1>2, <1>3, <1>4 DEF Process

\* So does every step.
LEMMA TypeStep == TypeOK /\ [Next]_vars => TypeOK'
<1> SUFFICES ASSUME TypeOK, [Next]_vars PROVE TypeOK'
  OBVIOUS
<1>1. CASE Crash
  BY <1>1 DEF TypeOK, Crash, NoRun, NoCall, NoJob, JobStates, disk
<1>2. CASE Recover
  <2>1. job \in JobStates
    BY DEF TypeOK
  <2>2. [job EXCEPT !.status = "FAILED_RECOVERABLE"] \in JobStates
    BY ONLY <2>1 DEF JobStates, ActiveStatuses, TERMINAL_STATUSES
  <2>3. job' \in JobStates
    BY <1>2, <2>1, <2>2 DEF Recover
  <2> QED BY <1>2, <2>3 DEF TypeOK, Recover, mem
<1>3. CASE UNCHANGED vars
  BY <1>3 DEF TypeOK, vars
<1> QED BY <1>1, <1>2, <1>3, TypeRequests, TypeThread, TypeProcess DEF Next

\* The variables of the batch service keep their types (api/ascope_batches.py).
THEOREM TypeInvariant == Spec => []TypeOK
BY TypeInit, TypeStep, PTL DEF Spec

----------------------------------------------------------------------------
(* One process at a time in a life of the service *)

\* What Own and Lives promise is kept while nothing that they speak of changes,
\* or changes only by a process that is no longer alive (any handler that leaves
\* the thread where it is).
LEMMA ProcessesKept ==
  ASSUME Processes, TypeOK', run' = run, crashes' = crashes,
         \A q \in Procs : procs'[q].life = procs[q].life /\ (Alive(q)' => Alive(q))
  PROVE  Processes'
BY DEF Processes, Lives, Own, OneProcessPerLife

\* The same when the thread moves on with its process.
LEMMA ProcessesKeptByThread ==
  ASSUME Processes, TypeOK', UNCHANGED <<procs, crashes>>, run'.proc = run.proc,
         run.pc \in {"register", "pid", "wait"} <=> run'.pc \in {"register", "pid", "wait"}
  PROVE  Processes'
BY DEF Processes, Lives, Own, OneProcessPerLife, Alive

\* Requests keep it: a thread is only started when there is none (_start).
LEMMA ProcessesRequests ==
  ASSUME Processes, NEW c \in Callers, Request(c) \/ Answer(c)
  PROVE  Processes'
<1>1. TypeOK /\ TypeOK'
  BY TypeRequests DEF Processes
<1>2. CASE Create(c) \/ CancelRead(c) \/ ResumeRead(c) \/ CancelWrite(c) \/ PendingWrite(c)
  BY <1>1, <1>2, ProcessesKept DEF Create, CancelRead, ResumeRead, CancelWrite, PendingWrite, Alive
<1>3. CASE CancelSignal(c)
  <2>1. CASE registered # 0 /\ Alive(registered)
    <3>1. registered \in Procs /\ procs \in [Procs -> ProcStates]
      BY <1>1, <2>1 DEF TypeOK, ProcStates
    <3>2. procs' = [procs EXCEPT ![registered].pc = "exited", ![registered].code = "signal"]
      BY <1>3, <2>1 DEF CancelSignal
    <3>3. /\ procs'[registered] = [procs[registered] EXCEPT !.pc = "exited", !.code = "signal"]
          /\ \A q \in Procs : q # registered => procs'[q] = procs[q]
      BY <3>1, <3>2, ExitChanges
    <3>4. procs'[registered].life = procs[registered].life /\ ~Alive(registered)'
      BY <1>3, <3>1, <3>3 DEF ProcStates, Alive, CancelSignal
    <3> QED BY <1>1, <1>3, <3>3, <3>4, ProcessesKept DEF CancelSignal, Alive
  <2>2. CASE ~(registered # 0 /\ Alive(registered))
    BY <1>1, <1>3, <2>2, ProcessesKept DEF CancelSignal, Alive
  <2> QED BY <2>1, <2>2
<1>4. CASE StartThread(c)
  <2>1. CASE run.pc = "none"
    <3>1. run'.pc = "begin" /\ UNCHANGED <<procs, crashes>>
      BY <1>4, <2>1 DEF StartThread, NoRun
    <3> QED BY <1>1, <2>1, <3>1 DEF Processes, Lives, Own, OneProcessPerLife, Alive
  <2>2. CASE run.pc # "none"
    BY <1>1, <1>4, <2>2, ProcessesKept DEF StartThread, Alive
  <2> QED BY <2>1, <2>2
<1> QED BY <1>2, <1>3, <1>4 DEF Request, Answer

\* The thread keeps it: it starts a process only while it has none alive, and
\* leaves its process only when that has exited (_run_job).
LEMMA ProcessesThread == Processes /\ Thread => Processes'
<1> SUFFICES ASSUME Processes, Thread PROVE Processes'
  OBVIOUS
<1>1. TypeOK /\ TypeOK'
  BY TypeThread DEF Processes
<1>2. CASE RunRead \/ RunWrite \/ Register
  <2>1. UNCHANGED <<procs, crashes>> /\ run'.proc = run.proc
        /\ (run.pc \in {"register", "pid", "wait"} <=> run'.pc \in {"register", "pid", "wait"})
    <3>1. CASE RunRead
      BY <1>1, <3>1 DEF RunRead, TypeOK
    <3>2. CASE RunWrite
      BY <1>1, <3>2 DEF RunWrite, TypeOK
    <3>3. CASE Register
      BY <1>1, <3>3 DEF Register, TypeOK
    <3> QED BY <1>2, <3>1, <3>2, <3>3
  <2> QED BY <1>1, <2>1, ProcessesKeptByThread
<1>3. CASE Spawn
  <2>1. ASSUME NEW p \in Procs,
               procs' = [procs EXCEPT ![p].pc = "load", ![p].life = crashes],
               run' = [run EXCEPT !.pc = "register", !.proc = p]
        PROVE  Processes'
    <3> DEFINE r == [procs[p] EXCEPT !.pc = "load", !.life = crashes]
    <3>1. procs \in [Procs -> ProcStates] /\ crashes \in Nat /\ crashes' = crashes
      BY <1>1, <1>3 DEF TypeOK, ProcStates, Spawn
    <3>2. r \in ProcStates /\ procs' = [procs EXCEPT ![p] = r]
      BY <2>1, <3>1 DEF ProcStates
    <3>3. procs'[p] = r /\ \A q \in Procs : q # p => procs'[q] = procs[q]
      BY <3>1, <3>2, OneProcessChanges
    <3>4. procs'[p].life = crashes
      BY <3>1, <3>3 DEF ProcStates
    <3>5. run'.pc = "register" /\ run'.proc = p
      BY <1>1, <2>1 DEF TypeOK
    <3>6. \A q \in Procs : q # p /\ Alive(q) => procs[q].life # crashes
      BY <1>3 DEF Processes, Own, Spawn
    <3>7. \A q \in Procs : q # p => procs'[q].life = procs[q].life /\ (Alive(q)' <=> Alive(q))
      BY <3>3 DEF Alive
    <3>8. Lives'
      BY <3>1, <3>4, <3>7 DEF Processes, Lives
    <3>9. Own'
      BY <3>1, <3>5, <3>6, <3>7 DEF Own
    <3>10. OneProcessPerLife'
      BY <3>4, <3>6, <3>7 DEF Processes, OneProcessPerLife
    <3> QED BY <1>1, <3>8, <3>9, <3>10 DEF Processes
  <2>2. CASE run' = [run EXCEPT !.pc = "finish", !.st = [job EXCEPT !.status = "FAILED_TERMINAL"]]
             /\ UNCHANGED procs
    BY <1>1, <1>3, <2>2, ProcessesKeptByThread DEF Spawn, TypeOK
  <2> QED BY <1>3, <2>1, <2>2 DEF Spawn
<1>4. CASE RunEnded
  <2>1. ~\E q \in Procs : Alive(q) /\ procs[q].life = crashes
    BY <1>4 DEF Processes, Own, RunEnded, Alive
  <2> QED BY <1>1, <1>4, <2>1 DEF Processes, Lives, Own, OneProcessPerLife, Alive, RunEnded
<1>5. CASE RunFinish \/ RunPop
  <2>1. ~\E q \in Procs : Alive(q) /\ procs[q].life = crashes
    BY <1>5 DEF Processes, Own, RunFinish, RunPop
  <2>2. run'.pc \in {"pop", "none"} /\ UNCHANGED <<procs, crashes>>
    BY <1>1, <1>5 DEF RunFinish, RunPop, NoRun, TypeOK
  <2> QED BY <1>1, <2>1, <2>2 DEF Processes, Lives, Own, OneProcessPerLife, Alive
<1> QED BY <1>2, <1>3, <1>4, <1>5 DEF Thread

\* The processes themselves keep it: none comes to life by its own step.
LEMMA ProcessesProcess ==
  ASSUME Processes, NEW p \in Procs, Process(p)
  PROVE  Processes'
<1>1. TypeOK /\ TypeOK' /\ procs \in [Procs -> ProcStates]
  BY TypeProcess DEF Processes, TypeOK, ProcStates
<1>2. CASE ExitProc(p)
  <2>1. PICK k \in {"0", "1", "2"} : procs' = [procs EXCEPT ![p].pc = "exited", ![p].code = k]
    BY <1>2 DEF ExitProc, ExitCode
  <2>2. procs'[p] = [procs[p] EXCEPT !.pc = "exited", !.code = k]
        /\ \A q \in Procs : q # p => procs'[q] = procs[q]
    BY <1>1, <2>1, ExitChanges
  <2> QED BY <1>1, <1>2, <2>2, ProcessesKept DEF ExitProc, Alive, ProcStates, mem
<1>3. CASE Load(p)
  BY <1>1, <1>3, ProcessesKept DEF Load, Alive, ProcStates, mem
<1>4. ASSUME NEW s \in Stocks, Settle(p, s) PROVE Processes'
  BY <1>1, <1>4, ProcessesKept DEF Settle, Alive, ProcStates, mem
<1>5. CASE Conclude(p)
  BY <1>1, <1>5, ProcessesKept DEF Conclude, Alive, ProcStates, mem
<1> QED BY <1>2, <1>3, <1>4, <1>5 DEF Process

\* Every step keeps it; after a restart no process is of the present life.
LEMMA ProcessesStep == Processes /\ [Next]_vars => Processes'
<1> SUFFICES ASSUME Processes, [Next]_vars PROVE Processes'
  OBVIOUS
<1>1. TypeOK /\ TypeOK'
  BY TypeStep DEF Processes
<1>2. CASE Crash
  <2>1. \A p \in Procs : procs[p].life \in Nat /\ procs[p].life <= crashes
    BY <1>1 DEF Processes, Lives, TypeOK
  <2>2. crashes \in Nat /\ crashes' = crashes + 1 /\ procs' = procs /\ run'.pc = "none"
    BY <1>1, <1>2 DEF Crash, TypeOK, NoRun
  <2>3. Lives' /\ Own'
    BY <2>1, <2>2 DEF Lives, Own
  <2> QED BY <1>1, <2>2, <2>3 DEF Processes, OneProcessPerLife, Alive
<1>3. CASE Recover
  BY <1>1, <1>3, ProcessesKept DEF Recover, mem, Alive
<1>4. CASE UNCHANGED vars
  BY <1>1, <1>4, ProcessesKept DEF vars, Alive
<1> QED BY <1>2, <1>3, <1>4, ProcessesRequests, ProcessesThread, ProcessesProcess DEF Next

\* Before the first process nothing is to show.
LEMMA ProcessesInit == Init => Processes
<1> SUFFICES ASSUME Init PROVE Processes
  OBVIOUS
<1>1. \A p \in Procs : procs[p].life = 0 /\ ~Alive(p)
  BY DEF Init, Alive
<1>2. run.pc = "none" /\ crashes = 0
  BY DEF Init, NoRun
<1> QED BY <1>1, <1>2, TypeInit DEF Processes, Lives, Own, OneProcessPerLife

\* In one life of the service never two processes of a job are alive, however
\* cancels and resumes interleave with its thread (_start, _run_job, cancel).
THEOREM OneProcess == Spec => []OneProcessPerLife
<1>1. Processes => OneProcessPerLife
  BY DEF Processes
<1> QED BY <1>1, ProcessesInit, ProcessesStep, PTL DEF Spec

----------------------------------------------------------------------------
(* What COMPLETED means *)

\* Before the first restart no two processes are alive at all.
LEMMA Alone ==
  ASSUME Processes, crashes = 0, NEW p \in Procs, NEW q \in Procs, Alive(p), Alive(q)
  PROVE  p = q
<1>1. procs[p].life \in Nat /\ procs[q].life \in Nat
  BY DEF Processes, TypeOK
<1>2. procs[p].life = 0 /\ procs[q].life = 0
  BY <1>1 DEF Processes, Lives
<1> QED BY <1>2 DEF Processes, OneProcessPerLife

\* A step that leaves checkpoint and processes alone may write a status if it is
\* not COMPLETED, or the one that the thread holds (every write of job.json).
LEMMA TruthKept ==
  ASSUME IInv, UNCHANGED <<checkpoint, procs, crashes>>,
         job'.status \in {job.status, run.st.status} \/ job'.status # "COMPLETED",
         run'.st.status = run.st.status \/ run'.st.status # "COMPLETED",
         \A c \in Callers : call'[c].st.status # "COMPLETED"
  PROVE  Same' /\ Earned' /\ Asking' /\ CompletedMeansDone'
BY DEF IInv, Same, Earned, Asking, CompletedMeansDone, AllDone

\* Requests never write COMPLETED, and a signalled process has no exit code.
LEMMA TruthRequests ==
  ASSUME IInv, NEW c \in Callers, Request(c) \/ Answer(c)
  PROVE  Same' /\ Earned' /\ Asking' /\ CompletedMeansDone'
<1> USE DEF Goto, disk
<1>1. TypeOK /\ call \in [Callers -> [pc : CallPcs, st : JobStates]] /\ NoJob.status = "NONE"
  BY DEF IInv, Processes, TypeOK, CallPcs, NoJob
<1>2. \A d \in Callers : call[d].st.status # "COMPLETED"
  BY DEF IInv, Asking
<1>3. CASE Create(c)
  BY <1>1, <1>2, <1>3, TruthKept DEF Create
<1>4. CASE CancelRead(c)
  BY <1>1, <1>2, <1>4, TruthKept DEF CancelRead
<1>5. CASE ResumeRead(c)
  BY <1>1, <1>2, <1>5, TruthKept DEF ResumeRead
<1>6. CASE CancelWrite(c) \/ PendingWrite(c)
  <2>1. job' = call[c].st /\ UNCHANGED <<checkpoint, procs, crashes, run>>
    BY <1>6 DEF CancelWrite, PendingWrite
  <2>2. \A d \in Callers : call'[d].st.status # "COMPLETED"
    BY <1>1, <1>2, <1>6 DEF CancelWrite, PendingWrite
  <2> QED BY <1>2, <2>1, <2>2, TruthKept
<1>7. CASE CancelSignal(c)
  <2>1. /\ UNCHANGED <<job, checkpoint, run, crashes>>
        /\ \A d \in Callers : call'[d].st.status # "COMPLETED"
    BY <1>1, <1>2, <1>7 DEF CancelSignal
  <2>2. CASE registered # 0 /\ Alive(registered)
    <3>1. registered \in Procs /\ procs \in [Procs -> ProcStates]
      BY <1>1, <2>2 DEF TypeOK, ProcStates
    <3>2. procs' = [procs EXCEPT ![registered].pc = "exited", ![registered].code = "signal"]
      BY <1>7, <2>2 DEF CancelSignal
    <3>3. /\ procs'[registered] = [procs[registered] EXCEPT !.pc = "exited", !.code = "signal"]
          /\ \A q \in Procs : q # registered => procs'[q] = procs[q]
      BY <3>1, <3>2, ExitChanges
    <3>4. procs'[registered].pc = "exited" /\ procs'[registered].code = "signal"
      BY <3>1, <3>3 DEF ProcStates
    <3> QED BY <2>1, <3>3, <3>4 DEF IInv, Same, Earned, Asking, CompletedMeansDone, AllDone
  <2>3. CASE ~(registered # 0 /\ Alive(registered))
    <3>1. procs' = procs
      BY <1>7, <2>3 DEF CancelSignal
    <3> QED BY <2>1, <3>1, TruthKept
  <2> QED BY <2>2, <2>3
<1>8. CASE StartThread(c)
  <2>1. run' = run \/ run'.st = NoJob
    BY <1>8 DEF StartThread, NoRun
  <2>2. UNCHANGED <<job, checkpoint, procs, crashes>>
    BY <1>8 DEF StartThread
  <2>3. \A d \in Callers : call'[d].st.status # "COMPLETED"
    BY <1>1, <1>2, <1>8 DEF StartThread
  <2> QED BY <1>1, <2>1, <2>2, <2>3, TruthKept
<1> QED BY <1>3, <1>4, <1>5, <1>6, <1>7, <1>8 DEF Request, Answer

\* The thread decides COMPLETED from exit code 0 only (_run_job).
LEMMA TruthThread ==
  ASSUME IInv, Thread
  PROVE  Same' /\ Earned' /\ Asking' /\ CompletedMeansDone'
<1> USE DEF disk
<1>1. TypeOK /\ run \in [pc : RunPcs, st : JobStates, proc : Procs \cup {0}] /\ job \in JobStates
  BY DEF IInv, Processes, TypeOK, RunPcs
<1>2. \A d \in Callers : call[d].st.status # "COMPLETED"
  BY DEF IInv, Asking
<1>3. CASE RunRead
  <2>1. run'.st.status = "RUNNING"
    BY <1>1, <1>3 DEF RunRead
  <2> QED BY <1>2, <1>3, <2>1, TruthKept DEF RunRead
<1>4. CASE RunWrite \/ RunFinish \/ Register
  <2>1. run'.st = run.st
    BY <1>1, <1>4 DEF RunWrite, RunFinish, Register
  <2> QED BY <1>2, <1>4, <2>1, TruthKept DEF RunWrite, RunFinish, Register
<1>5. CASE RunPop
  <2>1. run'.st.status = "NONE"
    BY <1>5 DEF RunPop, NoRun, NoJob
  <2> QED BY <1>2, <1>5, <2>1, TruthKept DEF RunPop
<1>6. CASE Spawn
  <2>1. UNCHANGED <<job, checkpoint, call, crashes>>
    BY <1>6 DEF Spawn
  <2>2. ASSUME NEW p \in Procs,
               procs' = [procs EXCEPT ![p].pc = "load", ![p].life = crashes],
               run' = [run EXCEPT !.pc = "register", !.proc = p]
        PROVE  Same' /\ Earned' /\ Asking' /\ CompletedMeansDone'
    <3> DEFINE r == [procs[p] EXCEPT !.pc = "load", !.life = crashes]
    <3>1. procs \in [Procs -> ProcStates] /\ crashes \in Nat
      BY <1>1 DEF TypeOK, ProcStates
    <3>2. r \in ProcStates /\ procs' = [procs EXCEPT ![p] = r]
      BY <2>2, <3>1 DEF ProcStates
    <3>3. procs'[p] = r /\ \A q \in Procs : q # p => procs'[q] = procs[q]
      BY <3>1, <3>2, OneProcessChanges
    <3>4. procs'[p].pc = "load" /\ procs'[p].code = procs[p].code /\ run'.st = run.st
      BY <1>1, <2>2, <3>1, <3>3 DEF ProcStates
    <3> QED BY <2>1, <3>3, <3>4 DEF IInv, Same, Earned, Asking, CompletedMeansDone, AllDone
  <2>3. CASE run' = [run EXCEPT !.pc = "finish", !.st = [job EXCEPT !.status = "FAILED_TERMINAL"]]
             /\ UNCHANGED procs
    <3>1. run'.st.status = "FAILED_TERMINAL"
      BY <1>1, <2>3 DEF JobStates
    <3> QED BY <1>2, <2>1, <2>3, <3>1, TruthKept
  <2> QED BY <1>6, <2>2, <2>3 DEF Spawn
<1>7. CASE RunEnded
  <2>1. UNCHANGED <<job, checkpoint, call, procs, crashes>> /\ run.proc \in Procs
    BY <1>7 DEF RunEnded, IInv, Processes, Own
  <2>2. run'.st.status = FinalStatus(job, procs[run.proc].code)
    BY <1>1, <1>7 DEF RunEnded, JobStates
  <2>3. run'.st.status = "COMPLETED" => procs[run.proc].code = "0"
    BY <2>2 DEF FinalStatus
  <2>4. run'.st.status = "COMPLETED" /\ crashes = 0 => AllDone
    BY <2>1, <2>3 DEF IInv, Earned
  <2> QED BY <1>2, <2>1, <2>4 DEF IInv, Same, Earned, Asking, CompletedMeansDone, AllDone
<1> QED BY <1>3, <1>4, <1>5, <1>6, <1>7 DEF Thread

\* A process adds outcomes for open stocks to rows that are the checkpoint, and
\* exits with 0 only when its rows are all success (run-batch).
LEMMA TruthProcess ==
  ASSUME IInv, NEW p \in Procs, Process(p)
  PROVE  Same' /\ Earned' /\ Asking' /\ CompletedMeansDone'
<1>1. /\ Processes /\ procs \in [Procs -> ProcStates] /\ procs[p].rows \in Rows
      /\ checkpoint \in Rows
  BY DEF IInv, Processes, TypeOK, ProcStates
<1>2. CASE Load(p)
  <2> DEFINE r == [procs[p] EXCEPT !.pc = "work", !.rows = checkpoint]
  <2>1. r \in ProcStates /\ procs' = [procs EXCEPT ![p] = r]
    BY <1>1, <1>2 DEF Load, ProcStates
  <2>2. procs'[p] = r /\ \A q \in Procs : q # p => procs'[q] = procs[q]
    BY <1>1, <2>1, OneProcessChanges
  <2>3. procs'[p].code = procs[p].code /\ procs'[p].rows = checkpoint
    BY <1>1, <2>2 DEF ProcStates
  <2> QED BY <1>2, <2>2, <2>3 DEF Load, IInv, Same, Earned, Asking, CompletedMeansDone, AllDone, disk, mem
<1>3. ASSUME NEW s \in Stocks, Settle(p, s) PROVE Same' /\ Earned' /\ Asking' /\ CompletedMeansDone'
  <2>1. PICK o \in {"open", "success", "failure"} : procs' = [procs EXCEPT ![p].rows[s] = o]
    BY <1>3 DEF Settle
  <2> DEFINE w == [procs[p].rows EXCEPT ![s] = o]
  <2> DEFINE r == [procs[p] EXCEPT !.rows = w]
  <2>2. w \in Rows
    BY <1>1, <2>1 DEF Rows
  <2>3. r \in ProcStates /\ procs' = [procs EXCEPT ![p] = r]
    BY <1>1, <2>1, <2>2 DEF ProcStates
  <2>4. procs'[p] = r /\ \A q \in Procs : q # p => procs'[q] = procs[q]
    BY <1>1, <2>3, OneProcessChanges
  <2>5. /\ procs'[p].pc = "work" /\ procs'[p].code = procs[p].code
        /\ procs'[p].rows = w /\ checkpoint' = w
        /\ UNCHANGED <<job, run, call, crashes>>
    BY <1>1, <1>3, <2>4 DEF Settle, ProcStates, mem
  <2>6. crashes = 0 => ~AllDone
    <3>1. procs[p].pc = "work" /\ procs[p].rows[s] = "open"
      BY <1>3 DEF Settle
    <3> QED BY <3>1 DEF IInv, Same, AllDone
  <2>7. crashes = 0 => \A q \in Procs : q # p => procs'[q].pc \notin {"work", "done"}
    <3>1. Alive(p)
      BY <1>3 DEF Settle, Alive
    <3>2. \A q \in Procs : procs[q].pc \in {"work", "done"} => Alive(q)
      BY DEF Alive
    <3> QED BY <1>1, <2>4, <3>1, <3>2, Alone
  <2>8. Same'
    BY <2>5, <2>7 DEF Same
  <2>9. Earned'
    BY <2>4, <2>5, <2>6 DEF IInv, Earned
  <2> QED BY <2>5, <2>6, <2>8, <2>9 DEF IInv, Asking, CompletedMeansDone, AllDone
<1>4. CASE Conclude(p)
  <2> DEFINE r == [procs[p] EXCEPT !.pc = "done"]
  <2>1. r \in ProcStates /\ procs' = [procs EXCEPT ![p] = r]
    BY <1>1, <1>4 DEF Conclude, ProcStates
  <2>2. procs'[p] = r /\ \A q \in Procs : q # p => procs'[q] = procs[q]
    BY <1>1, <2>1, OneProcessChanges
  <2>3. /\ procs'[p].code = procs[p].code /\ procs'[p].rows = procs[p].rows
        /\ checkpoint' = procs[p].rows /\ UNCHANGED <<job, run, call, crashes>>
    BY <1>1, <1>4, <2>2 DEF Conclude, ProcStates, mem
  <2>4. crashes = 0 => checkpoint' = checkpoint
    BY <1>4, <2>3 DEF Conclude, IInv, Same
  <2>5. AllDone => AllDone' \/ crashes # 0
    BY <2>4 DEF AllDone
  <2>6. \A q \in Procs : procs'[q].code = procs[q].code
    BY <2>2, <2>3
  <2>7. Same'
    <3>1. ASSUME crashes = 0, NEW q \in Procs, procs'[q].pc \in {"work", "done"}
          PROVE  procs'[q].rows = checkpoint
      <4>1. CASE q = p
        BY <2>3, <2>4, <3>1, <4>1
      <4>2. CASE q # p
        BY <2>2, <3>1, <4>2 DEF IInv, Same
      <4> QED BY <4>1, <4>2
    <3> QED BY <2>3, <2>4, <3>1 DEF Same
  <2>8. Earned'
    BY <2>3, <2>5, <2>6 DEF IInv, Earned
  <2>9. Asking' /\ CompletedMeansDone'
    BY <2>3, <2>4 DEF IInv, Asking, CompletedMeansDone
  <2> HIDE DEF r
  <2> QED BY <2>7, <2>8, <2>9
<1>5. CASE ExitProc(p)
  <2>1. PICK k \in {"0", "1", "2"} :
           /\ procs' = [procs EXCEPT ![p].pc = "exited", ![p].code = k]
           /\ k = "0" => procs[p].pc = "done" /\ ExitCode(procs[p].rows) = "0"
    <3>1. PICK code \in {"1"} \cup (IF procs[p].pc = "done" THEN {ExitCode(procs[p].rows)} ELSE {}) :
             procs' = [procs EXCEPT ![p].pc = "exited", ![p].code = code]
      BY <1>5 DEF ExitProc
    <3>2. ExitCode(procs[p].rows) \in {"0", "1", "2"}
      BY DEF ExitCode
    <3> QED BY <3>1, <3>2
  <2>2. procs'[p] = [procs[p] EXCEPT !.pc = "exited", !.code = k]
        /\ \A q \in Procs : q # p => procs'[q] = procs[q]
    BY <1>1, <2>1, ExitChanges
  <2>3. procs'[p].pc = "exited" /\ procs'[p].code = k /\ UNCHANGED <<job, checkpoint, run, call, crashes>>
    <3>1. procs'[p].pc = "exited" /\ procs'[p].code = k
      BY <1>1, <2>2 DEF ProcStates
    <3>2. UNCHANGED <<job, checkpoint, run, call, crashes>>
      BY <1>5 DEF ExitProc, disk, mem
    <3> QED BY <3>1, <3>2
  <2>4. crashes = 0 /\ k = "0" => AllDone
    <3>1. ExitCode(procs[p].rows) = "0" => \A s \in Stocks : procs[p].rows[s] = "success"
      BY DEF ExitCode
    <3> QED BY <2>1, <3>1 DEF IInv, Same, AllDone
  <2> QED BY <2>2, <2>3, <2>4 DEF IInv, Same, Earned, Asking, CompletedMeansDone, AllDone
<1> QED BY <1>2, <1>3, <1>4, <1>5 DEF Process

\* So the whole invariant is kept by every step; restarts end what it speaks of.
LEMMA InvStep == IInv /\ [Next]_vars => IInv'
<1> SUFFICES ASSUME IInv, [Next]_vars PROVE IInv'
  OBVIOUS
<1>1. Processes /\ Processes' /\ TypeOK
  BY ProcessesStep DEF IInv, Processes
<1>2. CASE Crash
  <2>1. crashes' # 0 /\ \A c \in Callers : call'[c].st.status = "NONE"
    BY <1>1, <1>2 DEF Crash, TypeOK, NoCall, NoJob
  <2> QED BY <1>1, <2>1 DEF IInv, Same, Earned, Asking, CompletedMeansDone
<1>3. CASE Recover
  <2>1. job'.status = job.status \/ job'.status = "FAILED_RECOVERABLE"
    BY <1>1, <1>3 DEF Recover, TypeOK, JobStates
  <2>2. UNCHANGED <<checkpoint, procs, crashes, run, call>>
    BY <1>3 DEF Recover, mem
  <2> QED BY <1>1, <2>1, <2>2 DEF IInv, Same, Earned, Asking, CompletedMeansDone, AllDone
<1>4. CASE UNCHANGED vars
  BY <1>1, <1>4 DEF vars, IInv, Same, Earned, Asking, CompletedMeansDone, AllDone
<1> QED BY <1>1, <1>2, <1>3, <1>4, TruthRequests, TruthThread, TruthProcess DEF Next, IInv

\* Nothing is COMPLETED and no process has an exit code in the beginning.
LEMMA InvInit == Init => IInv
<1> SUFFICES ASSUME Init PROVE IInv
  OBVIOUS
<1>1. Processes
  BY ProcessesInit
<1>2. /\ \A p \in Procs : procs[p].pc = "new" /\ procs[p].code = "none"
      /\ run.st.status = "NONE" /\ job.status = "NONE"
      /\ \A c \in Callers : call[c].st.status = "NONE"
  BY DEF Init, NoRun, NoCall, NoJob
<1> QED BY <1>1, <1>2 DEF IInv, Same, Earned, Asking, CompletedMeansDone

\* In the first life of the service a job that reads COMPLETED has success for
\* every stock in the checkpoint (FinalStatus of _run_job against the exit code
\* of run-batch and the rows that the process saved).
THEOREM CompletedHolds == Spec => []CompletedMeansDone
<1>1. IInv => CompletedMeansDone
  BY DEF IInv
<1> QED BY <1>1, InvInit, InvStep, PTL DEF Spec

\* In that life no step takes back the outcome of a stock (the rows that a
\* process saves after a resume against those already in checkpoint.json).
THEOREM OutcomesStay == Spec => OutcomesKeptInLife
<1>1. IInv /\ [Next]_vars =>
        [crashes' = 0 => \A s \in Stocks : checkpoint[s] # "open" => checkpoint'[s] = checkpoint[s]]_vars
  <2> SUFFICES ASSUME IInv, Next, crashes' = 0, NEW s \in Stocks, checkpoint[s] # "open"
               PROVE  checkpoint'[s] = checkpoint[s]
    OBVIOUS
  <2>1. crashes \in Nat /\ procs \in [Procs -> ProcStates]
    BY DEF IInv, Processes, TypeOK, ProcStates
  <2>2. ASSUME NEW p \in Procs, NEW t \in Stocks, Settle(p, t) PROVE checkpoint'[s] = checkpoint[s]
    <3>1. crashes = 0 /\ procs[p].pc = "work" /\ procs[p].rows[t] = "open"
      BY <2>2 DEF Settle
    <3>2. procs[p].rows = checkpoint
      BY <3>1 DEF IInv, Same
    <3>3. checkpoint'[s] = procs[p].rows[s]
      BY <2>1, <2>2, <3>1, <3>2 DEF Settle, Rows, ProcStates
    <3> QED BY <3>2, <3>3
  <2>3. ASSUME NEW p \in Procs, Conclude(p) PROVE checkpoint'[s] = checkpoint[s]
    BY <2>3 DEF Conclude, IInv, Same
  <2>4. CASE UNCHANGED checkpoint
    BY <2>4
  <2>5. CASE Crash
    BY <2>5 DEF Crash, disk
  <2>6. ASSUME NEW c \in Callers, Request(c) \/ Answer(c) PROVE UNCHANGED checkpoint
    BY <2>6 DEF Request, Answer, Create, CancelRead, CancelWrite, CancelSignal, ResumeRead,
                PendingWrite, StartThread, disk
  <2>7. CASE Thread
    BY <2>7 DEF Thread, RunRead, RunWrite, Spawn, Register, RunEnded, RunFinish, RunPop, disk
  <2>8. ASSUME NEW p \in Procs, Load(p) \/ ExitProc(p) PROVE UNCHANGED checkpoint
    BY <2>8 DEF Load, ExitProc, disk
  <2>9. CASE Recover
    BY <2>9 DEF Recover
  <2> QED BY <2>2, <2>3, <2>4, <2>5, <2>6, <2>7, <2>8, <2>9 DEF Next, Process
<1> QED BY <1>1, InvInit, InvStep, PTL DEF Spec, OutcomesKeptInLife

----------------------------------------------------------------------------
(* The rollout. *)

Full(r) == ~r.smoke
Known == flying \cup delivered

\* Before the smoke run is over nothing has been recorded, and before it has begun
\* nothing is in flight.
Start ==
  /\ state.phase = "B001_SMOKE_READY" => flying = {}
  /\ state.phase \in {"B001_SMOKE_READY", "B001_SMOKE_RUNNING"} =>
       delivered = {} /\ plan \subseteq [batch : {1}, smoke : {TRUE}] /\ state.smoke \notin SUCCESS_BATCH

\* The smoke run is of the first batch and in flight only while it is running.
Smoke ==
  /\ \A r, q \in flying : r.smoke /\ q.smoke => r = q
  /\ \A r \in flying : r.smoke => r.batch = 1 /\ state.phase = "B001_SMOKE_RUNNING"
  /\ \A r \in Known : Full(r) => state.smoke \in SUCCESS_BATCH
  /\ state.phase = "B001_SMOKE_RUNNING" => \E r \in flying : r.smoke
  /\ \A a \in plan : a.smoke => a.batch = 1

\* The first batch runs once; what is recorded of it is its status.
First ==
  /\ state.phase \in {"B001_SMOKE_PASS", "B001_FULL_RUNNING"} => \A r \in delivered : r.smoke
  /\ state.phase = "B001_SMOKE_PASS" => flying = {} /\ state.smoke \in SUCCESS_BATCH
  /\ \A r, q \in flying : Full(r) /\ Full(q) /\ r.batch = 1 /\ q.batch = 1 => r = q
  /\ \A r \in flying : Full(r) /\ r.batch = 1 =>
       state.phase = "B001_FULL_RUNNING" /\ state.status[1] = "RUNNING"
  /\ \A d \in delivered : Full(d) /\ d.batch = 1 => state.status[1] = d.outcome
  /\ state.phase = "B001_FULL_RUNNING" => \E r \in flying : Full(r) /\ r.batch = 1

\* Other batches run after the first has passed.
Later ==
  /\ \A r \in Known : Full(r) /\ r.batch # 1 => Passed(1)
  /\ state.phase \in FullPhases \cup {"FULL_REDUCTION_READY"} => Passed(1) /\ state.smoke \in SUCCESS_BATCH
  /\ state.phase \notin {"WAITING_FOR_INPUT", "COMPLETED"}

\* The plan names no batch that is active.
Planned == \A a \in plan : Full(a) /\ a.batch # 1 => a.batch \notin state.active

Gates == RolloutTypeOK /\ Start /\ Smoke /\ First /\ Later /\ Planned /\ GatesHeld /\ ReadyMeansAll

\* The gates hold initially.
LEMMA InitGates == RolloutInit => Gates
<1> SUFFICES ASSUME RolloutInit PROVE Gates OBVIOUS
<1>1. 1 \in Batches BY RolloutAssumption DEF Batches
<1>2. state \in States
  BY <1>1 DEF RolloutInit, States, Phases, SmokeStatuses, Statuses
<1>3. RolloutTypeOK BY <1>2 DEF RolloutInit, RolloutTypeOK, Actions, Runs, Results
<1>4. /\ state.phase = "B001_SMOKE_READY" /\ state.smoke = "PENDING"
      /\ \A b \in Batches : state.status[b] = "PENDING"
      /\ plan = {} /\ flying = {} /\ delivered = {}
  BY DEF RolloutInit
<1>5. Start /\ Smoke /\ First /\ Later /\ Planned
  BY <1>4 DEF Start, Smoke, First, Later, Planned, Known, FullPhases, SUCCESS_BATCH
<1>6. GatesHeld /\ ReadyMeansAll BY <1>1, <1>4 DEF GatesHeld, ReadyMeansAll
<1> QED BY <1>3, <1>5, <1>6 DEF Gates

\* What the controller may find in a plan.
LEMMA PlannedType ==
  ASSUME RolloutTypeOK
  PROVE  /\ PlannedActions(state) \subseteq Actions
         /\ \A a \in PlannedActions(state) :
              /\ a.smoke => a.batch = 1 /\ state.phase = "B001_SMOKE_READY"
              /\ Full(a) /\ a.batch # 1 => a.batch \notin state.active
         /\ state.phase = "B001_SMOKE_READY" => PlannedActions(state) \subseteq [batch : {1}, smoke : {TRUE}]
         /\ state.phase = "B001_SMOKE_RUNNING" => PlannedActions(state) = {}
<1>1. 1 \in Batches BY RolloutAssumption DEF Batches
<1>2. Chosen(state) \subseteq Startable(state) BY DEF Chosen
<1>3. Startable(state) \subseteq Batches /\ \A b \in Startable(state) : b # 1 /\ b \notin state.active
  BY DEF Startable
<1>4. CASE state.phase = "B001_SMOKE_READY"
  <2>1. PlannedActions(state) = {[batch |-> 1, smoke |-> TRUE]} BY <1>4 DEF PlannedActions
  <2> QED BY <2>1, <1>1, <1>4 DEF Actions, Full
<1>5. CASE state.phase = "B001_SMOKE_PASS"
  <2>1. PlannedActions(state) = {[batch |-> 1, smoke |-> FALSE]} BY <1>5 DEF PlannedActions
  <2> QED BY <2>1, <1>1, <1>5 DEF Actions, Full
<1>6. CASE state.phase \in FullPhases
  <2>1. PlannedActions(state) = {[batch |-> b, smoke |-> FALSE] : b \in Chosen(state)}
    BY <1>6 DEF PlannedActions, FullPhases
  <2>2. ASSUME NEW a \in PlannedActions(state)
        PROVE  a \in Actions /\ ~a.smoke /\ a.batch \notin state.active
    <3>1. PICK b \in Chosen(state) : a = [batch |-> b, smoke |-> FALSE] BY <2>1
    <3>2. b \in Batches /\ b \notin state.active BY <1>2, <1>3
    <3> QED BY <3>1, <3>2 DEF Actions
  <2> QED BY <2>2, <1>6 DEF Full, FullPhases
<1>7. CASE state.phase \notin FullPhases \cup {"B001_SMOKE_READY", "B001_SMOKE_PASS"}
  <2>1. PlannedActions(state) = {} BY <1>7 DEF PlannedActions
  <2> QED BY <2>1, <1>7
<1> QED BY <1>4, <1>5, <1>6, <1>7

\* Asking for the plan keeps the gates.
LEMMA PlanGates == ASSUME Gates, Plan PROVE Gates'
<1>1. RolloutTypeOK' BY PlannedType DEF Gates, Plan, RolloutTypeOK
<1>2. Start' BY PlannedType DEF Gates, Plan, Start
<1>3. Smoke' BY PlannedType DEF Gates, Plan, Smoke, Known
<1>4. Planned' BY PlannedType DEF Gates, Plan, Planned
<1> QED BY <1>1, <1>2, <1>3, <1>4 DEF Gates, Plan, First, Later, GatesHeld, ReadyMeansAll, Known, Passed

\* A run is started.
LEMMA RunGates == ASSUME Gates, NEW a \in plan, Run(a) PROVE Gates'
<1>1. 1 \in Batches BY RolloutAssumption DEF Batches
<1>2. a \in Actions /\ a.batch \in Batches /\ a.smoke \in BOOLEAN /\ state \in States
  BY DEF Gates, RolloutTypeOK, Actions
<1>3. CASE ~Markable(state, a)
  <2>1. plan' \subseteq plan /\ UNCHANGED <<state, flying, delivered, duplicates>>
    BY <1>3 DEF Run
  <2> QED BY <2>1 DEF Gates, RolloutTypeOK, Start, Smoke, First, Later, Planned, GatesHeld, ReadyMeansAll,
                      Known, Passed
<1>4. CASE Markable(state, a) /\ a.smoke
  <2>1. /\ a.batch = 1 /\ state.phase = "B001_SMOKE_READY"
        /\ flying = {} /\ delivered = {} /\ plan \subseteq [batch : {1}, smoke : {TRUE}]
    BY <1>4 DEF Markable, Gates, Start
  <2>2. /\ state' = [state EXCEPT !.phase = "B001_SMOKE_RUNNING", !.smoke = "RUNNING"]
        /\ flying' = {[batch |-> 1, smoke |-> TRUE, attempt |-> state.attempts[1]]}
        /\ delivered' = {} /\ plan' \subseteq plan /\ duplicates' = duplicates
    BY <1>2, <1>4, <2>1 DEF Run, Marked, States
  <2>3. /\ state'.phase = "B001_SMOKE_RUNNING" /\ state'.smoke = "RUNNING"
        /\ state'.status = state.status /\ state'.active = state.active
    BY <2>2, <1>2 DEF States
  <2>4. RolloutTypeOK'
    <3>1. state' \in States BY <2>2, <1>2 DEF States, Phases, SmokeStatuses
    <3>2. state.attempts[1] \in Nat BY <1>1, <1>2 DEF States
    <3>3. flying' \subseteq Runs BY <2>2, <1>1, <3>2 DEF Runs
    <3> QED BY <2>1, <2>2, <3>1, <3>3 DEF Gates, RolloutTypeOK
  <2>5. state.status[1] = "PENDING" /\ \A b \in Batches \ {1} : state.status[b] = "PENDING"
    BY <2>1 DEF Gates, Start, GatesHeld, Passed, SUCCESS_BATCH
  <2>6. \A r \in Known' : r = [batch |-> 1, smoke |-> TRUE, attempt |-> state.attempts[1]]
    BY <2>2 DEF Known
  <2>7. Start' BY <2>1, <2>2, <2>3 DEF Start, SUCCESS_BATCH
  <2>8. Smoke'
    <3>1. \A r \in Known' : r.smoke /\ r.batch = 1 BY <2>6
    <3>2. Known' # {} /\ Known' = flying' BY <2>2 DEF Known
    <3>3. \A c \in plan' : c.batch = 1 BY <2>1, <2>2
    <3>4. \A r, q \in flying' : r = q BY <2>2
    <3> QED BY <2>3, <3>1, <3>2, <3>3, <3>4 DEF Smoke, Full
  <2>9. First' /\ Later' BY <2>2, <2>3, <2>6 DEF First, Later, Known, Full, FullPhases
  <2>10. GatesHeld' /\ ReadyMeansAll' BY <2>3, <2>5 DEF GatesHeld, ReadyMeansAll
  <2>11. Planned' BY <2>2, <2>3 DEF Gates, Planned
  <2> QED BY <2>4, <2>7, <2>8, <2>9, <2>10, <2>11 DEF Gates
<1>5. CASE Markable(state, a) /\ ~a.smoke
  <2> DEFINE b == a.batch
             made == [batch |-> b, smoke |-> FALSE, attempt |-> state'.attempts[b]]
             phase == IF b = 1 THEN "B001_FULL_RUNNING" ELSE "FULL_ROLLOUT_RUNNING"
  <2>1. state' = [state EXCEPT !.phase = phase, !.active = @ \cup {b},
                               !.status[b] = "RUNNING", !.attempts[b] = @ + 1]
    BY <1>5 DEF Run, Marked
  <2>2. /\ state'.phase = phase /\ state'.smoke = state.smoke
        /\ state'.status = [state.status EXCEPT ![b] = "RUNNING"]
        /\ state'.active = state.active \cup {b}
        /\ state'.attempts = [state.attempts EXCEPT ![b] = @ + 1]
    BY <2>1, <1>2 DEF States
  <2>3. /\ flying' = flying \cup {made} /\ delivered' = delivered /\ duplicates' = duplicates
        /\ plan' = plan \ {a}
    BY <1>2, <1>5 DEF Run
  <2>4. /\ state.status[b] \notin SUCCESS_BATCH
        /\ IF b = 1 THEN state.phase = "B001_SMOKE_PASS" ELSE state.phase \in FullPhases
    BY <1>5 DEF Markable
  <2>5. /\ state.smoke \in SUCCESS_BATCH
        /\ b # 1 => Passed(1)
        /\ b = 1 => flying = {} /\ \A r \in delivered : r.smoke
    BY <2>4 DEF Gates, First, Later
  <2>6. RolloutTypeOK'
    <3>1. state'.attempts \in [Batches -> Nat] /\ state'.status \in [Batches -> Statuses]
      BY <2>2, <1>2 DEF States, Statuses
    <3>2. state' \in States BY <2>1, <2>2, <3>1, <1>2 DEF States, Phases
    <3>3. made \in Runs BY <1>2, <3>1 DEF Runs
    <3> QED BY <2>3, <3>2, <3>3 DEF Gates, RolloutTypeOK
  <2>7. \A c \in Batches : c # b => state'.status[c] = state.status[c]
    BY <2>2, <1>2 DEF States
  <2>8. state'.status[b] = "RUNNING" BY <2>2, <1>2 DEF States
  <2>9. b # 1 => Passed(1)' /\ state'.status[1] = state.status[1]
    BY <1>1, <2>5, <2>7 DEF Passed
  <2> HIDE DEF b, made, phase
  <2>10. made.batch = b /\ made.smoke = FALSE BY DEF made
  <2>11. phase \in {"B001_FULL_RUNNING", "FULL_ROLLOUT_RUNNING"} /\ (b = 1 <=> phase = "B001_FULL_RUNNING")
    BY DEF phase
  <2>12. Start' BY <2>2, <2>11 DEF Start
  <2>13. Smoke'
    <3>1. \A r \in flying' : ~r.smoke
      BY <2>3, <2>4, <2>10, <2>5 DEF Gates, Smoke, FullPhases
    <3> QED BY <3>1, <2>2, <2>3, <2>5, <2>10, <2>11 DEF Gates, Smoke, Known, Full
  <2>14. First'
    <3>1. CASE b = 1 BY <3>1, <2>2, <2>3, <2>5, <2>8, <2>10, <2>11 DEF First, Full
    <3>2. CASE b # 1
      <4>1. \A r \in flying : Full(r) => r.batch # 1
        BY <3>2, <2>4 DEF Gates, First, FullPhases
      <4> QED BY <4>1, <3>2, <2>2, <2>3, <2>9, <2>10, <2>11 DEF Gates, First
    <3> QED BY <3>1, <3>2
  <2>15. Later'
    <3>1. ASSUME NEW r \in Known', Full(r), r.batch # 1 PROVE Passed(1)'
      <4>1. CASE r = made BY <4>1, <3>1, <2>9, <2>10
      <4>2. CASE r \in Known
        <5>1. Passed(1) BY <4>2, <3>1 DEF Gates, Later
        <5> QED BY <5>1, <1>1, <2>4, <2>7 DEF Passed
      <4> QED BY <4>1, <4>2, <2>3 DEF Known
    <3> QED BY <3>1, <2>2, <2>5, <2>9, <2>11 DEF Later, FullPhases
  <2>16. Planned'
    BY <2>2, <2>3, <1>5, <1>2 DEF Gates, Planned, b, Full, RolloutTypeOK, Actions
  <2>17. GatesHeld'
    <3>1. ASSUME NEW c \in Batches \ {1}, state'.status[c] # "PENDING" PROVE Passed(1)'
      <4>1. CASE c = b BY <4>1, <2>9
      <4>2. CASE c # b
        <5>1. Passed(1) BY <4>2, <3>1, <2>7 DEF Gates, GatesHeld
        <5> QED BY <5>1, <1>1, <2>4, <2>7 DEF Passed
      <4> QED BY <4>1, <4>2
    <3> QED BY <3>1, <2>2, <2>5 DEF GatesHeld
  <2>18. ReadyMeansAll' BY <2>2, <2>11 DEF ReadyMeansAll
  <2> QED BY <2>6, <2>12, <2>13, <2>14, <2>15, <2>16, <2>17, <2>18 DEF Gates
<1> QED BY <1>2, <1>3, <1>4, <1>5

\* What a recorded result makes of the state.
LEMMA RecordedType ==
  ASSUME NEW st \in States, NEW d \in Results PROVE Recorded(st, d) \in States
<1>1. /\ d.batch \in Batches /\ d.outcome \in Outcomes /\ Outcomes \subseteq Statuses
      /\ st.status \in [Batches -> Statuses] /\ st.active \subseteq Batches
  BY DEF Results, States, Statuses
<1>2. [st.status EXCEPT ![d.batch] = d.outcome] \in [Batches -> Statuses] BY <1>1
<1>3. \A active, status : NextPhase(active, status) \in Phases BY DEF NextPhase, Phases
<1>4. SmokeRecorded(st, d.outcome) \in States
  BY <1>1 DEF SmokeRecorded, States, Phases, SmokeStatuses
<1>5. BatchRecorded(st, d.batch, d.outcome) \in States
  <2> DEFINE active == st.active \ {d.batch}  status == [st.status EXCEPT ![d.batch] = d.outcome]
             phase == IF d.batch # 1 THEN NextPhase(active, status)
                      ELSE IF d.outcome \in SUCCESS_BATCH THEN "B001_FULL_PASS" ELSE "BLOCKED"
  <2>1. BatchRecorded(st, d.batch, d.outcome)
          = [st EXCEPT !.active = active, !.status = status, !.phase = phase]
    BY DEF BatchRecorded
  <2>2. active \subseteq Batches /\ status \in [Batches -> Statuses] /\ phase \in Phases
    BY <1>1, <1>2, <1>3 DEF Phases
  <2> HIDE DEF active, status, phase
  <2> QED BY <2>1, <2>2 DEF States
<1> QED BY <1>4, <1>5 DEF Recorded

\* A result is recorded, for the first time or again.
LEMMA RecordedGates ==
  ASSUME Gates, NEW d \in Results, state' = Recorded(state, d),
         plan' = plan, delivered' = delivered \cup {d}, duplicates' \in Nat,
         \/ d \in delivered /\ flying' = flying
         \/ \E f \in flying : f.batch = d.batch /\ f.smoke = d.smoke /\ flying' = flying \ {f}
  PROVE  Gates'
<1> DEFINE b == d.batch
<1>1. /\ 1 \in Batches /\ b \in Batches /\ d.outcome \in Outcomes /\ state \in States
      /\ d.smoke \in BOOLEAN
  BY RolloutAssumption DEF Batches, Gates, RolloutTypeOK, Results
<1>2. RolloutTypeOK'
  BY RecordedType DEF Gates, RolloutTypeOK
<1>3. flying' \subseteq flying OBVIOUS
<1>4. CASE d.smoke /\ state.phase # "B001_SMOKE_RUNNING"
  <2>1. state' = state BY <1>4 DEF Recorded, SmokeRecorded
  <2>2. flying' = flying /\ d \in delivered BY <1>4 DEF Gates, Smoke
  <2>3. delivered' = delivered BY <2>2
  <2> QED BY <1>2, <2>1, <2>2, <2>3
          DEF Gates, Start, Smoke, First, Later, Planned, GatesHeld, ReadyMeansAll, Known, Passed
<1>5. CASE d.smoke /\ state.phase = "B001_SMOKE_RUNNING"
  <2>1. /\ state.smoke \notin SUCCESS_BATCH /\ delivered = {}
        /\ plan \subseteq [batch : {1}, smoke : {TRUE}]
    BY <1>5 DEF Gates, Start
  <2>2. flying' = {} /\ delivered' = {d}
    <3>1. \A r \in flying : r.smoke BY <2>1 DEF Gates, Smoke, Known, Full
    <3> QED BY <3>1, <2>1 DEF Gates, Smoke
  <2>3. /\ state'.status = state.status /\ state'.active = state.active
        /\ \/ state'.phase = "B001_SMOKE_PASS" /\ state'.smoke \in SUCCESS_BATCH
           \/ state'.phase = "BLOCKED"
    BY <1>1, <1>5 DEF Recorded, SmokeRecorded, States
  <2>4. \A c \in Batches : state.status[c] = "PENDING"
    BY <2>1, <1>1 DEF Gates, GatesHeld, Passed, SUCCESS_BATCH
  <2>5. \A c \in plan' : c.smoke /\ c.batch = 1 BY <2>1
  <2>6. Start' /\ Smoke' /\ First' /\ Later' /\ Planned'
    BY <1>5, <2>2, <2>3, <2>5 DEF Start, Smoke, First, Later, Planned, Known, Full, FullPhases
  <2>7. GatesHeld' /\ ReadyMeansAll' BY <1>1, <2>3, <2>4 DEF GatesHeld, ReadyMeansAll
  <2> QED BY <1>2, <2>6, <2>7 DEF Gates
<1>6. CASE ~d.smoke
  <2> DEFINE phase == IF b # 1 THEN NextPhase(state'.active, state'.status)
                      ELSE IF d.outcome \in SUCCESS_BATCH THEN "B001_FULL_PASS" ELSE "BLOCKED"
  <2>1. /\ state'.active = state.active \ {b}
        /\ state'.status = [state.status EXCEPT ![b] = d.outcome]
        /\ state'.smoke = state.smoke /\ state'.phase = phase
    BY <1>1, <1>6 DEF Recorded, BatchRecorded, States
  <2>2. /\ state'.status[b] = d.outcome
        /\ \A c \in Batches : c # b => state'.status[c] = state.status[c]
    BY <2>1, <1>1 DEF States
  <2>3. /\ state.smoke \in SUCCESS_BATCH
        /\ b # 1 => Passed(1)
    BY <1>6 DEF Gates, Smoke, Later, Known, Full
  <2>4. \A r \in flying : ~r.smoke
    BY <2>3 DEF Gates, Smoke, Start
  <2>5. Passed(1) => Passed(1)'
    <3>1. CASE b # 1 BY <3>1, <1>1, <2>2 DEF Passed
    <3>2. CASE b = 1 /\ d \in delivered BY <3>2, <1>6, <2>2 DEF Gates, First, Full, Passed
    <3>3. CASE b = 1 /\ d \notin delivered
      <4>1. state.status[1] = "RUNNING" BY <3>3, <1>6 DEF Gates, First, Full
      <4> QED BY <4>1 DEF Passed, SUCCESS_BATCH
    <3> QED BY <3>1, <3>2, <3>3
  <2>6. /\ b = 1 => phase \in {"B001_FULL_PASS", "BLOCKED"} /\ (phase = "B001_FULL_PASS" <=> Passed(1)')
        /\ b # 1 => phase \in FullPhases \cup {"FULL_REDUCTION_READY"} /\ phase # "B001_FULL_PASS"
    BY <2>2 DEF NextPhase, FullPhases, Passed
  <2>7. Start' BY <2>1, <2>6 DEF Start, FullPhases
  <2>8. Smoke'
    BY <1>3, <1>6, <2>1, <2>3, <2>4, <2>6 DEF Gates, Smoke, Known, Full, FullPhases
  <2>9. \A r \in flying' : r.batch # 1
    <3>1. CASE b # 1 BY <3>1, <1>3, <2>3, <2>4 DEF Gates, First, Passed, SUCCESS_BATCH, Full
    <3>2. CASE b = 1 /\ d \in delivered
      <4>1. state.phase # "B001_FULL_RUNNING" BY <3>2, <1>6 DEF Gates, First
      <4> QED BY <4>1, <1>3, <2>4 DEF Gates, First, Full
    <3>3. CASE b = 1 /\ d \notin delivered
      BY <3>3, <1>6, <2>4 DEF Gates, First, Full
    <3> QED BY <3>1, <3>2, <3>3
  <2>10. First'
    <3>1. ASSUME NEW e \in delivered', Full(e), e.batch = 1 PROVE state'.status[1] = e.outcome
      <4>1. CASE e = d BY <4>1, <3>1, <2>2
      <4>2. CASE e \in delivered /\ b # 1
        BY <4>2, <3>1, <1>1, <2>2 DEF Gates, First
      <4>3. CASE e \in delivered /\ b = 1
        <5>1. state.status[1] = e.outcome /\ state.phase # "B001_FULL_RUNNING"
          BY <4>3, <3>1 DEF Gates, First, Full
        <5>2. d \in delivered BY <5>1, <4>3, <1>6 DEF Gates, First, Full
        <5> QED BY <5>1, <5>2, <4>3, <1>6, <2>2 DEF Gates, First, Full
      <4> QED BY <4>1, <4>2, <4>3, <3>1
    <3> QED BY <3>1, <2>1, <2>6, <2>9 DEF First, FullPhases
  <2>11. Later'
    <3>1. ASSUME NEW r \in Known', Full(r), r.batch # 1 PROVE Passed(1)'
      <4>1. CASE r = d BY <4>1, <3>1, <2>3, <2>5
      <4>2. CASE r \in Known BY <4>2, <3>1, <2>5 DEF Gates, Later
      <4> QED BY <4>1, <4>2, <1>3 DEF Known
    <3>2. phase \in FullPhases \cup {"FULL_REDUCTION_READY"} => Passed(1)'
      BY <2>3, <2>5, <2>6 DEF FullPhases
    <3> QED BY <3>1, <3>2, <2>1, <2>3, <2>6 DEF Later, FullPhases
  <2>12. Planned' BY <2>1 DEF Gates, Planned
  <2>13. GatesHeld'
    <3>1. ASSUME NEW c \in Batches \ {1}, state'.status[c] # "PENDING" PROVE Passed(1)'
      <4>1. CASE c = b BY <4>1, <2>3, <2>5
      <4>2. CASE c # b BY <4>2, <3>1, <2>2, <2>5 DEF Gates, GatesHeld
      <4> QED BY <4>1, <4>2
    <3> QED BY <3>1, <2>1, <2>3 DEF GatesHeld
  <2>14. ReadyMeansAll'
    <3> SUFFICES ASSUME state'.phase = "FULL_REDUCTION_READY"
                 PROVE  state'.active = {} /\ \A c \in Batches : Passed(c)'
      BY DEF ReadyMeansAll, Passed
    <3>1. b # 1 BY <2>1, <2>6
    <3>2. Passed(1)' BY <3>1, <2>3, <2>5
    <3>3. NextPhase(state'.active, state'.status) = "FULL_REDUCTION_READY" BY <3>1, <2>1
    <3> QED BY <3>2, <3>3 DEF NextPhase, Passed
  <2> QED BY <1>2, <2>7, <2>8, <2>10, <2>11, <2>12, <2>13, <2>14 DEF Gates
<1> QED BY <1>1, <1>4, <1>5, <1>6

\* Every step keeps the gates.
LEMMA StepGates == ASSUME Gates, [RolloutNext]_rolloutVars PROVE Gates'
<1>1. CASE Plan BY <1>1, PlanGates
<1>2. CASE \E a \in plan : Run(a) BY <1>2, RunGates
<1>3. ASSUME NEW r \in flying, NEW outcome \in Outcomes, Record(r, outcome) PROVE Gates'
  <2> DEFINE d == [batch |-> r.batch, smoke |-> r.smoke, attempt |-> r.attempt, outcome |-> outcome]
  <2>1. d \in Results BY <1>3 DEF Gates, RolloutTypeOK, Runs, Results
  <2>2. /\ state' = Recorded(state, d) /\ plan' = plan /\ delivered' = delivered \cup {d}
        /\ duplicates' = duplicates /\ flying' = flying \ {r}
    BY <1>3 DEF Record
  <2>3. d.batch = r.batch /\ d.smoke = r.smoke OBVIOUS
  <2> HIDE DEF d
  <2> QED BY <2>1, <2>2, <2>3, RecordedGates DEF Gates, RolloutTypeOK
<1>4. ASSUME NEW d \in delivered, RecordAgain(d) PROVE Gates'
  <2>1. d \in Results /\ delivered' = delivered \cup {d} BY <1>4 DEF Gates, RolloutTypeOK, RecordAgain
  <2>2. duplicates' \in Nat BY <1>4 DEF Gates, RolloutTypeOK, RecordAgain
  <2> QED BY <2>1, <2>2, <1>4, RecordedGates DEF RecordAgain
<1>5. CASE UNCHANGED rolloutVars
  BY <1>5 DEF rolloutVars, Gates, RolloutTypeOK, Start, Smoke, First, Later, Planned, GatesHeld, ReadyMeansAll,
              Known, Passed
<1> QED BY <1>1, <1>2, <1>3, <1>4, <1>5 DEF RolloutNext

\* The gates hold always.
LEMMA GatesInvariant == RolloutSpec => []Gates
<1>1. RolloutInit => Gates BY InitGates
<1>2. Gates /\ [RolloutNext]_rolloutVars => Gates' BY StepGates
<1> QED BY <1>1, <1>2, PTL DEF RolloutSpec

\* The rollout state, the plan and the results keep their types, and rollout_state
\* never has a phase that load_rollout refuses.
THEOREM RolloutTypes == RolloutSpec => []RolloutTypeOK
<1>1. Gates => RolloutTypeOK BY DEF Gates
<1> QED BY <1>1, GatesInvariant, PTL

\* Neither gate can be bypassed, whatever results are recorded again: smoke before
\* the first batch, the first batch before the others.
THEOREM GatesHold == RolloutSpec => []GatesHeld
<1>1. Gates => GatesHeld BY DEF Gates
<1> QED BY <1>1, GatesInvariant, PTL

\* The reduction is never declared ready too early, whatever is recorded again.
THEOREM ReadyHolds == RolloutSpec => []ReadyMeansAll
<1>1. Gates => ReadyMeansAll BY DEF Gates
<1> QED BY <1>1, GatesInvariant, PTL

----------------------------------------------------------------------------
(* With every result recorded once, the runs in flight are the active ones, *)
(* and a rollout that goes on has a batch left to run.                      *)

Flights ==
  /\ \A r \in flying : Full(r) => r.batch \in state.active
  /\ \A b \in state.active : \E r \in flying : Full(r) /\ r.batch = b
  /\ \A r, q \in flying : r.batch = q.batch => r = q

Left ==
  /\ \A b \in Batches : b \in state.active <=> state.status[b] = "RUNNING"
  /\ state.phase \in FullPhases /\ BatchCount > 1 => \E b \in Batches \ {1} : ~Passed(b)

Once == duplicates = 0 => Flights /\ Left

Slots == Cardinality(state.active) <= MaxActive

RolloutIInv == Gates /\ Slots /\ Once

\* Slots and flights agree initially.
LEMMA InitOnce == RolloutInit => Slots /\ Once
<1> SUFFICES ASSUME RolloutInit PROVE Slots /\ Once OBVIOUS
<1>1. /\ state.phase = "B001_SMOKE_READY" /\ flying = {} /\ state.active = {}
      /\ \A b \in Batches : state.status[b] = "PENDING"
  BY DEF RolloutInit
<1>2. Slots BY <1>1, FS_EmptySet DEF Slots, MaxActive
<1>3. Flights BY <1>1 DEF Flights
<1>4. Left BY <1>1 DEF Left, FullPhases
<1> QED BY <1>2, <1>3, <1>4 DEF Once

\* Starting a run takes a slot.
LEMMA RunOnce == ASSUME RolloutIInv, NEW a \in plan, Run(a) PROVE Slots' /\ Once'
<1>1. 1 \in Batches BY RolloutAssumption DEF Batches
<1>2. a \in Actions /\ a.batch \in Batches /\ a.smoke \in BOOLEAN /\ state \in States
  BY DEF RolloutIInv, Gates, RolloutTypeOK, Actions
<1>3. CASE ~Markable(state, a)
  <2>1. UNCHANGED <<state, flying, duplicates>> BY <1>3 DEF Run
  <2> QED BY <2>1 DEF RolloutIInv, Slots, Once, Flights, Left, Passed
<1>4. CASE Markable(state, a) /\ a.smoke
  <2>1. flying = {} BY <1>4 DEF Markable, RolloutIInv, Gates, Start
  <2>2. /\ \E r : r.smoke = TRUE /\ flying' = {r}
        /\ duplicates' = duplicates
        /\ state'.status = state.status /\ state'.active = state.active
        /\ state'.phase = "B001_SMOKE_RUNNING"
    <3>1. state' = [state EXCEPT !.phase = "B001_SMOKE_RUNNING", !.smoke = "RUNNING"]
      BY <1>4 DEF Run, Marked
    <3>2. flying' = {[batch |-> a.batch, smoke |-> a.smoke, attempt |-> state'.attempts[a.batch]]}
      BY <1>4, <2>1 DEF Run
    <3> QED BY <3>1, <3>2, <1>2, <1>4 DEF Run, States
  <2>3. duplicates = 0 => state.active = {} BY <2>1 DEF RolloutIInv, Once, Flights
  <2>4. Once' BY <2>2, <2>3 DEF RolloutIInv, Once, Flights, Left, Full, FullPhases
  <2> QED BY <2>2, <2>4 DEF RolloutIInv, Slots
<1>5. CASE Markable(state, a) /\ ~a.smoke
  <2> DEFINE b == a.batch
             made == [batch |-> b, smoke |-> FALSE, attempt |-> state'.attempts[b]]
  <2>1. /\ state'.status = [state.status EXCEPT ![b] = "RUNNING"]
        /\ state'.active = state.active \cup {b}
        /\ b = 1 => state'.phase = "B001_FULL_RUNNING"
    BY <1>2, <1>5 DEF Run, Marked, States
  <2>2. flying' = flying \cup {made} /\ duplicates' = duplicates BY <1>2, <1>5 DEF Run
  <2>3. Slots' BY <1>5, <2>1 DEF Markable, Slots
  <2>4. ASSUME duplicates = 0 PROVE \A r \in flying : Full(r) /\ r.batch # b
    <3>1. state.phase # "B001_SMOKE_RUNNING" BY <1>5 DEF Markable, FullPhases
    <3>2. \A r \in flying : Full(r) BY <3>1 DEF RolloutIInv, Gates, Smoke, Full
    <3>3. CASE b = 1 BY <3>3, <1>5 DEF Markable, RolloutIInv, Gates, First
    <3>4. CASE b # 1
      <4>1. b \notin state.active BY <3>4, <1>5 DEF RolloutIInv, Gates, Planned, Full
      <4> QED BY <4>1, <3>2, <2>4 DEF RolloutIInv, Once, Flights
    <3> QED BY <3>2, <3>3, <3>4
  <2>5. ASSUME duplicates = 0 PROVE Flights'
    <3>1. Flights BY <2>5 DEF RolloutIInv, Once
    <3>2. made.batch = b /\ Full(made) BY DEF Full
    <3> HIDE DEF made, b
    <3> QED BY <3>1, <3>2, <2>1, <2>2, <2>4, <2>5 DEF Flights
  <2>6. ASSUME duplicates = 0 PROVE Left'
    <3>1. Left BY <2>6 DEF RolloutIInv, Once
    <3>2. state'.status[b] = "RUNNING" /\ \A c \in Batches : c # b => state'.status[c] = state.status[c]
      BY <1>2, <2>1 DEF States
    <3>3. b # 1 => ~Passed(b)' BY <3>2 DEF Passed, SUCCESS_BATCH
    <3> QED BY <3>1, <3>2, <3>3, <1>2, <2>1 DEF Left, FullPhases
  <2> QED BY <2>2, <2>3, <2>5, <2>6 DEF Once
<1> QED BY <1>3, <1>4, <1>5

\* A result recorded for the first time frees the slot of its run.
LEMMA RecordOnce ==
  ASSUME RolloutIInv, NEW f \in flying, NEW outcome \in Outcomes, Record(f, outcome)
  PROVE  Once'
<1> DEFINE b == f.batch
           d == [batch |-> b, smoke |-> f.smoke, attempt |-> f.attempt, outcome |-> outcome]
<1>1. /\ 1 \in Batches /\ b \in Batches /\ f.smoke \in BOOLEAN /\ state \in States
  BY RolloutAssumption DEF Batches, RolloutIInv, Gates, RolloutTypeOK, Runs
<1>2. state' = Recorded(state, d) /\ duplicates' = duplicates /\ flying' = flying \ {f}
  BY DEF Record
<1> SUFFICES ASSUME duplicates = 0 PROVE Flights' /\ Left'
  BY <1>2 DEF Once
<1>3. Flights /\ Left BY DEF RolloutIInv, Once
<1>4. CASE f.smoke
  <2>1. state'.status = state.status /\ state'.active = state.active
    BY <1>1, <1>2, <1>4 DEF Recorded, SmokeRecorded, States
  <2>2. state'.phase \notin FullPhases
    BY <1>1, <1>2, <1>4 DEF Recorded, SmokeRecorded, States, RolloutIInv, Gates, Smoke, FullPhases
  <2>3. Flights' BY <1>2, <1>3, <1>4, <2>1 DEF Flights, Full
  <2> QED BY <1>3, <2>1, <2>2, <2>3 DEF Left
<1>5. CASE ~f.smoke
  <2> DEFINE phase == IF b # 1 THEN NextPhase(state'.active, state'.status)
                      ELSE IF outcome \in SUCCESS_BATCH THEN "B001_FULL_PASS" ELSE "BLOCKED"
  <2>1. /\ state'.active = state.active \ {b}
        /\ state'.status = [state.status EXCEPT ![b] = outcome]
        /\ state'.phase = phase
    BY <1>1, <1>2, <1>5 DEF Recorded, BatchRecorded, States
  <2>2. /\ state'.status[b] = outcome
        /\ \A c \in Batches : c # b => state'.status[c] = state.status[c]
    BY <2>1, <1>1 DEF States
  <2>3. Flights' BY <1>2, <1>3, <1>5, <2>1 DEF Flights, Full
  <2>4. \A c \in Batches : c \in state'.active <=> state'.status[c] = "RUNNING"
    BY <1>3, <2>1, <2>2 DEF Left, Outcomes, SUCCESS_BATCH
  <2>5. ASSUME phase \in FullPhases, BatchCount > 1 PROVE \E c \in Batches \ {1} : ~Passed(c)'
    <3>1. CASE b = 1
      <4>1. state.status[1] = "RUNNING" BY <3>1, <1>5 DEF RolloutIInv, Gates, First, Full
      <4>2. 2 \in Batches \ {1} BY <2>5, RolloutAssumption DEF Batches
      <4>3. state.status[2] = "PENDING" BY <4>1, <4>2 DEF RolloutIInv, Gates, GatesHeld, Passed, SUCCESS_BATCH
      <4> QED BY <3>1, <4>2, <4>3, <2>2 DEF Passed, SUCCESS_BATCH
    <3>2. CASE b # 1
      <4>1. NextPhase(state'.active, state'.status) # "FULL_REDUCTION_READY"
        BY <3>2, <2>5 DEF FullPhases
      <4>2. CASE state'.active = {} BY <4>1, <4>2 DEF NextPhase, Passed
      <4>3. CASE state'.active # {}
        <5>1. PICK c \in state'.active : TRUE BY <4>3
        <5>2. c \in Batches /\ state'.status[c] = "RUNNING" BY <5>1, <1>1, <2>1, <2>4 DEF States
        <5>3. PICK r \in flying : Full(r) /\ r.batch = c BY <5>1, <2>1, <1>3 DEF Flights
        <5>4. Passed(1) BY <3>2, <1>5 DEF RolloutIInv, Gates, Later, Known, Full
        <5>5. c # 1 BY <5>3, <5>4 DEF RolloutIInv, Gates, First, Passed, SUCCESS_BATCH
        <5> QED BY <5>2, <5>5 DEF Passed, SUCCESS_BATCH
      <4> QED BY <4>2, <4>3
    <3> QED BY <3>1, <3>2
  <2> QED BY <2>1, <2>3, <2>4, <2>5 DEF Left
<1> QED BY <1>1, <1>4, <1>5

\* Recording frees slots and takes none.
LEMMA RecordSlots ==
  ASSUME RolloutIInv, NEW d \in Results, state' = Recorded(state, d) PROVE Slots'
<1>1. state \in States /\ state.active \subseteq Batches BY DEF RolloutIInv, Gates, RolloutTypeOK, States
<1>2. IsFiniteSet(state.active)
  <2>1. IsFiniteSet(Batches) BY RolloutAssumption, FS_Interval DEF Batches
  <2> QED BY <1>1, <2>1, FS_Subset
<1>3. state'.active \in {state.active, state.active \ {d.batch}}
  BY <1>1 DEF Recorded, SmokeRecorded, BatchRecorded, States
<1>4. Cardinality(state.active) \in Nat /\ Cardinality(state'.active) \in Nat
      /\ Cardinality(state'.active) <= Cardinality(state.active)
  BY <1>2, <1>3, FS_CardinalityType, FS_Subset
<1> QED BY <1>4 DEF RolloutIInv, Slots, MaxActive

\* Every step keeps the invariant.
LEMMA StepIInv == ASSUME RolloutIInv, [RolloutNext]_rolloutVars PROVE RolloutIInv'
<1>1. Gates' BY StepGates DEF RolloutIInv
<1>2. CASE Plan BY <1>1, <1>2 DEF Plan, RolloutIInv, Slots, Once, Flights, Left, Passed
<1>3. CASE \E a \in plan : Run(a) BY <1>1, <1>3, RunOnce DEF RolloutIInv
<1>4. ASSUME NEW r \in flying, NEW outcome \in Outcomes, Record(r, outcome) PROVE RolloutIInv'
  <2> DEFINE d == [batch |-> r.batch, smoke |-> r.smoke, attempt |-> r.attempt, outcome |-> outcome]
  <2>1. d \in Results BY <1>4 DEF RolloutIInv, Gates, RolloutTypeOK, Runs, Results
  <2>2. state' = Recorded(state, d) BY <1>4 DEF Record
  <2> HIDE DEF d
  <2> QED BY <1>1, <1>4, <2>1, <2>2, RecordSlots, RecordOnce DEF RolloutIInv
<1>5. ASSUME NEW d \in delivered, RecordAgain(d) PROVE RolloutIInv'
  <2>1. d \in Results /\ state' = Recorded(state, d) BY <1>5 DEF RolloutIInv, Gates, RolloutTypeOK, RecordAgain
  <2>2. duplicates' # 0 BY <1>5 DEF RolloutIInv, Gates, RolloutTypeOK, RecordAgain
  <2> QED BY <1>1, <2>1, <2>2, RecordSlots DEF RolloutIInv, Once
<1>6. CASE UNCHANGED rolloutVars BY <1>1, <1>6 DEF rolloutVars, RolloutIInv, Slots, Once, Flights, Left, Passed
<1> QED BY <1>2, <1>3, <1>4, <1>5, <1>6 DEF RolloutNext

\* The invariant holds always.
LEMMA Invariant == RolloutSpec => []RolloutIInv
<1>1. RolloutInit => RolloutIInv BY InitGates, InitOnce DEF RolloutIInv
<1>2. RolloutIInv /\ [RolloutNext]_rolloutVars => RolloutIInv' BY StepIInv
<1> QED BY <1>1, <1>2, PTL DEF RolloutSpec

\* With every result recorded once, no more than two batches are being processed,
\* each by one run, and active_batches says which.
THEOREM TwoHolds == RolloutSpec => []TwoAtATime
<1>1. RolloutIInv => TwoAtATime
  <2> SUFFICES ASSUME RolloutIInv, duplicates = 0
               PROVE  /\ {r.batch : r \in {q \in flying : ~q.smoke}} = state.active
                      /\ \A r, q \in flying : r.batch = q.batch => r = q
    BY DEF TwoAtATime, RolloutIInv, Slots
  <2> QED BY DEF RolloutIInv, Once, Flights, Full
<1> QED BY <1>1, Invariant, PTL

\* Some batch comes first in every nonempty set of batches.
LEMMA FirstBatch == ASSUME NEW S \in SUBSET Nat, S # {} PROVE \E b \in S : \A c \in S : ~(c < b)
<1>1. IsWellFoundedOn(OpToRel(<, Nat), Nat) BY NatLessThanWellFounded
<1>2. PICK b \in S : \A c \in S : ~(<<c, b>> \in OpToRel(<, Nat)) BY <1>1, WFMin
<1> QED BY <1>2 DEF OpToRel

\* With every result recorded once, a rollout of several batches never comes to a
\* halt before it is done or blocked.
THEOREM NeverStallsHolds == RolloutSpec => []NeverStalls
<1>1. RolloutIInv => NeverStalls
  <2> SUFFICES ASSUME RolloutIInv, duplicates = 0, BatchCount > 1, flying = {},
                      state.phase \notin {"FULL_REDUCTION_READY", "BLOCKED"}
               PROVE  PlannedActions(state) # {}
    BY DEF NeverStalls
  <2>1. state \in States BY DEF RolloutIInv, Gates, RolloutTypeOK
  <2>2. state.phase \in FullPhases \cup {"B001_SMOKE_READY", "B001_SMOKE_PASS"}
    BY <2>1 DEF States, Phases, FullPhases, RolloutIInv, Gates, Smoke, First, Later
  <2>3. CASE state.phase \in {"B001_SMOKE_READY", "B001_SMOKE_PASS"} BY <2>3 DEF PlannedActions
  <2>4. CASE state.phase \in FullPhases
    <3>1. Flights /\ Left BY DEF RolloutIInv, Once
    <3>2. state.active = {} BY <3>1 DEF Flights
    <3>3. PICK b \in Batches \ {1} : ~Passed(b) BY <2>4, <3>1 DEF Left
    <3>4. state.status[b] \in {"PENDING", "FAILED", "DEFERRED"}
      BY <2>1, <3>1, <3>2, <3>3 DEF Left, States, Statuses, Outcomes, Passed
    <3>5. Startable(state) # {} /\ Startable(state) \subseteq Nat
      BY <3>2, <3>3, <3>4 DEF Startable, Batches
    <3>6. PICK c \in Startable(state) : \A e \in Startable(state) : ~(e < c) BY <3>5, FirstBatch
    <3>7. {e \in Startable(state) : e < c} = {} BY <3>6
    <3>8. c \in Chosen(state) BY <3>7, FS_EmptySet DEF Chosen
    <3>9. PlannedActions(state) = {[batch |-> e, smoke |-> FALSE] : e \in Chosen(state)}
      BY <2>4 DEF PlannedActions, FullPhases
    <3> QED BY <3>8, <3>9
  <2> QED BY <2>2, <2>3, <2>4
<1> QED BY <1>1, Invariant, PTL

=============================================================================
