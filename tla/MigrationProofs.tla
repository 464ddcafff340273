--------------------------- MODULE MigrationProofs ---------------------------
(***************************************************************************)
(* Proofs about Migration, for every set of processes and files.           *)
(*                                                                         *)
(* What makes the checks right is Reached: a process past a file, or about *)
(* to record it, has seen it complete, and effects are never undone.       *)
(***************************************************************************)
EXTENDS Migration, TLAPS

CompleteBefore(n) == \A f \in 1 .. Files : f < n => Complete(f)

(* How far each process has come is how far the database is.               *)
ReachedBy(p) ==
    /\ pc[p] \in {"check", "run", "record", "up"} => CompleteBefore(file[p])
    /\ pc[p] = "up" => file[p] > Files
    /\ pc[p] \in {"run", "record"} => file[p] \in 1 .. Files
    /\ pc[p] = "run" => /\ statement[p] <= effect[file[p]] + 1
                        /\ statement[p] <= Statements[file[p]]
    /\ pc[p] = "record" => Complete(file[p])

Reached == \A p \in Processes : ReachedBy(p)

IInv == TypeOK /\ RecordedIsComplete /\ FilesInOrder /\ Reached

LEMMA InitIInv == Init => IInv
  BY MigrationAssumption
     DEF Init, IInv, TypeOK, RecordedIsComplete, FilesInOrder, Reached, ReachedBy,
         CompleteBefore, Complete

(* The step of one statement.                                              *)
LEMMA RunStep == ASSUME IInv, NEW p \in Processes, Run(p) PROVE IInv'
  <1> DEFINE f == file[p]
  <1>1. f \in 1 .. Files /\ statement[p] \in Nat \ {0} /\ effect[f] \in Nat /\ Statements[f] \in Nat \ {0}
    BY MigrationAssumption DEF IInv, TypeOK, Reached, ReachedBy, Run
  <1>2. /\ effect' \in [1 .. Files -> Nat]
        /\ \A g \in 1 .. Files : g # f => effect'[g] = effect[g]
    BY <1>1 DEF Run, IInv, TypeOK
  <1>a. statement[p] <= Statements[f] /\ effect[f] <= Statements[f]
    BY <1>1 DEF Run, IInv, TypeOK, Reached, ReachedBy
  <1>b. effect'[f] = IF statement[p] <= effect[f] THEN effect[f] ELSE statement[p]
    BY <1>1 DEF Run, IInv, TypeOK, Repeated
  <1>3. effect'[f] >= effect[f] /\ effect'[f] >= statement[p] /\ effect'[f] <= Statements[f] /\ effect'[f] \in Nat
    BY <1>1, <1>a, <1>b
  <1>4. \A g \in 1 .. Files : effect[g] = Statements[g] => effect'[g] = Statements[g]
    <2>1. SUFFICES ASSUME NEW g \in 1 .. Files, effect[g] = Statements[g]
                   PROVE  effect'[g] = Statements[g]
      OBVIOUS
    <2> QED BY <2>1, <1>1, <1>2, <1>3
  <1>5. TypeOK'
    <2>1. \A g \in 1 .. Files : effect'[g] <= Statements[g]
      BY <1>2, <1>3 DEF IInv, TypeOK
    <2>2. statement' \in [Processes -> Nat \ {0}]
      BY <1>1 DEF IInv, TypeOK, Run
    <2>3. pc' \in [Processes -> {"down", "check", "run", "record", "up", "failed"}]
      BY DEF IInv, TypeOK, Run
    <2> QED BY <1>2, <2>1, <2>2, <2>3 DEF IInv, TypeOK, Run
  <1>6. RecordedIsComplete'
    BY <1>4 DEF IInv, RecordedIsComplete, Complete, TypeOK, Run
  <1>8. FilesInOrder'
    <2>1. CompleteBefore(f)
      BY DEF IInv, Reached, ReachedBy, Run
    <2>2. SUFFICES ASSUME NEW g \in 1 .. Files, NEW h \in 1 .. Files, g < h, effect'[h] > 0
                   PROVE  Complete(g)'
      BY DEF FilesInOrder, Complete
    <2>3. CASE h = f
      BY <2>1, <2>2, <2>3, <1>4 DEF CompleteBefore, Complete
    <2>4. CASE h # f
      <3>1. effect[h] > 0
        BY <2>2, <2>4, <1>2
      <3>2. Complete(g)
        BY <2>2, <3>1 DEF IInv, FilesInOrder
      <3> QED BY <3>2, <1>4, <2>2 DEF Complete
    <2> QED BY <2>3, <2>4
  <1>9. Reached'
    <2>1. SUFFICES ASSUME NEW q \in Processes PROVE ReachedBy(q)'
      BY DEF Reached
    <2>2. CASE q = p
      <3>1. pc'[p] = IF statement[p] = Statements[f] THEN "record" ELSE "run"
        BY DEF Run, IInv, TypeOK
      <3>2. statement'[p] = statement[p] + 1 /\ file'[p] = file[p]
        BY DEF Run, IInv, TypeOK
      <3>3. \A g \in 1 .. Files : g < file[p] => effect'[g] = Statements[g]
        BY <1>4 DEF IInv, Reached, ReachedBy, Run, CompleteBefore, Complete
      <3>4. statement[p] = Statements[f] => effect'[f] = Statements[f]
        BY <1>1, <1>3
      <3>5. statement[p] # Statements[f] => statement[p] + 1 <= Statements[f]
        BY <1>1, <1>a
      <3>6. statement[p] + 1 <= effect'[f] + 1
        BY <1>1, <1>3
      <3>7. pc'[p] \in {"run", "record"} /\ pc'[p] # "up" /\ file'[p] \in 1 .. Files
        BY <3>1, <3>2, <1>1
      <3>8. pc'[p] = "run" => statement'[p] <= effect'[file[p]] + 1
                             /\ statement'[p] <= Statements[file[p]]
        BY <3>1, <3>2, <3>5, <3>6
      <3>9. pc'[p] = "record" => effect'[file[p]] = Statements[file[p]]
        BY <3>1, <3>4
      <3>a. ReachedBy(p)'
        <4>1. CompleteBefore(file[p])'
          BY <3>2, <3>3 DEF CompleteBefore, Complete
        <4>2. pc'[p] = "record" => Complete(file[p])'
          BY <3>2, <3>9 DEF Complete
        <4> QED BY <4>1, <4>2, <3>2, <3>7, <3>8 DEF ReachedBy
      <3> QED BY <2>2, <3>a
    <2>3. CASE q # p
      <3>1. pc'[q] = pc[q] /\ file'[q] = file[q] /\ statement'[q] = statement[q]
        BY <2>3 DEF Run, IInv, TypeOK
      <3>2. \A g \in 1 .. Files : effect'[g] >= effect[g] /\ effect[g] \in Nat /\ effect'[g] \in Nat
        <4>1. SUFFICES ASSUME NEW g \in 1 .. Files
                       PROVE  effect'[g] >= effect[g] /\ effect[g] \in Nat /\ effect'[g] \in Nat
          OBVIOUS
        <4>2. CASE g = f
          BY <4>2, <1>1, <1>3
        <4>3. CASE g # f
          <5>1. effect[g] \in Nat
            BY DEF IInv, TypeOK
          <5>2. effect'[g] = effect[g]
            BY <4>3, <1>2
          <5> QED BY <5>1, <5>2
        <4> QED BY <4>2, <4>3
      <3>3. ReachedBy(q) /\ statement[q] \in Nat
        BY DEF IInv, Reached, TypeOK
      <3>4. pc[q] = "run" => statement[q] <= effect'[file[q]] + 1
        BY <3>2, <3>3 DEF ReachedBy
      <3>5. pc[q] = "record" => effect'[file[q]] = Statements[file[q]]
        BY <1>4, <3>3 DEF ReachedBy, Complete
      <3>6. pc[q] \in {"check", "run", "record", "up"} =>
               \A g \in 1 .. Files : g < file[q] => effect'[g] = Statements[g]
        BY <1>4, <3>3 DEF ReachedBy, CompleteBefore, Complete
      <3> QED BY <3>1, <3>3, <3>4, <3>5, <3>6 DEF ReachedBy, CompleteBefore, Complete
    <2> QED BY <2>2, <2>3
  <1> QED BY <1>5, <1>6, <1>8, <1>9 DEF IInv

(* The other steps leave the effects alone.                                *)
LEMMA OtherStep ==
  ASSUME IInv, NEW p \in Processes,
         Start(p) \/ Crash(p) \/ Check(p) \/ RunFails(p) \/ Record(p)
  PROVE  IInv'
  <1>1. effect' = effect
    BY DEF Start, Crash, Check, RunFails, Record
  <1>2. \A n : CompleteBefore(n)' <=> CompleteBefore(n)
    BY <1>1 DEF CompleteBefore, Complete
  <1>3. \A f : Complete(f)' <=> Complete(f)
    BY <1>1 DEF Complete
  <1>4. FilesInOrder'
    BY <1>1 DEF IInv, FilesInOrder, Complete
  <1>5. TypeOK'
    <2>1. CASE Start(p)
      <3>1. pc' \in [Processes -> {"down", "check", "run", "record", "up", "failed"}]
        BY <2>1 DEF IInv, TypeOK, Start
      <3>2. file' \in [Processes -> 1 .. Files + 1]
        <4>1. 1 \in 1 .. Files + 1
          BY MigrationAssumption
        <4> QED BY <2>1, <4>1 DEF IInv, TypeOK, Start
      <3>3. starts' \in [Processes -> Nat]
        BY <2>1 DEF IInv, TypeOK, Start
      <3> QED BY <2>1, <3>1, <3>2, <3>3 DEF IInv, TypeOK, Start
    <2>2. CASE Crash(p) \/ RunFails(p)
      BY <2>2 DEF IInv, TypeOK, Crash, RunFails
    <2>3. CASE Check(p)
      <3>1. file[p] \in recorded => file[p] + 1 \in 1 .. Files + 1
        BY MigrationAssumption DEF IInv, TypeOK
      <3>2. pc' \in [Processes -> {"down", "check", "run", "record", "up", "failed"}]
        BY <2>3 DEF Check, IInv, TypeOK
      <3>4. statement' \in [Processes -> Nat \ {0}]
        BY <2>3 DEF Check, IInv, TypeOK
      <3>3. file' \in [Processes -> 1 .. Files + 1]
        BY <2>3, <3>1 DEF Check, IInv, TypeOK
      <3> QED BY <2>3, <3>2, <3>3, <3>4 DEF Check, IInv, TypeOK
    <2>4. CASE Record(p)
      <3>1. file[p] \in 1 .. Files
        BY <2>4 DEF IInv, Reached, ReachedBy, Record
      <3>2. file[p] + 1 \in 1 .. Files + 1
        BY <3>1, MigrationAssumption
      <3>3. pc' \in [Processes -> {"down", "check", "run", "record", "up", "failed"}]
            /\ file' \in [Processes -> 1 .. Files + 1]
        BY <2>4, <3>2 DEF Record, IInv, TypeOK
      <3>4. recorded' \subseteq 1 .. Files
        BY <2>4, <3>1 DEF Record, IInv, TypeOK
      <3> QED BY <2>4, <3>3, <3>4 DEF Record, IInv, TypeOK
    <2> QED BY <2>1, <2>2, <2>3, <2>4
  <1>6. RecordedIsComplete'
    BY <1>3 DEF IInv, RecordedIsComplete, Reached, ReachedBy, Start, Crash, Check, RunFails, Record
  <1>7. Reached'
    <2>1. SUFFICES ASSUME NEW q \in Processes PROVE ReachedBy(q)'
      BY DEF Reached
    <2>2. CASE q # p
      BY <2>2, <1>1 DEF CompleteBefore, Complete, IInv, TypeOK, Reached, ReachedBy, Start, Crash, Check, RunFails, Record
    <2>3. CASE q = p
      <3>1. CASE Start(p)
        BY <3>1, <2>3 DEF Start, IInv, TypeOK, CompleteBefore, ReachedBy
      <3>2. CASE Crash(p) \/ RunFails(p)
        BY <3>2, <2>3 DEF Crash, RunFails, IInv, TypeOK, ReachedBy
      <3>3. CASE Record(p)
        <4>1. pc'[p] = "check" /\ file'[p] = file[p] + 1
          BY <3>3 DEF Record, IInv, TypeOK
        <4>2. CompleteBefore(file[p]) /\ Complete(file[p]) /\ file[p] \in 1 .. Files
          BY <3>3 DEF Record, IInv, Reached, ReachedBy
        <4>3. CompleteBefore(file[p] + 1)
          BY <4>2, MigrationAssumption DEF CompleteBefore
        <4> QED BY <4>1, <4>3, <2>3, <1>1 DEF ReachedBy, CompleteBefore, Complete
      <3>4. CASE Check(p)
        <4>1. CompleteBefore(file[p]) /\ file[p] \in 1 .. Files + 1
          BY <3>4 DEF Check, IInv, Reached, ReachedBy, TypeOK
        <4>2. CASE file[p] > Files /\ pc' = [pc EXCEPT ![p] = "up"] /\ UNCHANGED <<file, statement>>
          BY <4>1, <4>2, <2>3, <1>1 DEF IInv, TypeOK, ReachedBy, CompleteBefore, Complete
        <4>3. CASE /\ file[p] \in recorded
                   /\ file' = [file EXCEPT ![p] = @ + 1]
                   /\ UNCHANGED <<pc, statement>>
          <5>1. Complete(file[p]) /\ pc'[p] = "check" /\ file'[p] = file[p] + 1
            BY <4>3, <3>4 DEF IInv, RecordedIsComplete, Check, TypeOK
          <5>2. CompleteBefore(file[p] + 1)
            BY <4>1, <5>1 DEF CompleteBefore
          <5> QED BY <5>1, <5>2, <2>3, <1>1 DEF ReachedBy, CompleteBefore, Complete
        <4>4. CASE /\ file[p] \in 1 .. Files \ recorded
                   /\ pc' = [pc EXCEPT ![p] = "run"]
                   /\ statement' = [statement EXCEPT ![p] = 1]
                   /\ UNCHANGED file
          <5>1. pc'[p] = "run" /\ statement'[p] = 1 /\ file'[p] = file[p]
            BY <4>4 DEF IInv, TypeOK
          <5>2. file[p] \in 1 .. Files /\ effect[file[p]] \in Nat /\ Statements[file[p]] \in Nat \ {0}
            BY <4>4, MigrationAssumption DEF IInv, TypeOK
          <5> QED BY <4>1, <5>1, <5>2, <2>3, <1>1 DEF ReachedBy, CompleteBefore, Complete
        <4> QED BY <3>4, <4>2, <4>3, <4>4 DEF Check
      <3> QED BY <3>1, <3>2, <3>3, <3>4
    <2> QED BY <2>2, <2>3
  <1> QED BY <1>4, <1>5, <1>6, <1>7 DEF IInv

LEMMA Inductive == IInv /\ [Next]_vars => IInv'
  <1>1. ASSUME IInv, UNCHANGED vars PROVE IInv'
    BY <1>1 DEF IInv, vars, TypeOK, RecordedIsComplete, FilesInOrder, Reached,
                ReachedBy, CompleteBefore, Complete
  <1>2. ASSUME IInv, Next PROVE IInv'
    BY <1>2, RunStep, OtherStep DEF Next
  <1> QED BY <1>1, <1>2

THEOREM Invariance == Spec => []IInv
  BY InitIInv, Inductive, PTL DEF Spec

(* No file takes effect twice over: effect stays within its statements.    *)
THEOREM TypeCorrect == Spec => []TypeOK
  BY Invariance, PTL DEF IInv

(* A recorded file has taken effect as a whole: skipping it in migrate is  *)
(* right, for any number of processes, files and crashes.                  *)
THEOREM RecordedIsCompleteAlways == Spec => []RecordedIsComplete
  BY Invariance, PTL DEF IInv

(* No migration file begins before those before it are complete.           *)
THEOREM FilesInOrderAlways == Spec => []FilesInOrder
  BY Invariance, PTL DEF IInv

(* migrate returns only with every file complete.                          *)
THEOREM UpMeansMigratedAlways == Spec => []UpMeansMigrated
  <1>1. IInv => UpMeansMigrated
    BY MigrationAssumption DEF IInv, TypeOK, Reached, ReachedBy, UpMeansMigrated, CompleteBefore
  <1> QED BY <1>1, Invariance, PTL

-----------------------------------------------------------------------------
(* FailsOnlyInWindow.  Window says how far a process that has the database *)
(* to itself is: in its first life every statement is new.                 *)

Alone(p) == \A q \in Processes \ {p} : starts[q] = 0

Window(p) ==
    /\ starts[p] = 0 => \A f \in 1 .. Files : effect[f] = 0
    /\ starts[p] = 1 /\ pc[p] \in {"check", "run", "record"} =>
         \A f \in 1 .. Files : f > file[p] => effect[f] = 0
    /\ starts[p] = 1 /\ pc[p] = "check" /\ file[p] \in 1 .. Files => effect[file[p]] = 0
    /\ starts[p] = 1 /\ pc[p] = "run" => statement[p] = effect[file[p]] + 1
    /\ pc[p] = "run" => file[p] \notin recorded
    /\ pc[p] = "failed" => starts[p] > 1 /\ \E f \in Once \ recorded : effect[f] > 0

Unborn == \A p \in Processes : starts[p] = 0 => pc[p] = "down"

WInv == Unborn /\ \A p \in Processes : Alone(p) => Window(p)

(* Nobody else can have made a step while a process is alone.              *)
LEMMA AloneSteps ==
  ASSUME IInv, WInv, Next, NEW p \in Processes, Alone(p)'
  PROVE  /\ Alone(p) /\ Window(p)
         /\ Start(p) \/ Crash(p) \/ Check(p) \/ Run(p) \/ RunFails(p) \/ Record(p)
  <1>1. PICK q \in Processes : Start(q) \/ Crash(q) \/ Check(q) \/ Run(q) \/ RunFails(q) \/ Record(q)
    BY DEF Next
  <1>2. \A r \in Processes : r # q => starts'[r] = starts[r]
    BY <1>1 DEF IInv, TypeOK, Start, Crash, Check, Run, RunFails, Record
  <1>3. q = p
    <2> SUFFICES ASSUME q # p PROVE FALSE
      OBVIOUS
    <2>1. starts'[q] = 0
      BY DEF Alone
    <2>2. ~Start(q) /\ starts[q] = 0
      BY <1>1, <2>1 DEF IInv, TypeOK, Start, Crash, Check, Run, RunFails, Record
    <2>3. pc[q] = "down"
      BY <2>2 DEF WInv, Unborn
    <2> QED BY <1>1, <2>2, <2>3 DEF Crash, Check, Run, RunFails, Record
  <1> QED BY <1>1, <1>2, <1>3 DEF Alone, WInv

LEMMA WindowStep ==
  ASSUME IInv, NEW p \in Processes, Alone(p), Window(p), Unborn,
         Start(p) \/ Crash(p) \/ Check(p) \/ Run(p) \/ RunFails(p) \/ Record(p)
  PROVE  Window(p)'
  <1>1. ~Locked(p)
    BY DEF Locked, Alone, Unborn
  <1>2. /\ starts[p] \in Nat /\ (pc[p] # "down" => starts[p] > 0)
        /\ file[p] \in 1 .. Files + 1 /\ Files \in Nat
        /\ pc[p] = "run" => file[p] \in 1 .. Files
    BY MigrationAssumption DEF IInv, TypeOK, Unborn, Reached, ReachedBy
  <1>3. CASE Start(p)
    <2>1. starts'[p] = starts[p] + 1 /\ pc'[p] = "check" /\ file'[p] = 1 /\ effect' = effect
      BY <1>3 DEF IInv, TypeOK, Start
    <2>2. starts'[p] = 1 => \A f \in 1 .. Files : effect[f] = 0
      BY <1>2, <2>1 DEF Window
    <2> QED BY <1>2, <2>1, <2>2 DEF Window
  <1>4. CASE Crash(p)
    BY <1>2, <1>4 DEF IInv, TypeOK, Window, Crash
  <1>5. CASE Check(p)
    <2>1. UNCHANGED <<recorded, effect, starts>>
      BY <1>5 DEF Check
    <2>2. CASE file[p] > Files /\ pc' = [pc EXCEPT ![p] = "up"] /\ UNCHANGED <<file, statement>>
      BY <1>2, <1>5, <2>1, <2>2 DEF IInv, TypeOK, Window, Check
    <2>3. CASE /\ file[p] \in recorded
               /\ file' = [file EXCEPT ![p] = @ + 1]
               /\ UNCHANGED <<pc, statement>>
      <3>1. effect[file[p]] > 0 /\ file[p] \in 1 .. Files
        BY <2>3, MigrationAssumption DEF IInv, TypeOK, RecordedIsComplete, Complete
      <3>2. starts[p] # 1
        BY <1>5, <3>1 DEF Window, Check
      <3> QED BY <1>5, <2>1, <2>3, <3>2 DEF Window, Check
    <2>4. CASE /\ file[p] \in 1 .. Files \ recorded
               /\ pc' = [pc EXCEPT ![p] = "run"]
               /\ statement' = [statement EXCEPT ![p] = 1]
               /\ UNCHANGED file
      <3>1. pc'[p] = "run" /\ statement'[p] = 1
        BY <2>4 DEF IInv, TypeOK
      <3>2. pc[p] = "check" /\ (starts[p] = 1 => effect[file[p]] = 0)
        BY <1>5, <2>4 DEF Window, Check
      <3> QED BY <1>2, <2>1, <2>4, <3>1, <3>2 DEF Window
    <2> QED BY <1>5, <2>2, <2>3, <2>4 DEF Check
  <1>6. CASE Run(p)
    <2>1. /\ pc'[p] \in {"run", "record"} /\ statement'[p] = statement[p] + 1
          /\ UNCHANGED <<recorded, file, starts>> /\ pc[p] = "run"
      BY <1>6 DEF IInv, TypeOK, Run
    <2>2. /\ \A f \in 1 .. Files : f # file[p] => effect'[f] = effect[f]
          /\ effect'[file[p]] = IF Repeated(p) THEN effect[file[p]] ELSE statement[p]
      BY <1>2, <1>6 DEF IInv, TypeOK, Run
    <2>3. statement[p] \in Nat /\ effect[file[p]] \in Nat
      BY <1>2, <2>1 DEF IInv, TypeOK
    <2>4. starts[p] = 1 => statement'[p] = effect'[file[p]] + 1
      BY <2>1, <2>2, <2>3 DEF Window, Repeated
    <2>5. starts[p] = 1 => \A f \in 1 .. Files : f > file[p] => effect'[f] = 0
      BY <1>2, <2>1, <2>2 DEF Window
    <2> QED BY <1>2, <2>1, <2>4, <2>5 DEF Window
  <1>7. CASE RunFails(p)
    <2>1. /\ pc[p] = "run" /\ Repeated(p) /\ file[p] \in Once \ recorded
          /\ UNCHANGED <<recorded, effect, file, statement, starts>> /\ pc'[p] = "failed"
      BY <1>1, <1>7 DEF IInv, TypeOK, RunFails, Window
    <2>2. effect[file[p]] > 0 /\ starts[p] # 1
      <3>1. statement[p] \in Nat \ {0} /\ effect[file[p]] \in Nat
        BY <1>2, <2>1 DEF IInv, TypeOK
      <3> QED BY <2>1, <3>1 DEF Repeated, Window
    <2> QED BY <1>2, <2>1, <2>2 DEF Window
  <1>8. CASE Record(p)
    <2>1. /\ pc'[p] = "check" /\ file'[p] = file[p] + 1 /\ UNCHANGED <<effect, starts>>
          /\ pc[p] = "record"
      BY <1>8 DEF IInv, TypeOK, Record
    <2> QED BY <1>2, <2>1 DEF Window
  <1> QED BY <1>3, <1>4, <1>5, <1>6, <1>7, <1>8

LEMMA UnbornStep == IInv /\ Unborn /\ Next => Unborn'
  <1> SUFFICES ASSUME IInv, Unborn, NEW q \in Processes,
                      Start(q) \/ Crash(q) \/ Check(q) \/ Run(q) \/ RunFails(q) \/ Record(q),
                      NEW p \in Processes, starts'[p] = 0
               PROVE  pc'[p] = "down"
    BY DEF Next, Unborn
  <1>1. CASE Start(q)
    BY <1>1 DEF IInv, TypeOK, Unborn, Start
  <1>2. CASE Crash(q) \/ Check(q) \/ Run(q)
    BY <1>2 DEF IInv, TypeOK, Unborn, Crash, Check, Run
  <1>3. CASE RunFails(q) \/ Record(q)
    BY <1>3 DEF IInv, TypeOK, Unborn, RunFails, Record
  <1> QED BY <1>1, <1>2, <1>3

LEMMA WindowInductive == IInv /\ WInv /\ [Next]_vars => WInv'
  <1>1. ASSUME IInv, WInv, Next PROVE WInv'
    <2>1. Unborn'
      BY <1>1, UnbornStep DEF WInv
    <2>2. ASSUME NEW p \in Processes, Alone(p)' PROVE Window(p)'
      BY <1>1, <2>2, AloneSteps, WindowStep DEF WInv
    <2> QED BY <2>1, <2>2 DEF WInv
  <1>2. ASSUME WInv, UNCHANGED vars PROVE WInv'
    BY <1>2 DEF vars, WInv, Unborn, Alone, Window
  <1> QED BY <1>1, <1>2

(* A process that has the database to itself fails only where an earlier   *)
(* start of its own was cut short between a statement that cannot be       *)
(* repeated and the record of its file, for any files and any kills.       *)
THEOREM FailsOnlyInWindowAlways == Spec => []FailsOnlyInWindow
  <1>1. Init => WInv
    BY DEF Init, WInv, Unborn, Alone, Window
  <1>2. WInv => FailsOnlyInWindow
    BY DEF WInv, Alone, Window, FailsOnlyInWindow
  <1> QED BY <1>1, <1>2, Invariance, WindowInductive, PTL DEF Spec

=============================================================================
