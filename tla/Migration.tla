------------------------------- MODULE Migration -------------------------------
(***************************************************************************)
(* Database::migrate (src/src/db/database.cpp), which every start of the   *)
(* bot runs on tts_bot.db.  The statements of a file, each committed by    *)
(* itself, and the row of _migrations that records the file are not one    *)
(* transaction, a start may be cut short anywhere, and the processes of a  *)
(* cluster (MAX_CLUSTERS) start together on the same database.             *)
(*                                                                         *)
(* A file is made either of statements that may be repeated, as            *)
(* 001_initial.sql (CREATE TABLE IF NOT EXISTS), or of statements that     *)
(* fail when they are, as 002_features.sql (ALTER TABLE ADD COLUMN).       *)
(* Files can be read: one that cannot be opened would run as an empty one  *)
(* and be recorded (database.cpp:57).                                      *)
(***************************************************************************)
EXTENDS Naturals

CONSTANTS
    Processes,      (* the processes on this database                    *)
    Files,          (* the files, 1 to Files in the order of their names *)
    Statements,     (* how many statements each has                      *)
    Once,           (* the files whose statements fail when repeated     *)
    MaxStarts       (* bound: how many times each process is started   *)

ASSUME MigrationAssumption ==
    /\ Files \in Nat
    /\ Statements \in [1 .. Files -> Nat \ {0}]
    /\ Once \subseteq 1 .. Files
    /\ MaxStarts \in Nat

VARIABLES
    recorded,       (* the table _migrations                             *)
    effect,         (* how many statements of each file took effect      *)
    pc,             (* what each process does                            *)
    file,           (* the file it is at                                 *)
    statement,      (* and the statement                                 *)
    starts          (* how often each process was started                *)

vars == <<recorded, effect, pc, file, statement, starts>>

Init ==
    /\ recorded = {}
    /\ effect = [f \in 1 .. Files |-> 0]
    /\ pc = [p \in Processes |-> "down"]
    /\ file = [p \in Processes |-> 1]
    /\ statement = [p \in Processes |-> 1]
    /\ starts = [p \in Processes |-> 0]

-----------------------------------------------------------------------------
(* One process.  The operators named Mutant... are slips that the          *)
(* properties at the end catch.                                            *)

Start(p) ==
    /\ pc[p] \in {"down", "failed"}
    /\ starts[p] < MaxStarts
    /\ starts' = [starts EXCEPT ![p] = @ + 1]
    /\ pc' = [pc EXCEPT ![p] = "check"]
    /\ file' = [file EXCEPT ![p] = 1]
    /\ UNCHANGED <<recorded, effect, statement>>

\* The process dies, wherever it is.
Crash(p) ==
    /\ pc[p] \notin {"down", "failed"}
    /\ pc' = [pc EXCEPT ![p] = "down"]
    /\ UNCHANGED <<recorded, effect, file, statement, starts>>

\* Writers exclude each other, and nobody waits for the lock.
Locked(p) == \E q \in Processes \ {p} : pc[q] \in {"run", "record", "up"}

MutantCheck(p) ==
    /\ pc[p] = "check"
    /\ \/ file[p] > Files /\ pc' = [pc EXCEPT ![p] = "up"] /\ UNCHANGED <<file, statement>>
       \/ /\ file[p] \in 1 .. Files /\ (file[p] \in recorded \/ effect[file[p]] > 0)
          /\ file' = [file EXCEPT ![p] = @ + 1]
          /\ UNCHANGED <<pc, statement>>
       \/ /\ file[p] \in 1 .. Files \ recorded /\ effect[file[p]] = 0
          /\ pc' = [pc EXCEPT ![p] = "run"]
          /\ statement' = [statement EXCEPT ![p] = 1]
          /\ UNCHANGED file
    /\ UNCHANGED <<recorded, effect, starts>>

\* SELECT 1 FROM _migrations: an applied file is passed over.
Check(p) ==
    /\ pc[p] = "check"
    /\ \/ file[p] > Files /\ pc' = [pc EXCEPT ![p] = "up"] /\ UNCHANGED <<file, statement>>
       \/ /\ file[p] \in recorded
          /\ file' = [file EXCEPT ![p] = @ + 1]
          /\ UNCHANGED <<pc, statement>>
       \/ /\ file[p] \in 1 .. Files \ recorded
          /\ pc' = [pc EXCEPT ![p] = "run"]
          /\ statement' = [statement EXCEPT ![p] = 1]
          /\ UNCHANGED file
    /\ UNCHANGED <<recorded, effect, starts>>

Repeated(p) == statement[p] <= effect[file[p]]

MutantRunFirst(p) ==
    /\ pc[p] = "run"
    /\ ~(Repeated(p) /\ file[p] \in Once)
    /\ effect' = [effect EXCEPT ![file[p]] = IF Repeated(p) THEN @ ELSE statement[p]]
    /\ pc' = [pc EXCEPT ![p] = "record"]
    /\ statement' = [statement EXCEPT ![p] = @ + 1]
    /\ UNCHANGED <<recorded, file, starts>>

\* sqlite3_exec: one statement of the file takes effect.
Run(p) ==
    /\ pc[p] = "run"
    /\ ~(Repeated(p) /\ file[p] \in Once)
    /\ effect' = [effect EXCEPT ![file[p]] = IF Repeated(p) THEN @ ELSE statement[p]]
    /\ pc' = [pc EXCEPT ![p] = IF statement[p] = Statements[file[p]] THEN "record" ELSE "run"]
    /\ statement' = [statement EXCEPT ![p] = @ + 1]
    /\ UNCHANGED <<recorded, file, starts>>

MutantRunFails(p) ==
    /\ pc[p] = "run"
    /\ Repeated(p) \/ Locked(p)
    /\ pc' = [pc EXCEPT ![p] = "failed"]
    /\ UNCHANGED <<recorded, effect, file, statement, starts>>

\* run throws: the statement is repeated, or the database is locked.
RunFails(p) ==
    /\ pc[p] = "run"
    /\ (Repeated(p) /\ file[p] \in Once) \/ Locked(p)
    /\ pc' = [pc EXCEPT ![p] = "failed"]
    /\ UNCHANGED <<recorded, effect, file, statement, starts>>

MutantRecord(p) ==
    /\ pc[p] = "record"
    /\ recorded' = recorded \cup {file[p] - 1}
    /\ pc' = [pc EXCEPT ![p] = "check"]
    /\ file' = [file EXCEPT ![p] = @ + 1]
    /\ UNCHANGED <<effect, statement, starts>>

\* INSERT INTO _migrations; nobody looks whether it succeeds.
Record(p) ==
    /\ pc[p] = "record"
    /\ \/ recorded' = recorded \cup {file[p]}
       \/ Locked(p) /\ UNCHANGED recorded
    /\ pc' = [pc EXCEPT ![p] = "check"]
    /\ file' = [file EXCEPT ![p] = @ + 1]
    /\ UNCHANGED <<effect, statement, starts>>

Next ==
    \E p \in Processes :
        Start(p) \/ Crash(p) \/ Check(p) \/ Run(p) \/ RunFails(p) \/ Record(p)

Spec == Init /\ [][Next]_vars

-----------------------------------------------------------------------------

TypeOK ==
    /\ recorded \subseteq 1 .. Files
    /\ effect \in [1 .. Files -> Nat]
    /\ \A f \in 1 .. Files : effect[f] <= Statements[f]
    /\ pc \in [Processes -> {"down", "check", "run", "record", "up", "failed"}]
    /\ file \in [Processes -> 1 .. Files + 1]
    /\ statement \in [Processes -> Nat \ {0}]
    /\ starts \in [Processes -> Nat]

Complete(f) == effect[f] = Statements[f]

(* A recorded file has taken effect as a whole, whatever crashes and       *)
(* whoever else migrates: passing it over is right.                        *)
RecordedIsComplete == \A f \in recorded : Complete(f)

(* Files take effect in order: none begins before its predecessors are     *)
(* complete, even in an order of several processes.                        *)
FilesInOrder ==
    \A f, g \in 1 .. Files : f < g /\ effect[g] > 0 => Complete(f)

(* A bot that serves has the whole schema under it.                        *)
UpMeansMigrated ==
    \A p \in Processes : pc[p] = "up" => \A f \in 1 .. Files : Complete(f)

(* A process that was never joined by another fails only where an earlier  *)
(* start of its own was cut short after a statement that cannot be         *)
(* repeated and before its file was recorded.                              *)
FailsOnlyInWindow ==
    \A p \in Processes :
        pc[p] = "failed" /\ (\A q \in Processes \ {p} : starts[q] = 0)
            => starts[p] > 1 /\ \E f \in Once \ recorded : effect[f] > 0

=============================================================================
