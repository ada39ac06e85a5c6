--------------------------- MODULE StatusHeartbeat ---------------------------
(***************************************************************************)
(* status.json: engine/status_file.go writes the snapshot of the status    *)
(* service into it every three seconds, cmd_status.go (`plop status`)      *)
(* believes it for fifteen.                                                *)
(*                                                                         *)
(* The file outlives the process: a daemon that is killed, or `plop run`   *)
(* when the engine ends by itself (it returns without Stop), leaves it     *)
(* behind.  Writing it can fail at each call, and so can taking away what  *)
(* a failed write leaves.  Time is counted in ages, which stop growing     *)
(* once they are past MaxAge; the wall clock is taken to run forward.      *)
(***************************************************************************)
EXTENDS Naturals

CONSTANTS MaxAge,     \* internalStatusMaxAge, in steps of the clock
          Causes,     \* why a call fails: the disk is full, access is denied...
          TempNames,  \* the random names that os.CreateTemp makes up
          None        \* no file, no error, no name

Ages == 0..(MaxAge + 1)

\* A file holds a snapshot of some age, or only a part of it.
Heartbeat == [age : Ages, whole : BOOLEAN]

Calls == {"mkdir", "create", "fill", "rename"}

\* What an error says: the call, its cause and, from CreateTemp on, the name of
\* the temporary file (PathError, LinkError).
Text == [call : Calls, cause : Causes, name : TempNames \cup {None}]

\* The line that says that writing works again.
Recovered == [call |-> "recovered", cause |-> None, name |-> None]

ASSUME ConstantsAssumption ==
    /\ MaxAge \in Nat
    /\ None \notin Heartbeat /\ None \notin Text /\ None \notin TempNames

VARIABLES
    daemon,    \* "down", "up", "closing" (writer is being stopped), "leaving"
    pc,        \* writer: "none", "create", "fill", "rename", "wait", "done"
    snapAge,   \* age of the status service's snapshot
    temp,      \* the temporary file of the write under way: None or a heartbeat
    file,      \* status.json: None or a heartbeat
    litter,    \* temporary files are left in the directory
    unremoved, \* some removal of a temporary file failed
    crashed,   \* some process ended without Stop
    exit,      \* how the last one ended: "clean", "kept" (no removal), "crash"
    downAge,   \* time since a daemon was up
    failing,   \* lastWriteErr if writeFailed, None otherwise
    lastLog,   \* the last line logged: None, Recovered or an error
    repeated   \* a line was logged twice in a row

diskVars == <<temp, file, litter, unremoved>>
lifeVars == <<daemon, crashed, exit, downAge>>
logVars  == <<failing, lastLog, repeated>>
vars == <<lifeVars, pc, snapAge, diskVars, logVars>>

Older(n) == IF n <= MaxAge THEN n + 1 ELSE n

Aged(f) == IF f = None THEN None ELSE [age |-> Older(f.age), whole |-> f.whole]

Init ==
    /\ daemon = "down" /\ pc = "none" /\ snapAge = MaxAge + 1
    /\ temp = None /\ file = None /\ litter = FALSE /\ unremoved = FALSE
    /\ crashed = FALSE /\ exit = "clean" /\ downAge = MaxAge + 1
    /\ failing = None /\ lastLog = None /\ repeated = FALSE

-----------------------------------------------------------------------------
(* The process.                                                            *)

\* Engine.Start: the service's first snapshot says starting, the writer writes
\* at once.
Launch ==
    /\ daemon = "down"
    /\ daemon' = "up" /\ downAge' = 0
    /\ snapAge' = 0 /\ pc' = "create"
    /\ temp' = [age |-> 0, whole |-> FALSE]
    /\ failing' = None /\ lastLog' = None /\ repeated' = FALSE
    /\ UNCHANGED <<crashed, exit, file, litter, unremoved>>

\* The service stores a new snapshot; nothing makes it, should a read block.
Refresh ==
    /\ daemon # "down"
    /\ snapAge' = 0
    /\ UNCHANGED <<lifeVars, pc, diskVars, logVars>>

\* statusFileWriter.Stop, up to the close of stopCh.
Stop ==
    /\ daemon = "up"
    /\ daemon' = "closing"
    /\ UNCHANGED <<crashed, exit, downAge, pc, snapAge, diskVars, logVars>>

\* Wrong on purpose, like every definition ending in Mut: the file is removed
\* without waiting for the writer.
RemoveFileMut ==
    /\ daemon = "closing"
    /\ daemon' = "leaving"
    /\ \/ file' = None /\ exit' = "clean"
       \/ file # None /\ UNCHANGED file /\ exit' = "kept"
    /\ UNCHANGED <<crashed, downAge, pc, snapAge, temp, litter, unremoved, logVars>>

\* doneCh, then the removal, whose error is ignored (on Windows it fails while
\* `plop status` has the file open).
RemoveFile ==
    /\ daemon = "closing" /\ pc = "done"
    /\ daemon' = "leaving"
    /\ \/ file' = None /\ exit' = "clean"
       \/ file # None /\ UNCHANGED file /\ exit' = "kept"
    /\ UNCHANGED <<crashed, downAge, pc, snapAge, temp, litter, unremoved, logVars>>

\* Stop has returned and the process ends.
Exit ==
    /\ daemon = "leaving"
    /\ daemon' = "down" /\ pc' = "none"
    /\ UNCHANGED <<crashed, exit, downAge, snapAge, diskVars, logVars>>

\* The process is killed, or returns from runRun without Stop.
Crash ==
    /\ daemon # "down"
    /\ daemon' = "down" /\ pc' = "none"
    /\ crashed' = TRUE /\ exit' = "crash"
    /\ litter' = (litter \/ pc \in {"fill", "rename"}) /\ temp' = None
    /\ UNCHANGED <<downAge, snapAge, file, unremoved, logVars>>

TimePasses ==
    /\ snapAge' = Older(snapAge)
    /\ downAge' = IF daemon = "down" THEN Older(downAge) ELSE 0
    /\ file' = Aged(file) /\ temp' = Aged(temp)
    /\ UNCHANGED <<daemon, crashed, exit, pc, litter, unremoved, logVars>>

-----------------------------------------------------------------------------
(* The writer goroutine.                                                   *)

SelectStop ==
    /\ pc = "wait" /\ daemon = "closing"
    /\ pc' = "done"
    /\ UNCHANGED <<lifeVars, snapAge, diskVars, logVars>>

\* The heartbeat carries the time at which it is written.
SelectTickMut ==
    /\ pc = "wait"
    /\ pc' = "create"
    /\ temp' = [age |-> 0, whole |-> FALSE]
    /\ UNCHANGED <<lifeVars, snapAge, file, litter, unremoved, logVars>>

\* A tick: the snapshot of this moment is going to be written.
SelectTick ==
    /\ pc = "wait"
    /\ pc' = "create"
    /\ temp' = [age |-> snapAge, whole |-> FALSE]
    /\ UNCHANGED <<lifeVars, snapAge, file, litter, unremoved, logVars>>

Log(line) == lastLog' = line /\ repeated' = (repeated \/ line = lastLog)

\* The errors that a call may return now.  Those of MkdirAll (and of json.Marshal)
\* are the same every time; from CreateTemp on an error has a name in it that was
\* made up for this write.
Errors(call) ==
    {e \in Text :
        /\ e.call = call
        /\ IF call = "mkdir" THEN e.name = None
                             ELSE e.name # None /\ (failing # None => e.name # failing.name)}

\* The temporary file of a write that fails stays.
CleanupMut ==
    /\ temp' = None
    /\ litter' = (litter \/ pc # "create")
    /\ UNCHANGED unremoved

\* The temporary file, if there is one, is removed; the error of that is ignored.
Cleanup ==
    /\ temp' = None
    /\ \/ UNCHANGED <<litter, unremoved>>
       \/ pc # "create" /\ litter' = TRUE /\ unremoved' = TRUE

\* Every failure is logged.
WriteFailsMut(e) ==
    /\ Log(e)
    /\ failing' = e
    /\ Cleanup /\ pc' = "wait"
    /\ UNCHANGED <<lifeVars, snapAge, file>>

\* The writer gives up.
WriteFailsQuitMut(e) ==
    /\ Log(e)
    /\ failing' = e
    /\ Cleanup /\ pc' = "done"
    /\ UNCHANGED <<lifeVars, snapAge, file>>

\* A call fails: its error is logged if its text is not that of the last failure.
WriteFails(e) ==
    /\ IF failing = e THEN UNCHANGED <<lastLog, repeated>> ELSE Log(e)
    /\ failing' = e
    /\ Cleanup /\ pc' = "wait"
    /\ UNCHANGED <<lifeVars, snapAge, file>>

\* MkdirAll and CreateTemp
Create ==
    /\ pc = "create"
    /\ \/ pc' = "fill" /\ UNCHANGED <<lifeVars, snapAge, diskVars, logVars>>
       \/ \E e \in Errors("mkdir") \cup Errors("create") : WriteFails(e)

\* The rename comes before the write.
FillMut ==
    /\ pc = "fill"
    /\ pc' = "rename"
    /\ UNCHANGED <<lifeVars, snapAge, diskVars, logVars>>

\* Write, Chmod and Close
Fill ==
    /\ pc = "fill"
    /\ \/ /\ temp' = [age |-> temp.age, whole |-> TRUE] /\ pc' = "rename"
          /\ UNCHANGED <<lifeVars, snapAge, file, litter, unremoved, logVars>>
       \/ \E e \in Errors("fill") : WriteFails(e)

Rename ==
    /\ pc = "rename"
    /\ \/ /\ file' = temp /\ temp' = None /\ pc' = "wait"
          /\ IF failing = None THEN UNCHANGED <<lastLog, repeated>> ELSE Log(Recovered)
          /\ failing' = None
          /\ UNCHANGED <<lifeVars, snapAge, litter, unremoved>>
       \/ \E e \in Errors("rename") : WriteFails(e)

Write == Create \/ Fill \/ Rename

Next ==
    \/ Launch \/ Refresh \/ Stop \/ RemoveFile \/ Exit \/ Crash \/ TimePasses
    \/ SelectStop \/ SelectTick \/ Write

Spec == Init /\ [][Next]_vars

\* The ticker ticks, the goroutine runs.  Nothing is assumed of the service, of
\* Stop, or of whether calls succeed.
FairSpec == Spec /\ WF_vars(SelectTick) /\ WF_vars(Write)

-----------------------------------------------------------------------------
TypeOK ==
    /\ daemon \in {"down", "up", "closing", "leaving"}
    /\ pc \in {"none", "create", "fill", "rename", "wait", "done"}
    /\ snapAge \in Ages /\ downAge \in Ages
    /\ temp \in Heartbeat \cup {None} /\ file \in Heartbeat \cup {None}
    /\ litter \in BOOLEAN /\ unremoved \in BOOLEAN /\ crashed \in BOOLEAN
    /\ repeated \in BOOLEAN
    /\ exit \in {"clean", "kept", "crash"}
    /\ failing \in Text \cup {None}
    /\ lastLog \in Text \cup {None, Recovered}

\* readInternalStatus: a snapshot that can be parsed and is not too old.
readInternalStatus == file # None /\ file.whole /\ file.age <= MaxAge

(***************************************************************************)
(* `plop status` never finds half a snapshot, at whichever call a write    *)
(* fails or the process is killed.                                         *)
(***************************************************************************)
NeverHalf == file # None => file.whole

(***************************************************************************)
(* What `plop status` prints was computed at most MaxAge ago by a daemon   *)
(* that was up no longer ago than that.  A status service that hangs is    *)
(* noticed although the writer goes on writing; so is a killed daemon.     *)
(***************************************************************************)
BelievedIsRecent == readInternalStatus => snapAge <= MaxAge /\ downAge <= MaxAge

(***************************************************************************)
(* After Stop there is no status.json: no write that was under way puts it *)
(* back (unless the removal itself failed).                                *)
(***************************************************************************)
StoppedMeansGone == daemon \in {"leaving", "down"} /\ exit = "clean" => file = None

(***************************************************************************)
(* Temporary files stay behind only if a process was killed in the middle  *)
(* of a write, or the removal of one failed: whichever call fails, the     *)
(* write tries to take its file away.                                      *)
(***************************************************************************)
NoLitter == litter => crashed \/ unremoved

(***************************************************************************)
(* Failures show in the log: while the daemon runs, the last line tells    *)
(* how the last write ended.  No line is logged twice in a row: neither    *)
(* "recovered" nor, while it goes on, an error whose text is the same each *)
(* time (a directory that cannot be made).  An error that names the        *)
(* temporary file is another text at each attempt and is logged at each:   *)
(* see FirstFailureOnly.                                                   *)
(***************************************************************************)
LogSaysOnce ==
    /\ ~repeated
    /\ daemon # "down" => IF failing = None THEN lastLog \in {None, Recovered}
                                            ELSE lastLog = failing

(***************************************************************************)
(* What the notes promise: "log the first failure, keep retrying on the    *)
(* normal interval, log once when writes recover".  While the same call    *)
(* fails for the same cause, nothing more is logged.  The code compares    *)
(* whole texts, so this does not hold once the temporary file is involved. *)
(***************************************************************************)
FirstFailureOnly ==
    [][failing # None /\ failing' # None
         /\ failing'.call = failing.call /\ failing'.cause = failing.cause
           => lastLog' = lastLog]_vars

(***************************************************************************)
(* The writer keeps retrying: in a daemon that stays up, either writes     *)
(* fail again and again, or status.json is there for good.                 *)
(***************************************************************************)
KeepsRetrying ==
    <>[](daemon = "up") =>
        \/ []<><<Write /\ failing' # None>>_vars
        \/ <>[](file # None /\ failing = None)

\* Why BelievedIsRecent holds: no heartbeat is younger than the snapshot it is
\* a copy of, and no snapshot is younger than the daemon that computes it.
Ordered ==
    /\ file # None => file.age >= snapAge
    /\ temp # None => temp.age >= snapAge
    /\ snapAge >= downAge /\ (daemon # "down" => downAge = 0)
    /\ pc = "fill" => temp # None
    /\ pc = "create" => temp # None
    /\ pc = "rename" => temp # None /\ temp.whole

\* Why StoppedMeansGone holds: the writer is through before the removal.
Through ==
    /\ daemon = "leaving" => pc = "done"
    /\ daemon = "down" => pc = "none" /\ temp = None
    /\ pc = "none" => daemon = "down"
    /\ pc \in {"wait", "done"} => temp = None

IInv == TypeOK /\ NeverHalf /\ Ordered /\ Through /\ StoppedMeansGone
==============================================================================
