--------------------------- MODULE FolderMigration ---------------------------
(***************************************************************************)
(* engine.New and Engine.Stop on disk: config.xml, the sync folder it      *)
(* names, and the renaming of ~/plop to ~/Plop at both ends of a run.      *)
(*                                                                         *)
(* New creates the folder the configuration names, with the .stfolder      *)
(* marker Syncthing goes by, so a configuration that names the wrong       *)
(* folder makes an empty one look like the user's with every file deleted. *)
(* A process may be killed between any two steps (which also stands for    *)
(* New's error returns), a rename may fail, and nothing keeps a second     *)
(* process off the same home.  SaveConfig writes in place; Syncthing's     *)
(* wrapper of the configuration, which saves by renaming, is external.     *)
(***************************************************************************)
CONSTANTS Procs,  \* processes that may run
          None,   \* there is no such file or directory
          Torn    \* config.xml breaks off

Names == {"plop", "Plop"}

ASSUME ValuesAssumption == None # Torn /\ {None, Torn} \cap (Names \cup {"ours", "bare", "other"}) = {}

VARIABLES
    fold,    \* the file system takes plop and Plop for the same name
    dirs,    \* the user's folder, an empty one of New's, another one, or none
    gone,    \* the user's folder is out of reach: renamed, or on another disk
    xml,     \* config.xml: the folder it names
    pc,      \* pc[p]: "down", "load", "stat", "rename", "create", "write",
             \*        "mkdir", "wrap", "up", "last"
    path,    \* path[p]: the folder cfg names
    wrapped, \* wrapped[p]: the folder the wrapper's configuration names
    linked,  \* linked[p]: the file p writes is still config.xml
    spoilt,  \* spoilt[p]: another process writes the same file
    upset    \* accidents so far (nothing reads it: see Accidents)

vars == <<fold, dirs, gone, xml, pc, path, wrapped, linked, spoilt, upset>>

(***************************************************************************)
(* "cut": killed with config.xml half written; "mixed": two processes      *)
(* wrote it at the same time; "unread": it, or the folder, was there but   *)
(* could not be opened; "away": the folder was taken away; "crossed": one  *)
(* process renamed the folder that another names and would not look for    *)
(* again.                                                                  *)
(***************************************************************************)
Accidents == {"cut", "mixed", "unread", "away", "crossed"}

\* A new install, one from before the renaming, and one from after it.
Init ==
    /\ fold \in BOOLEAN /\ gone = FALSE /\ upset = {}
    /\ \/ xml = None /\ dirs = [n \in Names |-> None]
       \/ \E n \in Names :
            /\ xml = n
            /\ dirs \in {d \in [Names -> {"ours", "other", None}] :
                           /\ d[n] = "ours"
                           /\ \A o \in Names \ {n} : d[o] \in {None} \cup {x \in {"other"} : ~fold}}
    /\ pc = [p \in Procs |-> "down"]
    /\ path = [p \in Procs |-> "Plop"]
    /\ wrapped = [p \in Procs |-> None]
    /\ linked = [p \in Procs |-> FALSE]
    /\ spoilt = [p \in Procs |-> FALSE]

\* The directory a name leads to.
At(n) == IF ~fold \/ dirs[n] # None THEN n ELSE IF n = "plop" THEN "Plop" ELSE "plop"

Exists(n) == dirs[At(n)] # None

Goto(p, where) == pc' = [pc EXCEPT ![p] = where]

\* The process ends, and its memory with it.
Leave(p) ==
    /\ Goto(p, "down")
    /\ path' = [path EXCEPT ![p] = "Plop"]
    /\ wrapped' = [wrapped EXCEPT ![p] = None]
    /\ linked' = [linked EXCEPT ![p] = FALSE]
    /\ spoilt' = [spoilt EXCEPT ![p] = FALSE]

Stopping(p) == wrapped[p] # None

-----------------------------------------------------------------------------
Launch(p) ==
    /\ pc[p] = "down"
    /\ Goto(p, "load")
    /\ UNCHANGED <<fold, dirs, gone, xml, path, wrapped, linked, spoilt, upset>>

\* What New and Stop do next with a configuration that names n.
Migrate(p, n) ==
    /\ path' = [path EXCEPT ![p] = n]
    /\ Goto(p, IF n = "plop" THEN "stat" ELSE IF Stopping(p) THEN "last" ELSE "create")

\* New refuses a file that breaks off ...
Load(p) ==
    /\ pc[p] = "load"
    /\ IF xml = Torn THEN Leave(p)
       ELSE /\ Migrate(p, IF xml = None THEN "Plop" ELSE xml)
            /\ UNCHANGED <<wrapped, linked, spoilt>>
    /\ UNCHANGED <<fold, dirs, gone, xml, upset>>

\* ... but takes one it cannot open for one that is missing.
LoadFails(p) ==
    /\ pc[p] = "load" /\ xml # None
    /\ Migrate(p, "Plop")
    /\ upset' = upset \cup {"unread"}
    /\ UNCHANGED <<fold, dirs, gone, xml, wrapped, linked, spoilt>>

\* migrateFolderName: without a folder only the configuration changes.
Stat(p) ==
    /\ pc[p] = "stat"
    /\ IF Exists("plop")
       THEN Goto(p, "rename") /\ UNCHANGED path
       ELSE Goto(p, "create") /\ path' = [path EXCEPT ![p] = "Plop"]
    /\ UNCHANGED <<fold, dirs, gone, xml, wrapped, linked, spoilt, upset>>

\* Any other error of Stat counts as a missing folder, too.
StatFails(p) ==
    /\ pc[p] = "stat"
    /\ Goto(p, "create") /\ path' = [path EXCEPT ![p] = "Plop"]
    /\ upset' = upset \cup {"unread"}
    /\ UNCHANGED <<fold, dirs, gone, xml, wrapped, linked, spoilt>>

\* Another process is about to create, or has kept, the folder named plop.
Crossing(p) ==
    \E q \in Procs \ {p} :
        path[q] = "plop" /\ ~Stopping(q) /\ pc[q] \in {"rename", "create", "write", "mkdir"}

\* Never onto another directory.
Rename(p) ==
    /\ pc[p] = "rename"
    /\ Exists("plop") /\ At("Plop") \in {"plop"} \cup {n \in {"Plop"} : fold \/ dirs[n] = None}
    /\ dirs' = [plop |-> None, Plop |-> dirs[At("plop")]]
    /\ path' = [path EXCEPT ![p] = "Plop"]
    /\ upset' = IF Crossing(p) THEN upset \cup {"crossed"} ELSE upset
    /\ Goto(p, "create")
    /\ UNCHANGED <<fold, gone, xml, wrapped, linked, spoilt>>

\* The error is not noticed.
RenameFailsMut(p) ==
    /\ pc[p] = "rename"
    /\ path' = [path EXCEPT ![p] = "Plop"]
    /\ Goto(p, "create")
    /\ UNCHANGED <<fold, dirs, gone, xml, wrapped, linked, spoilt, upset>>

\* The old path is kept; Stop has nothing to save then.
RenameFails(p) ==
    /\ pc[p] = "rename"
    /\ Goto(p, IF Stopping(p) THEN "last" ELSE "create")
    /\ UNCHANGED <<fold, dirs, gone, xml, path, wrapped, linked, spoilt, upset>>

-----------------------------------------------------------------------------
Writers(p) == {q \in Procs \ {p} : linked[q]}

\* SaveConfig truncates config.xml ...
SaveCreate(p) ==
    /\ pc[p] = "create"
    /\ xml' = Torn
    /\ linked' = [linked EXCEPT ![p] = TRUE]
    /\ spoilt' = [q \in Procs |-> spoilt[q] \/ (Writers(p) # {} /\ q \in Writers(p) \cup {p})]
    /\ upset' = IF Writers(p) # {} THEN upset \cup {"mixed"} ELSE upset
    /\ Goto(p, "write")
    /\ UNCHANGED <<fold, dirs, gone, path, wrapped>>

\* It is left as created.
SaveWriteMut(p) ==
    /\ pc[p] = "write"
    /\ linked' = [linked EXCEPT ![p] = FALSE]
    /\ spoilt' = [spoilt EXCEPT ![p] = FALSE]
    /\ Goto(p, IF Stopping(p) THEN "last" ELSE "mkdir")
    /\ UNCHANGED <<fold, dirs, gone, xml, path, wrapped, upset>>

\* ... and fills it, unless a wrapper has replaced it meanwhile.
SaveWrite(p) ==
    /\ pc[p] = "write"
    /\ xml' \in IF linked[p] THEN {path[p]} \cup {x \in {Torn} : spoilt[p]} ELSE {xml}
    /\ linked' = [linked EXCEPT ![p] = FALSE]
    /\ spoilt' = [spoilt EXCEPT ![p] = FALSE]
    /\ Goto(p, IF Stopping(p) THEN "last" ELSE "mkdir")
    /\ UNCHANGED <<fold, dirs, gone, path, wrapped, upset>>

\* A folder New creates is the user's only if there is no other.
Mkdir(p) ==
    /\ pc[p] = "mkdir"
    /\ dirs' = IF Exists(path[p]) THEN dirs
               ELSE [dirs EXCEPT ![path[p]] =
                       IF gone \/ \E n \in Names : dirs[n] = "ours" THEN "bare" ELSE "ours"]
    /\ Goto(p, "wrap")
    /\ UNCHANGED <<fold, gone, xml, path, wrapped, linked, spoilt, upset>>

\* Its error is ignored.
WrapMut(p) ==
    /\ pc[p] = "wrap"
    /\ wrapped' = [wrapped EXCEPT ![p] = xml]
    /\ Goto(p, "up")
    /\ UNCHANGED <<fold, dirs, gone, xml, path, linked, spoilt, upset>>

\* LoadConfigAtStartup reads config.xml again; Start.
Wrap(p) ==
    /\ pc[p] = "wrap"
    /\ IF xml \in Names
       THEN /\ wrapped' = [wrapped EXCEPT ![p] = xml]
            /\ Goto(p, "up")
            /\ UNCHANGED <<path, linked, spoilt>>
       ELSE Leave(p)
    /\ UNCHANGED <<fold, dirs, gone, xml, upset>>

\* The wrapper puts a new file in the place of config.xml.
Replace(p) ==
    /\ xml' = wrapped[p]
    /\ linked' = [q \in Procs |-> FALSE]

\* The wrapper saves what syncPeers has modified.
WrapperSave(p) ==
    /\ pc[p] = "up"
    /\ Replace(p)
    /\ UNCHANGED <<fold, dirs, gone, pc, path, wrapped, spoilt, upset>>

\* Stop: retryFolderMigration, with a copy of the wrapper's configuration.
Stop(p) ==
    /\ pc[p] = "up"
    /\ Migrate(p, wrapped[p])
    /\ UNCHANGED <<fold, dirs, gone, xml, wrapped, linked, spoilt, upset>>

\* A wrapper with unsaved changes saves them when it ends, over what
\* retryFolderMigration has saved.
LastSave(p) ==
    /\ pc[p] = "last"
    /\ \/ UNCHANGED <<xml, linked>>
       \/ Replace(p)
    /\ Goto(p, "down")
    /\ path' = [path EXCEPT ![p] = "Plop"]
    /\ wrapped' = [wrapped EXCEPT ![p] = None]
    /\ UNCHANGED <<fold, dirs, gone, spoilt, upset>>

\* Killed, or an error return, or the engine ends by itself.
Kill(p) ==
    /\ pc[p] # "down"
    /\ Leave(p)
    /\ upset' = IF linked[p] THEN upset \cup {"cut"} ELSE upset
    /\ UNCHANGED <<fold, dirs, gone, xml>>

\* The disk the folder is on is taken away.
Unplug ==
    /\ \E n \in Names : dirs[n] = "ours" /\ dirs' = [dirs EXCEPT ![n] = None]
    /\ gone' = TRUE
    /\ upset' = upset \cup {"away"}
    /\ UNCHANGED <<fold, xml, pc, path, wrapped, linked, spoilt>>

Next ==
    \/ Unplug
    \/ \E p \in Procs :
         \/ Launch(p) \/ Load(p) \/ LoadFails(p) \/ Stat(p) \/ StatFails(p)
         \/ Rename(p) \/ RenameFails(p)
         \/ SaveCreate(p) \/ SaveWrite(p) \/ Mkdir(p) \/ Wrap(p) \/ WrapperSave(p)
         \/ Stop(p) \/ LastSave(p) \/ Kill(p)

Spec == Init /\ [][Next]_vars

-----------------------------------------------------------------------------
Lost == {"unread", "away", "crossed"} \cap upset # {}

TypeOK ==
    /\ fold \in BOOLEAN /\ gone \in BOOLEAN /\ upset \in SUBSET Accidents
    /\ dirs \in [Names -> {"ours", "bare", "other", None}]
    /\ xml \in Names \cup {None, Torn}
    /\ pc \in [Procs -> {"down", "load", "stat", "rename", "create", "write",
                         "mkdir", "wrap", "up", "last"}]
    /\ path \in [Procs -> Names] /\ wrapped \in [Procs -> Names \cup {None}]
    /\ linked \in [Procs -> BOOLEAN] /\ spoilt \in [Procs -> BOOLEAN]

\* New may create the directory n leads to: it is the user's, or there is none.
Safe(n) ==
    \/ dirs[At(n)] = "ours"
    \/ n = "Plop" /\ \A m \in Names : dirs[m] # "ours"

\* Whoever goes by the name n, and migrates, comes to such a directory.
Leads(n) == Safe(n) \/ (n = "plop" /\ dirs["plop"] = None /\ dirs["Plop"] = "ours")

(***************************************************************************)
(* No start creates an empty folder, marked as the one to sync, beside the *)
(* user's: not after a crash between the renaming and the saving of        *)
(* config.xml, not after a rename that failed, not when the wrapper has    *)
(* put the old name back, and not when two processes start on one home     *)
(* ("On rename failure the old path is kept", config.go) -- unless the     *)
(* folder or config.xml was out of reach, or one process renamed the       *)
(* folder under another.                                                   *)
(***************************************************************************)
NeverBeside == ~Lost => \A n \in Names : dirs[n] # "bare"

(***************************************************************************)
(* A config.xml that breaks off, which New refuses ever after, is left     *)
(* behind only by a process killed while it wrote the file or by two that  *)
(* wrote it at the same time.                                              *)
(***************************************************************************)
ConfigWhole == xml = Torn => {"cut", "mixed"} \cap upset # {} \/ \E p \in Procs : linked[p]

(***************************************************************************)
(* The inductive invariant: config.xml and every copy of it lead to the    *)
(* user's folder, at every step of the way.                                *)
(***************************************************************************)
LeadsHome ==
    /\ NeverBeside
    /\ ~Lost =>
         /\ xml \in Names => Leads(xml)
         /\ xml = None => Safe("Plop")
         /\ \A p \in Procs :
              /\ Stopping(p) => Leads(wrapped[p])
              /\ pc[p] = "stat" => path[p] = "plop" /\ Leads("plop")
              /\ pc[p] = "rename" =>
                   path[p] = "plop" /\ Leads("plop") /\ (Stopping(p) \/ Safe("plop"))
              /\ pc[p] \in {"create", "write", "mkdir"} =>
                   Safe(path[p]) /\ (Stopping(p) => path[p] = "Plop")

\* What the steps of a process go by.
Bookkeeping ==
    /\ gone => "away" \in upset
    /\ fold => \E n \in Names : dirs[n] = None
    /\ \A p \in Procs :
         /\ linked[p] => pc[p] = "write"
         /\ spoilt[p] => pc[p] = "write" /\ "mixed" \in upset
         /\ Stopping(p) => pc[p] \in {"up", "stat", "rename", "create", "write", "last"}
         /\ pc[p] \in {"up", "last"} => Stopping(p)

IInv == TypeOK /\ LeadsHome /\ ConfigWhole /\ Bookkeeping
==============================================================================
