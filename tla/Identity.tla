------------------------------- MODULE Identity -------------------------------
(***************************************************************************)
(* The device ID: the certificate and the key it is derived from, in the   *)
(* data directory that cli.go renames from "plop" to "Plop" first.  Peers  *)
(* know the device by this ID, so one that has been shown must stay.       *)
(*                                                                         *)
(* Every command is a process of its own: the daemon (runRoot, runRun) and *)
(* `plop id` load the pair and generate one if it is missing, `plop init`  *)
(* generates one without looking.  They may run at the same time and be    *)
(* killed at any step, and any call may fail; nothing locks the files.     *)
(* The default directory is modelled: one given by --home is never         *)
(* renamed.                                                                *)
(***************************************************************************)
CONSTANTS Procs,  \* commands that may run at the same time
          Ids,    \* device IDs, each standing for a certificate and its key
          None,   \* there is no such file or directory
          Torn    \* a file that breaks off

File == Ids \cup {None, Torn}

Directory == [cert : File, key : File]

ASSUME ValuesAssumption ==
    None \notin Ids /\ Torn \notin Ids /\ None # Torn /\ None \notin Directory

Names == {"plop", "Plop"}

VARIABLES
    fold,    \* the file system takes plop and Plop for the same name
    dirs,    \* dirs[n]: the files of the data directory n, or None
    pc,      \* pc[p]: "down", "old", "new", "rename", "home", "cert", "key",
             \*        "create", "fill", "createKey", "fillKey", "show"
    cmd,     \* cmd[p]: "run", "id" or "init"
    own,     \* own[p]: the certificate p has read or generated
    used,    \* IDs that have been generated
    shown,   \* IDs that have been shown: printed, or announced to peers
    refused, \* a command has refused the files
    upset    \* accidents so far (nothing reads it: see Accidents)

vars == <<fold, dirs, pc, cmd, own, used, shown, refused, upset>>

Pair(id) == [cert |-> id, key |-> id]

(***************************************************************************)
(* "cut": killed while a file was half written or the key missing; "full": *)
(* a call failed there (the disk is full), which leaves the same;          *)
(* "unreadable": a file that is there could not be read; "race": a command *)
(* generated a pair while another one was reading or generating, or read   *)
(* what another one was writing; "reinit": `plop init` in a directory in   *)
(* use; "stranded": the directory could not be renamed; "deleted": the     *)
(* user deleted the key.                                                   *)
(***************************************************************************)
Accidents == {"cut", "full", "unreadable", "race", "reinit", "stranded", "deleted"}

\* A new install, or one of an old or a new version.
Init ==
    /\ fold \in BOOLEAN
    /\ \/ dirs = [n \in Names |-> None] /\ used = {}
       \/ \E n \in Names, id \in Ids :
            dirs = [m \in Names |-> IF m = n THEN Pair(id) ELSE None] /\ used = {id}
    /\ shown = used
    /\ pc = [p \in Procs |-> "down"] /\ cmd = [p \in Procs |-> "run"]
    /\ own = [p \in Procs |-> None]
    /\ refused = FALSE /\ upset = {}

\* The directory a name leads to.
At(n) == IF ~fold \/ dirs[n] # None THEN n ELSE IF n = "plop" THEN "Plop" ELSE "plop"

Exists(n) == dirs[At(n)] # None

Home == At("Plop")

Goto(p, where) == pc' = [pc EXCEPT ![p] = where]

\* The process ends, and its memory with it.
Leave(p) ==
    /\ Goto(p, "down")
    /\ own' = [own EXCEPT ![p] = None]
    /\ cmd' = [cmd EXCEPT ![p] = "run"]

-----------------------------------------------------------------------------
Launch(p) ==
    /\ pc[p] = "down"
    /\ \E c \in {"run", "id", "init"} : cmd' = [cmd EXCEPT ![p] = c]
    /\ Goto(p, "old")
    /\ UNCHANGED <<fold, dirs, own, used, shown, refused, upset>>

\* Nothing is renamed.
StatOldMut(p) ==
    /\ pc[p] = "old"
    /\ Goto(p, "home")
    /\ UNCHANGED <<fold, dirs, cmd, own, used, shown, refused, upset>>

\* migrateConfigDir: is there an old directory ...
StatOld(p) ==
    /\ pc[p] = "old"
    /\ Goto(p, IF Exists("plop") THEN "new" ELSE "home")
    /\ UNCHANGED <<fold, dirs, cmd, own, used, shown, refused, upset>>

\* ... and no other one by the new name?
StatNew(p) ==
    /\ pc[p] = "new"
    /\ Goto(p, IF Exists("Plop") /\ ~fold THEN "home" ELSE "rename")
    /\ UNCHANGED <<fold, dirs, cmd, own, used, shown, refused, upset>>

\* Never onto another directory.
Rename(p) ==
    /\ pc[p] = "rename"
    /\ Exists("plop") /\ (fold \/ ~Exists("Plop"))
    /\ dirs' = [plop |-> None, Plop |-> dirs[At("plop")]]
    /\ Goto(p, "home")
    /\ UNCHANGED <<fold, cmd, own, used, shown, refused, upset>>

\* The new name is used all the same.
RenameFails(p) ==
    /\ pc[p] = "rename"
    /\ upset' = IF Exists("plop") /\ ~Exists("Plop") THEN upset \cup {"stranded"} ELSE upset
    /\ Goto(p, "home")
    /\ UNCHANGED <<fold, dirs, cmd, own, used, shown, refused>>

\* The directory is created if it is not there.
MkdirAll ==
    dirs' = IF Exists("Plop") THEN dirs
            ELSE [dirs EXCEPT !["Plop"] = [cert |-> None, key |-> None]]

\* New creates the directory and looks into it.
MkHome(p) ==
    /\ pc[p] = "home" /\ cmd[p] = "run"
    /\ MkdirAll
    /\ Goto(p, "cert")
    /\ UNCHANGED <<fold, cmd, own, used, shown, refused, upset>>

\* `plop init` creates it and does not look.
InitHome(p) ==
    /\ pc[p] = "home" /\ cmd[p] = "init"
    /\ MkdirAll
    /\ Goto(p, "create")
    /\ UNCHANGED <<fold, cmd, own, used, shown, refused, upset>>

\* `plop id` looks without creating it.
OpenHome(p) ==
    /\ pc[p] = "home" /\ cmd[p] = "id"
    /\ Goto(p, "cert")
    /\ UNCHANGED <<fold, dirs, cmd, own, used, shown, refused, upset>>

-----------------------------------------------------------------------------
Contents(file) == IF Exists("Plop") THEN dirs[Home][file] ELSE None

Others(steps, p) == \E q \in Procs \ {p} : pc[q] \in steps

WritingSteps == {"fill", "createKey", "fillKey"}

\* An accident happens, or not.
Befalls(accident, happens) == upset' = upset \cup {x \in {accident} : happens}

\* LoadX509KeyPair reads both files and then compares them.
ReadCert(p) ==
    /\ pc[p] = "cert"
    /\ Goto(p, IF Contents("cert") = None THEN "create" ELSE "key")
    /\ own' = [own EXCEPT ![p] = Contents("cert")]
    /\ Befalls("race", Others(WritingSteps, p))
    /\ UNCHANGED <<fold, dirs, cmd, used, shown, refused>>

\* A certificate or key that cannot be read is no missing one: the start is refused.
ReadFails(p) ==
    /\ pc[p] \in {"cert", "key"} /\ Exists("Plop")
    /\ Leave(p)
    /\ refused' = TRUE
    /\ upset' = upset \cup {"unreadable"}
    /\ UNCHANGED <<fold, dirs, used, shown>>

\* A missing key, like a missing certificate, has a new pair generated.
KeyMissing(p) ==
    /\ pc[p] = "key" /\ Contents("key") = None
    /\ Goto(p, "create")
    /\ Befalls("race", Others(WritingSteps, p))
    /\ UNCHANGED <<fold, dirs, cmd, own, used, shown, refused>>

\* A pair that does not match, or breaks off, is refused.
ReadKey(p) ==
    /\ pc[p] = "key" /\ Contents("key") # None
    /\ IF own[p] \in Ids /\ Contents("key") = own[p]
       THEN Goto(p, "show") /\ UNCHANGED <<cmd, own, refused>>
       ELSE Leave(p) /\ refused' = TRUE
    /\ Befalls("race", Others(WritingSteps, p))
    /\ UNCHANGED <<fold, dirs, used, shown>>

\* NewCertificate: a new pair, written in place, the certificate first.
Create(p) ==
    /\ pc[p] = "create" /\ Exists("Plop")
    /\ \E id \in Ids \ used : own' = [own EXCEPT ![p] = id] /\ used' = used \cup {id}
    /\ dirs' = [dirs EXCEPT ![Home].cert = Torn]
    /\ upset' = upset \cup {x \in {"race"} : Others({"key", "create", "show"} \cup WritingSteps, p)}
                     \cup {x \in {"reinit"} : cmd[p] = "init" /\ shown # {}}
    /\ Goto(p, "fill")
    /\ UNCHANGED <<fold, cmd, shown, refused>>

\* The certificate cannot be created (without a directory it never can), or a later
\* call of NewCertificate fails and what is written so far stays.
CreateFails(p) ==
    /\ pc[p] \in {"create"} \cup WritingSteps
    /\ Leave(p)
    /\ Befalls("full", pc[p] \in WritingSteps)
    /\ UNCHANGED <<fold, dirs, used, shown, refused>>

Fill(p) ==
    /\ pc[p] = "fill"
    /\ dirs' = [dirs EXCEPT ![Home].cert = own[p]]
    /\ Goto(p, "createKey")
    /\ UNCHANGED <<fold, cmd, own, used, shown, refused, upset>>

\* The key is not written.
CreateKeyMut(p) ==
    /\ pc[p] = "createKey"
    /\ dirs' = [dirs EXCEPT ![Home].key = Torn]
    /\ Goto(p, "show")
    /\ UNCHANGED <<fold, cmd, own, used, shown, refused, upset>>

CreateKey(p) ==
    /\ pc[p] = "createKey"
    /\ dirs' = [dirs EXCEPT ![Home].key = Torn]
    /\ Goto(p, "fillKey")
    /\ UNCHANGED <<fold, cmd, own, used, shown, refused, upset>>

\* A key deleted meanwhile stays deleted.
FillKey(p) ==
    /\ pc[p] = "fillKey"
    /\ dirs' = [dirs EXCEPT ![Home].key = IF @ = None THEN None ELSE own[p]]
    /\ Goto(p, "show")
    /\ UNCHANGED <<fold, cmd, own, used, shown, refused, upset>>

\* The commands print the ID, Start announces it; the files are not touched
\* after that.
Show(p) ==
    /\ pc[p] = "show"
    /\ shown' = shown \cup {own[p]}
    /\ Leave(p)
    /\ UNCHANGED <<fold, dirs, used, refused, upset>>

Kill(p) ==
    /\ pc[p] # "down"
    /\ Leave(p)
    /\ Befalls("cut", pc[p] \in WritingSteps)
    /\ UNCHANGED <<fold, dirs, used, shown, refused>>

DeleteKey ==
    /\ \E n \in Names : dirs[n] # None /\ dirs' = [dirs EXCEPT ![n].key = None]
    /\ upset' = upset \cup {"deleted"}
    /\ UNCHANGED <<fold, pc, cmd, own, used, shown, refused>>

Next ==
    \/ DeleteKey
    \/ \E p \in Procs :
         \/ Launch(p) \/ StatOld(p) \/ StatNew(p) \/ Rename(p) \/ RenameFails(p)
         \/ MkHome(p) \/ InitHome(p) \/ OpenHome(p)
         \/ ReadCert(p) \/ ReadFails(p) \/ KeyMissing(p) \/ ReadKey(p)
         \/ Create(p) \/ CreateFails(p) \/ Fill(p) \/ CreateKey(p) \/ FillKey(p)
         \/ Show(p) \/ Kill(p)

Spec == Init /\ [][Next]_vars

-----------------------------------------------------------------------------
TypeOK ==
    /\ fold \in BOOLEAN /\ refused \in BOOLEAN /\ upset \in SUBSET Accidents
    /\ dirs \in [Names -> Directory \cup {None}]
    /\ pc \in [Procs -> {"down", "old", "new", "rename", "home", "cert", "key", "create",
                         "fill", "createKey", "fillKey", "show"}]
    /\ cmd \in [Procs -> {"run", "id", "init"}]
    /\ own \in [Procs -> File]
    /\ \A p \in Procs : pc[p] \in WritingSteps \cup {"show"} => own[p] \in Ids
    /\ used \in SUBSET Ids /\ shown \in SUBSET Ids

\* The files a command would go by now: those of the old directory, if it is
\* still to be renamed.
Current == IF Exists("Plop") THEN dirs[Home] ELSE dirs["plop"]

(***************************************************************************)
(* The ID that peers have been given is the one the next start will have,  *)
(* through the renaming of the directory, commands running at the same     *)
(* time, kills and failing calls in the middle of a generation, and files  *)
(* that cannot be read for a while.  What costs a device its ID are the    *)
(* other accidents only.                                                   *)
(***************************************************************************)
IdentityKept ==
    upset \subseteq {"cut", "full", "unreadable"} => \A id \in shown : Current = Pair(id)

(***************************************************************************)
(* A start refuses the files only if it cannot read them, or after a kill, *)
(* a failing write or a race has broken them: what NewCertificate has      *)
(* written to its end LoadX509KeyPair accepts.                             *)
(***************************************************************************)
NeverRefused == refused => {"cut", "full", "unreadable", "race"} \cap upset # {}

-----------------------------------------------------------------------------
(* The inductive invariant behind the two: each part is claimed as long as *)
(* no accident has happened that breaks it.                                *)

\* Where plop and Plop are one name they are one directory.
OneName == fold => dirs["plop"] = None \/ dirs["Plop"] = None

\* Files that are read or written are in a directory, which is never removed.
InPlace == \A p \in Procs : pc[p] \in WritingSteps \cup {"key", "show"} => Exists("Plop")

\* Without a race: a command that generates a pair is alone with the files, and
\* who has read or written the certificate would find it unchanged.
Alone ==
    /\ \A p, q \in Procs :
         pc[p] \in WritingSteps =>
             /\ pc[q] \in WritingSteps \cup {"key", "show"} => p = q
             /\ pc[q] = "create" => cmd[q] = "init"
    /\ \A p \in Procs :
         pc[p] \in {"key", "createKey", "fillKey", "show"} => Contents("cert") = own[p]

Sound(cert, key) == cert \in Ids \cup {None} /\ key \in {None, cert}

\* Without a race and a write cut short: files that nobody is writing are whole.
Whole ==
    /\ \A n \in Names \ {Home} : dirs[n] # None => Sound(dirs[n].cert, dirs[n].key)
    /\ (\A p \in Procs : pc[p] \notin WritingSteps) => Sound(Contents("cert"), Contents("key"))

\* With no accident but "cut", "full" and "unreadable": who is past the renaming finds the files of the
\* old directory; who generates a pair has found none, and no ID has been shown.
Known ==
    /\ \A p \in Procs :
         /\ pc[p] \in {"home", "cert", "key", "create", "show"} \cup WritingSteps =>
                (Exists("plop") => Exists("Plop"))
         /\ pc[p] \in WritingSteps => shown = {}
         /\ pc[p] = "create" /\ cmd[p] # "init" =>
                None \in {Contents("cert"), Contents("key")}
         /\ pc[p] = "fillKey" => Contents("key") # None
         /\ pc[p] = "show" => Contents("key") = own[p]
    /\ \A id \in shown : Current = Pair(id)

IInv ==
    /\ TypeOK /\ OneName /\ InPlace /\ NeverRefused
    /\ "race" \notin upset => Alone
    /\ {"cut", "full", "race"} \cap upset = {} => Whole
    /\ upset \subseteq {"cut", "full", "unreadable"} => Known
==============================================================================
