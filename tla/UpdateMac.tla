------------------------------ MODULE UpdateMac ------------------------------
(***************************************************************************)
(* update_darwin.go: an instance of plop that downloads a release and puts *)
(* it in the place of the bundle it was launched from.                     *)
(*                                                                         *)
(* There are no file locks: Plop.app can be renamed or removed while it    *)
(* runs, and a download goes on in a file that has been removed or that    *)
(* another instance has truncated.  What protects the bundle is that the   *)
(* archive has checksums, that each instance extracts it to a directory of *)
(* its own, and that a directory is never renamed onto another one.        *)
(***************************************************************************)
EXTENDS Release

CONSTANTS Instances,  \* instances that may run
          None        \* there is no such file

ASSUME NoneAssumption == None \notin [ver : Version, whole : BOOLEAN]

VARIABLES
    app, old,   \* Plop.app and Plop.app.old
    zip,        \* Plop.app.update.zip
    latest,     \* the latest release
    pc,         \* pc[i]: "down", "resolve", "clean", "check", "open", "download",
                \*        "extract", "swap", "install", "rollback", "remove",
                \*        "tidy", "idle"
    ver,        \* ver[i]: the version instance i is
    target,     \* target[i]: the release it is downloading
    linked,     \* linked[i]: what it downloads to still has its name
    spoilt,     \* spoilt[i]: others have written to it
    extracted,  \* extracted[i]: the bundle in its directory
    cut,        \* a swap was cut short: killed, or its rollback failed
    upset       \* accidents so far (nothing reads it: see Accidents)

files == <<app, old, zip>>
download == <<target, linked, spoilt, extracted>>
vars == <<files, latest, pc, ver, download, cut, upset>>

File == [ver : Version, whole : BOOLEAN]

Part == [ver |-> Dev, whole |-> FALSE]  \* some of an archive

(***************************************************************************)
(* "shared": an instance opened the archive another one was working on;    *)
(* "overtaken": it replaced a bundle other than the one it runs from;      *)
(* "cleaned": it removed the .old bundle while there was no other.         *)
(***************************************************************************)
Accidents == {"shared", "overtaken", "cleaned"}

Init ==
    /\ app \in [ver : {Tags[1], Dev}, whole : {TRUE}] /\ old = None /\ zip = None
    /\ latest = 1
    /\ pc = [i \in Instances |-> "down"]
    /\ ver = [i \in Instances |-> Tags[1]]
    /\ target = [i \in Instances |-> Tags[1]]
    /\ linked = [i \in Instances |-> FALSE]
    /\ spoilt = [i \in Instances |-> FALSE]
    /\ extracted = [i \in Instances |-> None]
    /\ cut = FALSE /\ upset = {}

Goto(i, where) == pc' = [pc EXCEPT ![i] = where]

\* autoUpdate returns, or the process ends: its variables are gone.
Leave(i, where) ==
    /\ Goto(i, where)
    /\ target' = [target EXCEPT ![i] = Tags[1]]
    /\ spoilt' = [spoilt EXCEPT ![i] = FALSE]
    /\ extracted' = [extracted EXCEPT ![i] = None]

Swapping(i) == pc[i] \in {"install", "rollback"}

\* It fails if the bundle has been moved away.
appBundleDir == app # None

\* RemoveAll of the .old bundle, which may stop half-way, and does not ask whose
\* it is.
RemoveOld(i) ==
    /\ old' \in IF old = None THEN {None} ELSE {None, old, [old EXCEPT !.whole = FALSE]}
    /\ upset' = IF old # None /\ app = None THEN upset \cup {"cleaned"} ELSE upset

-----------------------------------------------------------------------------
\* A release comes out, or releases are withdrawn.
Publish ==
    /\ latest' \in Releases \ {latest}
    /\ UNCHANGED <<files, pc, ver, download, cut, upset>>

Launch(i) ==
    /\ pc[i] = "down"
    /\ app # None /\ app.whole
    /\ ver' = [ver EXCEPT ![i] = app.ver]
    /\ Goto(i, "resolve")
    /\ UNCHANGED <<files, latest, download, cut, upset>>

\* The process is left or killed.
End(i) ==
    /\ pc[i] # "down"
    /\ Leave(i, "down")
    /\ ver' = [ver EXCEPT ![i] = Tags[1]]
    /\ cut' = (cut \/ Swapping(i))
    /\ linked' = [linked EXCEPT ![i] = FALSE]
    /\ UNCHANGED <<files, latest, upset>>

\* cleanOldBinary ends if there is no bundle ...
Resolve(i) ==
    /\ pc[i] = "resolve"
    /\ Goto(i, IF appBundleDir THEN "clean" ELSE "check")
    /\ UNCHANGED <<files, latest, ver, download, cut, upset>>

\* ... but the bundle may be moved away after that.
Clean(i) ==
    /\ pc[i] = "clean"
    /\ RemoveOld(i)
    /\ Goto(i, "check")
    /\ UNCHANGED <<app, zip, latest, ver, download, cut>>

\* checkForUpdate, and the look for the bundle that follows.
Check(i) ==
    /\ pc[i] = "check"
    /\ \/ /\ isNewer(Tags[latest], ver[i]) /\ appBundleDir
          /\ target' = [target EXCEPT ![i] = Tags[latest]]
          /\ Goto(i, "open")
       \/ Goto(i, "idle") /\ UNCHANGED target
    /\ UNCHANGED <<files, latest, ver, linked, spoilt, extracted, cut, upset>>

-----------------------------------------------------------------------------
(* downloadUpdate.                                                         *)

\* The release cannot be had.
OpenFails(i) ==
    /\ pc[i] = "open"
    /\ Leave(i, "idle")
    /\ UNCHANGED <<files, latest, ver, linked, cut, upset>>

Writing(i) == {j \in Instances \ {i} : pc[j] = "download" /\ linked[j]}

\* Create truncates the archive, also under the hands of another instance.
Open(i) ==
    /\ pc[i] = "open"
    /\ zip' = Part
    /\ linked' = [linked EXCEPT ![i] = TRUE]
    /\ spoilt' = [j \in Instances |->
         IF j = i THEN Writing(i) # {} ELSE spoilt[j] \/ j \in Writing(i)]
    /\ upset' = IF \E j \in Instances \ {i} : pc[j] \in {"download", "extract"}
                THEN upset \cup {"shared"} ELSE upset
    /\ Goto(i, "download")
    /\ UNCHANGED <<app, old, latest, ver, target, extracted, cut>>

\* Whoever has the archive open goes on writing to a file without a name.
RemoveZip == zip' = None /\ linked' = [i \in Instances |-> FALSE]

DownloadFails(i) ==
    /\ pc[i] = "download"
    /\ RemoveZip
    /\ Leave(i, "idle")
    /\ UNCHANGED <<app, old, latest, ver, cut, upset>>

\* What two instances have written to may or may not be intact.
Downloaded(i) ==
    /\ pc[i] = "download"
    /\ IF linked[i]
       THEN zip' \in {[ver |-> target[i], whole |-> TRUE]} \cup {p \in {Part} : spoilt[i]}
       ELSE UNCHANGED zip
    /\ linked' = [linked EXCEPT ![i] = FALSE]
    /\ Goto(i, "extract")
    /\ UNCHANGED <<app, old, latest, ver, target, spoilt, extracted, cut, upset>>

-----------------------------------------------------------------------------
(* applyUpdateToBundle.                                                    *)

\* Wrong on purpose, like every definition ending in Mut: a part will do.
ExtractableMut == zip # None

\* extractZip checks what it reads.
Extractable == zip # None /\ zip.whole

\* Any error ends the update.
Extract(i) ==
    /\ pc[i] = "extract"
    /\ \/ /\ appBundleDir /\ Extractable
          /\ extracted' = [extracted EXCEPT ![i] = zip]
          /\ Goto(i, "swap")
       \/ Goto(i, "tidy") /\ UNCHANGED extracted
    /\ UNCHANGED <<files, latest, ver, target, linked, spoilt, cut, upset>>

\* First rename: the bundle out of the way, not onto another one.
Swap(i) ==
    /\ pc[i] = "swap"
    /\ \/ /\ app # None /\ old = None
          /\ old' = app /\ app' = None
          /\ upset' = IF app.ver # ver[i] THEN upset \cup {"overtaken"} ELSE upset
          /\ Goto(i, "install")
       \/ Goto(i, "tidy") /\ UNCHANGED <<app, old, upset>>
    /\ UNCHANGED <<zip, latest, ver, download, cut>>

\* An error of the second rename is the end.
InstallMut(i) ==
    /\ pc[i] = "install"
    /\ \/ /\ app = None
          /\ app' = extracted[i]
          /\ Goto(i, "remove")
       \/ Goto(i, "tidy") /\ UNCHANGED app
    /\ UNCHANGED <<old, zip, latest, ver, download, cut, upset>>

\* Second rename: the extracted bundle into its place.
Install(i) ==
    /\ pc[i] = "install"
    /\ \/ /\ app = None
          /\ app' = extracted[i]
          /\ Goto(i, "remove")
       \/ Goto(i, "rollback") /\ UNCHANGED app
    /\ UNCHANGED <<old, zip, latest, ver, download, cut, upset>>

\* The old bundle goes back; an error of this rename is ignored.
Rollback(i) ==
    /\ pc[i] = "rollback"
    /\ \/ /\ old # None /\ app = None
          /\ app' = old /\ old' = None
          /\ UNCHANGED cut
       \/ /\ cut' = TRUE
          /\ UNCHANGED <<app, old>>
    /\ Goto(i, "tidy")
    /\ UNCHANGED <<zip, latest, ver, download, upset>>

Discard(i) ==
    /\ pc[i] = "remove"
    /\ RemoveOld(i)
    /\ Goto(i, "tidy")
    /\ UNCHANGED <<app, zip, latest, ver, download, cut>>

\* The deferred calls: the directory and the archive go, whosever it is by now.
Tidy(i) ==
    /\ pc[i] = "tidy"
    /\ RemoveZip
    /\ Leave(i, "idle")
    /\ UNCHANGED <<app, old, latest, ver, cut, upset>>

Next ==
    \/ Publish
    \/ \E i \in Instances :
         \/ Launch(i) \/ End(i) \/ Resolve(i) \/ Clean(i) \/ Check(i)
         \/ OpenFails(i) \/ Open(i) \/ DownloadFails(i) \/ Downloaded(i)
         \/ Extract(i) \/ Swap(i) \/ Install(i) \/ Rollback(i)
         \/ Discard(i) \/ Tidy(i)

Spec == Init /\ [][Next]_vars

-----------------------------------------------------------------------------
(***************************************************************************)
(* The type invariant; also, an instance that moves the bundle out of the  *)
(* way has one to put in its place.                                        *)
(***************************************************************************)
TypeOK ==
    /\ app \in File \cup {None} /\ old \in File \cup {None} /\ zip \in File \cup {None}
    /\ latest \in Releases
    /\ pc \in [Instances -> {"down", "resolve", "clean", "check", "open", "download",
                             "extract", "swap", "install", "rollback", "remove",
                             "tidy", "idle"}]
    /\ ver \in [Instances -> Version] /\ target \in [Instances -> Version]
    /\ linked \in [Instances -> BOOLEAN] /\ spoilt \in [Instances -> BOOLEAN]
    /\ extracted \in [Instances -> File \cup {None}]
    /\ cut \in BOOLEAN /\ upset \in SUBSET Accidents
    /\ \A i \in Instances : pc[i] \in {"swap", "install"} => extracted[i] # None

(***************************************************************************)
(* There is a Plop.app to launch, except for the moment between the two    *)
(* renames ("a rename dance for atomicity"), unless an instance was killed *)
(* in that moment or could not roll back.                                  *)
(***************************************************************************)
Launchable == app = None => cut \/ \E i \in Instances : Swapping(i)

(***************************************************************************)
(* What is put in place is a complete bundle, even if two instances write  *)
(* to the same archive: extractZip notices.  Only a .old bundle that is    *)
(* half removed could be rolled back.                                      *)
(***************************************************************************)
InstalledWhole == "cleaned" \notin upset /\ app # None => app.whole

(***************************************************************************)
(* The refinement: between the two renames the old bundle is the installed *)
(* one.                                                                    *)
(***************************************************************************)
installed ==
    LET bundle == IF app # None THEN app ELSE old
    IN  IF bundle # None /\ bundle.whole THEN bundle.ver ELSE None

U == INSTANCE Update WITH installed <- installed, void <- upset # {}

\* Two renames with a rollback implement the one-step upgrade.
ImplementsUpdate == U!Spec

-----------------------------------------------------------------------------
(* The inductive invariant behind the properties above.                    *)

\* Extracted bundles are whole, and so is a .old one that may be rolled back.
Whole ==
    /\ \A i \in Instances : extracted[i] # None => extracted[i].whole
    /\ "cleaned" \notin upset =>
         /\ app # None => app.whole
         /\ app = None /\ old # None => old.whole

Working(i) == pc[i] \in {"download", "extract"}

\* An instance is after a later release than the one it is.
Onward ==
    \A i \in Instances :
        pc[i] \in {"open", "download", "extract", "swap", "install"} =>
            \E r, s \in Releases : s < r /\ ver[i] = Tags[s] /\ target[i] = Tags[r]

\* No instance gets into the way of another: the archive is that of the only one
\* working on it, and the bundle under .old that of the only one swapping.
Apart ==
    /\ \A i, j \in Instances : Working(i) /\ Working(j) => i = j
    /\ \A i, j \in Instances : Swapping(i) /\ Swapping(j) => i = j
    /\ \A i \in Instances :
         /\ pc[i] = "download" /\ ~linked[i] => zip = None
         /\ pc[i] = "extract" /\ Extractable => zip.ver = target[i]
         /\ pc[i] \in {"swap", "install"} => extracted[i].ver = target[i]
         /\ Swapping(i) => app = None /\ old # None /\ old.ver = ver[i]

IInv == TypeOK /\ Launchable /\ Whole /\ Onward /\ (upset = {} => Apart)
==============================================================================
