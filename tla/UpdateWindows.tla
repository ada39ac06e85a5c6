---------------------------- MODULE UpdateWindows ----------------------------
(***************************************************************************)
(* update_windows.go: an instance of plop that downloads a release and     *)
(* puts it in the place of the running executable, for the next launch.    *)
(*                                                                         *)
(* Three files are involved: Plop.exe, Plop.exe.old and Plop.exe.tmp.  All *)
(* instances (there may be several, with a --home of their own) use the    *)
(* same three and nothing locks them but Windows itself: the image of a    *)
(* running process can be renamed but neither removed nor replaced, and a  *)
(* file that is open for writing can be truncated by another process but   *)
(* neither removed nor renamed.  Any other call may fail for a reason that *)
(* is not modelled.                                                        *)
(***************************************************************************)
EXTENDS Release

CONSTANTS Instances,  \* instances that may run
          None        \* there is no such file

ASSUME NoneAssumption == None \notin [ver : Version, whole : BOOLEAN]

VARIABLES
    exe, old, tmp,  \* the files
    latest,         \* the latest release
    pc,             \* pc[i]: "down", "clean", "check", "open", "download",
                    \*        "swap", "install", "rollback", "idle"
    ver,            \* ver[i]: the version instance i is
    image,          \* image[i]: the file it runs from, "exe" or "old"
    target,         \* target[i]: the release it is installing
    spoilt,         \* spoilt[i]: others have written to the file it downloads
    cut,            \* a swap was cut short: killed, or its rollback failed
    trampled        \* an instance began a download in the file that another
                    \* one was writing or about to install

files == <<exe, old, tmp>>
procs == <<pc, ver, image, target, spoilt>>
vars == <<files, latest, procs, cut, trampled>>

File == [ver : Version, whole : BOOLEAN]

Init ==
    /\ exe \in [ver : {Tags[1], Dev}, whole : {TRUE}] /\ old = None /\ tmp = None
    /\ latest = 1
    /\ pc = [i \in Instances |-> "down"]
    /\ ver = [i \in Instances |-> Tags[1]]
    /\ image = [i \in Instances |-> "exe"]
    /\ target = [i \in Instances |-> Tags[1]]
    /\ spoilt = [i \in Instances |-> FALSE]
    /\ cut = FALSE /\ trampled = FALSE

RunsFrom(name) == \E i \in Instances : pc[i] # "down" /\ image[i] = name

Writing(i) == {j \in Instances \ {i} : pc[j] = "download"}

Goto(i, where) == pc' = [pc EXCEPT ![i] = where]

Swapping(i) == pc[i] \in {"install", "rollback"}

\* Processes go on running from a file that is renamed.
Moved(from, to) ==
    image' = [i \in Instances |-> IF image[i] = from THEN to ELSE image[i]]

-----------------------------------------------------------------------------
\* A release comes out, or releases are withdrawn.
Publish ==
    /\ latest' \in Releases \ {latest}
    /\ UNCHANGED <<files, procs, cut, trampled>>

Launch(i) ==
    /\ pc[i] = "down"
    /\ exe # None /\ exe.whole
    /\ ver' = [ver EXCEPT ![i] = exe.ver]
    /\ image' = [image EXCEPT ![i] = "exe"]
    /\ Goto(i, "clean")
    /\ UNCHANGED <<files, latest, target, spoilt, cut, trampled>>

\* The process is left or killed.
End(i) ==
    /\ pc[i] # "down"
    /\ Goto(i, "down")
    /\ cut' = (cut \/ Swapping(i))
    /\ UNCHANGED <<files, latest, ver, image, target, spoilt, trampled>>

\* A leftover of another swap is removed even if it still runs.
CleanMut(i) ==
    /\ pc[i] = "clean"
    /\ old' = None
    /\ Goto(i, "check")
    /\ UNCHANGED <<exe, tmp, latest, ver, image, target, spoilt, cut, trampled>>

\* cleanOldBinary
Clean(i) ==
    /\ pc[i] = "clean"
    /\ \/ ~RunsFrom("old") /\ old' = None
       \/ UNCHANGED old
    /\ Goto(i, "check")
    /\ UNCHANGED <<exe, tmp, latest, ver, image, target, spoilt, cut, trampled>>

\* checkForUpdate
Check(i) ==
    /\ pc[i] = "check"
    /\ \/ /\ isNewer(Tags[latest], ver[i])
          /\ target' = [target EXCEPT ![i] = Tags[latest]]
          /\ Goto(i, "open")
       \/ Goto(i, "idle") /\ UNCHANGED target
    /\ UNCHANGED <<files, latest, ver, image, spoilt, cut, trampled>>

(* downloadUpdate.                                                         *)

\* The release cannot be had.
OpenFails(i) ==
    /\ pc[i] = "open"
    /\ Goto(i, "idle")
    /\ UNCHANGED <<files, latest, ver, image, target, spoilt, cut, trampled>>

\* Create truncates the file, also under the hands of another instance; two
\* releases in one file spoil each other.
Open(i) ==
    /\ pc[i] = "open"
    /\ tmp' = [ver |-> target[i], whole |-> FALSE]
    /\ spoilt' = [j \in Instances |->
         CASE j = i -> \E k \in Writing(i) : target[k] # target[i]
           [] j # i -> spoilt[j] \/ j \in Writing(i)]
    /\ trampled' = (trampled \/ \E j \in Instances \ {i} : pc[j] \in {"download", "swap", "install"})
    /\ Goto(i, "download")
    /\ UNCHANGED <<exe, old, latest, ver, image, target, cut>>

\* A copy that broke off is installed.
DownloadFailsMut(i) ==
    /\ pc[i] = "download"
    /\ Goto(i, "swap")
    /\ UNCHANGED <<files, latest, ver, image, target, spoilt, cut, trampled>>

\* The copy breaks off: the file is removed, or stays if that fails too (it does
\* if another instance has it open).
DownloadFails(i) ==
    /\ pc[i] = "download"
    /\ \/ Writing(i) = {} /\ tmp' = None
       \/ UNCHANGED tmp
    /\ Goto(i, "idle")
    /\ UNCHANGED <<exe, old, latest, ver, image, target, spoilt, cut, trampled>>

\* What another instance has cut off is missing, unless it has written it.
Downloaded(i) ==
    /\ pc[i] = "download"
    /\ tmp' = [ver |-> target[i], whole |-> tmp.whole \/ ~spoilt[i]]
    /\ Goto(i, "swap")
    /\ UNCHANGED <<exe, old, latest, ver, image, target, spoilt, cut, trampled>>

(* applyUpdate.                                                            *)

\* First rename, of the running executable out of the way.
Swap(i) ==
    /\ pc[i] = "swap"
    /\ \/ /\ exe # None /\ ~RunsFrom("old")
          /\ old' = exe /\ exe' = None /\ Moved("exe", "old")
          /\ Goto(i, "install")
       \/ Goto(i, "idle") /\ UNCHANGED <<exe, old, image>>
    /\ UNCHANGED <<tmp, latest, ver, target, spoilt, cut, trampled>>

CanInstall(i) == tmp # None /\ Writing(i) = {} /\ ~RunsFrom("exe")

\* There is no rollback.
InstallMut(i) ==
    /\ pc[i] = "install"
    /\ \/ CanInstall(i) /\ exe' = tmp /\ tmp' = None
       \/ UNCHANGED <<exe, tmp>>
    /\ Goto(i, "idle")
    /\ UNCHANGED <<old, latest, ver, image, target, spoilt, cut, trampled>>

\* Second rename, of the download into its place.
Install(i) ==
    /\ pc[i] = "install"
    /\ \/ CanInstall(i) /\ exe' = tmp /\ tmp' = None /\ Goto(i, "idle")
       \/ Goto(i, "rollback") /\ UNCHANGED <<exe, tmp>>
    /\ UNCHANGED <<old, latest, ver, image, target, spoilt, cut, trampled>>

\* The old executable goes back; an error of this rename is ignored.
Rollback(i) ==
    /\ pc[i] = "rollback"
    /\ \/ /\ old # None /\ ~RunsFrom("exe")
          /\ exe' = old /\ old' = None /\ Moved("old", "exe")
          /\ UNCHANGED cut
       \/ /\ cut' = TRUE
          /\ UNCHANGED <<exe, old, image>>
    /\ Goto(i, "idle")
    /\ UNCHANGED <<tmp, latest, ver, target, spoilt, trampled>>

Next ==
    \/ Publish
    \/ \E i \in Instances :
         \/ Launch(i) \/ End(i) \/ Clean(i) \/ Check(i)
         \/ OpenFails(i) \/ Open(i) \/ DownloadFails(i) \/ Downloaded(i)
         \/ Swap(i) \/ Install(i) \/ Rollback(i)

Spec == Init /\ [][Next]_vars

-----------------------------------------------------------------------------
TypeOK ==
    /\ exe \in File \cup {None} /\ old \in File \cup {None} /\ tmp \in File \cup {None}
    /\ latest \in Releases
    /\ pc \in [Instances -> {"down", "clean", "check", "open", "download",
                             "swap", "install", "rollback", "idle"}]
    /\ ver \in [Instances -> Version] /\ target \in [Instances -> Version]
    /\ image \in [Instances -> {"exe", "old"}]
    /\ spoilt \in [Instances -> BOOLEAN] /\ cut \in BOOLEAN /\ trampled \in BOOLEAN

(***************************************************************************)
(* There is a Plop.exe to launch, except for the moment between the two    *)
(* renames: an update that fails, or meets that of another instance, puts  *)
(* the old one back.  Being killed in that moment is what it is not safe   *)
(* against, nor a rollback that fails.                                     *)
(***************************************************************************)
Launchable == exe = None => cut \/ \E i \in Instances : Swapping(i)

(***************************************************************************)
(* Even then nothing is lost: the old executable is still there under its  *)
(* other name, and no other instance has tidied it up.                     *)
(***************************************************************************)
OldKept == exe = None => old # None

(***************************************************************************)
(* The refinement: between the two renames the old executable is the       *)
(* installed one.                                                          *)
(***************************************************************************)
installed ==
    LET file == IF exe # None THEN exe ELSE old
    IN  IF file # None /\ file.whole THEN file.ver ELSE None

U == INSTANCE Update WITH installed <- installed, void <- trampled

(***************************************************************************)
(* Two renames with a rollback implement the one-step upgrade: nobody ever *)
(* finds a part of an executable, or an older release in the place of a    *)
(* newer one, as long as no instance downloads into the file of another.   *)
(***************************************************************************)
ImplementsUpdate == U!Spec

-----------------------------------------------------------------------------
(* The inductive invariant behind the properties above.                    *)

\* The file a process runs from is there, and it is that version; the file a
\* process writes is there.
InUse ==
    \A i \in Instances :
        /\ pc[i] # "down" /\ image[i] = "exe" => exe # None /\ exe.ver = ver[i]
        /\ pc[i] # "down" /\ image[i] = "old" => old # None /\ old.ver = ver[i]
        /\ pc[i] = "download" => tmp # None

\* At most one instance is between the two renames.
OneSwap ==
    /\ \A i, j \in Instances : Swapping(i) /\ Swapping(j) => i = j
    /\ \A i \in Instances : Swapping(i) => exe = None

\* An instance is after a later release than the one it is.
Onward ==
    \A i \in Instances :
        pc[i] \in {"open", "download", "swap", "install"} =>
            \E r, s \in Releases : s < r /\ ver[i] = Tags[s] /\ target[i] = Tags[r]

Using(i) == pc[i] \in {"download", "swap", "install"}

\* The download is that of the only instance using it, and what is installed,
\* or was until the first rename, is whole.
Apart ==
    /\ \A i, j \in Instances : Using(i) /\ Using(j) => i = j
    /\ \A i \in Instances :
         /\ pc[i] = "download" => ~spoilt[i]
         /\ pc[i] \in {"swap", "install"} => tmp = [ver |-> target[i], whole |-> TRUE]
    /\ exe # None => exe.whole
    /\ exe = None => old.whole

IInv == TypeOK /\ InUse /\ OneSwap /\ Onward /\ Launchable /\ OldKept /\ (~trampled => Apart)
==============================================================================
