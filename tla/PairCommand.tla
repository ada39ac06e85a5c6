----------------------------- MODULE PairCommand -----------------------------
(***************************************************************************)
(* The processes that write peers.txt: `plop pair` (cmd_pair.go) and the   *)
(* start of the daemon (engine.New: the --peer flags, then the template if *)
(* there is no file), beside a user with a text editor.  Each process      *)
(* first reads the file and decides, and writes in later steps; nothing    *)
(* locks the file.  Opening it and writing to it are steps of their own: a *)
(* process that has opened a file the user then deletes or replaces writes *)
(* to one that is not peers.txt any more.  A write that fails leaves no    *)
(* more than a last line that is not ended, like an editor, and its        *)
(* command ends with an error.                                             *)
(***************************************************************************)
EXTENDS PeersText

CONSTANTS Procs,        \* processes
          NoFile,       \* peers.txt does not exist
          EditorFiles,  \* what the user may save
          MaxLines      \* bound: no new process once the file has this many lines

ASSUME FilesAssumption == EditorFiles \subseteq TextFile /\ NoFile \notin TextFile

VARIABLES file,     \* peers.txt: NoFile, or its lines and whether the last is ended
          pc,       \* pc[p]: "idle", "append" and "line" (the open and the write of
                    \* an ID), "stat", "create" and "template" (of the template)
          unlinked, \* processes that have opened a file that peers.txt is no more
          starter,  \* starter[p]: p is a starting daemon, not `plop pair`
          todo,     \* todo[p]: the IDs p has decided to append
          paired,   \* IDs appended since the user last touched the file
          upset     \* accidents since then (nothing reads it: see Accidents)

vars == <<file, pc, unlinked, starter, todo, paired, upset>>

(***************************************************************************)
(* "glued": an ID was appended to a line that was not ended;               *)
(* "overwritten": the template replaced, or was written over the beginning *)
(* of, a text that had just appeared; "unlinked": an ID was written to a   *)
(* file that the user had just deleted or replaced.                        *)
(***************************************************************************)
Accidents == {"glued", "overwritten", "unlinked"}

Lines(f) == IF f = NoFile THEN <<>> ELSE f.lines

EmptyFile == [lines |-> <<>>, ended |-> TRUE]

Init ==
    /\ file = NoFile
    /\ pc = [p \in Procs |-> "idle"] /\ unlinked = {}
    /\ starter = [p \in Procs |-> FALSE]
    /\ todo = [p \in Procs |-> <<>>]
    /\ paired = {} /\ upset = {}

-----------------------------------------------------------------------------
Opened == {p \in Procs : pc[p] \in {"line", "template"}}

\* The user saves the file, by writing into it or by renaming a new one over it, or
\* deletes it, and knows what is in it from then on.
Save ==
    /\ file' \in EditorFiles
    /\ unlinked' \in {unlinked, Opened}
    /\ paired' = {} /\ upset' = {}
    /\ UNCHANGED <<pc, starter, todo>>

Delete ==
    /\ file' = NoFile
    /\ unlinked' = Opened
    /\ paired' = {} /\ upset' = {}
    /\ UNCHANGED <<pc, starter, todo>>

\* What a process launched in the same directory makes of the file: nobody is listed
\* in one that cannot be read, an error that is ignored.
Readings == {Listed(Lines(file)), {}}

Pair(p, d) ==
    /\ pc[p] = "idle" /\ Len(Lines(file)) < MaxLines
    /\ \E seen \in Readings : d \notin seen
    /\ todo' = [todo EXCEPT ![p] = <<d>>]
    /\ starter' = [starter EXCEPT ![p] = FALSE]
    /\ pc' = [pc EXCEPT ![p] = "append"]
    /\ UNCHANGED <<file, unlinked, paired, upset>>

\* New compares every --peer flag with what the file listed at the start.
StartDaemon(p, flags) ==
    /\ pc[p] = "idle" /\ Len(Lines(file)) < MaxLines
    /\ \E seen \in Readings : todo' = [todo EXCEPT ![p] = Without(flags, seen)]
    /\ starter' = [starter EXCEPT ![p] = TRUE]
    /\ pc' = [pc EXCEPT ![p] = IF todo'[p] = <<>> THEN "stat" ELSE "append"]
    /\ UNCHANGED <<file, unlinked, paired, upset>>

\* The last line has text and no newline.
Unended == file # NoFile /\ ~file.ended /\ Last(file.lines) # Blank

\* AppendPeersFile opens the file, and creates it if it is not there ...
AppendOpen(p) ==
    /\ pc[p] = "append"
    /\ file' = IF file = NoFile THEN EmptyFile ELSE file
    /\ pc' = [pc EXCEPT ![p] = "line"]
    /\ UNCHANGED <<unlinked, starter, todo, paired, upset>>

\* ... and writes the ID at the end of what it has opened.
AppendLine(p) ==
    /\ pc[p] = "line"
    /\ \/ /\ p \notin unlinked
          /\ file' = AppendPeersFile(file, Head(todo[p]))
          /\ upset' = IF Unended THEN upset \cup {"glued"} ELSE upset
       \/ /\ p \in unlinked
          /\ file' = file
          /\ upset' = upset \cup {"unlinked"}
    /\ unlinked' = unlinked \ {p}
    /\ paired' = paired \cup {Head(todo[p])}
    /\ todo' = [todo EXCEPT ![p] = Tail(@)]
    /\ pc' = [pc EXCEPT ![p] = CASE todo'[p] # <<>> -> "append"
                                 [] todo'[p] = <<>> /\ starter[p] -> "stat"
                                 [] OTHER -> "idle"]
    /\ UNCHANGED starter

\* ensurePeersFile: look for the file ...
EnsureStat(p) ==
    /\ pc[p] = "stat"
    /\ pc' = [pc EXCEPT ![p] = IF file = NoFile THEN "create" ELSE "idle"]
    /\ UNCHANGED <<file, unlinked, starter, todo, paired, upset>>

\* ... create it, which empties what has appeared since ...
EnsureCreate(p) ==
    /\ pc[p] = "create"
    /\ file' = EmptyFile
    /\ upset' = IF Lines(file) = <<>> THEN upset ELSE upset \cup {"overwritten"}
    /\ pc' = [pc EXCEPT ![p] = "template"]
    /\ UNCHANGED <<unlinked, starter, todo, paired>>

\* ... and write the template at its beginning, over what has been appended since.
EnsureTemplate(p) ==
    /\ pc[p] = "template"
    /\ \/ p \in unlinked /\ UNCHANGED <<file, upset>>
       \/ p \notin unlinked /\ file.lines = <<>> /\ file' = PeersFileTemplate /\ UNCHANGED upset
       \/ p \notin unlinked /\ BeginsWithTemplate(file) /\ UNCHANGED <<file, upset>>
       \/ /\ p \notin unlinked /\ file.lines # <<>> /\ ~BeginsWithTemplate(file)
          /\ file' \in Overlaid(file)
          /\ upset' = upset \cup {"overwritten"}
    /\ pc' = [pc EXCEPT ![p] = "idle"]
    /\ unlinked' = unlinked \ {p}
    /\ UNCHANGED <<starter, todo, paired>>

Flags == {<<>>} \cup {<<d>> : d \in Ids} \cup {<<d, e>> : d, e \in Ids}

Next ==
    \/ Save \/ Delete
    \/ \E p \in Procs :
         \/ \E d \in Ids : Pair(p, d)
         \/ \E flags \in Flags : StartDaemon(p, flags)
         \/ AppendOpen(p) \/ AppendLine(p)
         \/ EnsureStat(p) \/ EnsureCreate(p) \/ EnsureTemplate(p)

Spec == Init /\ [][Next]_vars

-----------------------------------------------------------------------------
(***************************************************************************)
(* The scanner loop, which carries a pending name from line to line, names *)
(* every peer as the comment of ParsePeersFile says: inline name first,    *)
(* else the comment line directly above, else none.                        *)
(***************************************************************************)
ParsesAsDocumented == Documented(Lines(file), ParsePeersFile(Lines(file)))

(***************************************************************************)
(* A peer for which `plop pair` has printed "Paired with", or that was     *)
(* given as a --peer flag, is in the file for as long as the user does not *)
(* change it.                                                              *)
(***************************************************************************)
PairedIsListed == paired \subseteq Listed(Lines(file))

(***************************************************************************)
(* However pairing, the start of a daemon and the editor interleave, these *)
(* accidents are the only ways to lose such a peer.                        *)
(***************************************************************************)
OnlyAccidents == upset = {} => PairedIsListed

(***************************************************************************)
(* Not even a last line without a newline costs a peer (peers.go:91:       *)
(* "AppendPeersFile appends a single device ID to a peers.txt file.").     *)
(* The code does not look at the last byte, so this does not hold.         *)
(***************************************************************************)
UnendedIsListed == upset \subseteq {"glued"} => PairedIsListed

(***************************************************************************)
(* Appending a peer to ended lines leaves every entry of the file as it    *)
(* was, names included, and adds one entry behind them.                    *)
(***************************************************************************)
AppendKeepsEntries ==
    [][\A p \in Procs : AppendLine(p) /\ p \notin unlinked /\ ~Unended =>
          Front(ParsePeersFile(Lines(file'))) = ParsePeersFile(Lines(file))]_vars
==============================================================================
