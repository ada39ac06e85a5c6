------------------------------ MODULE PeersText ------------------------------
(***************************************************************************)
(* engine/peers.go: what peers.txt says.                                   *)
(*                                                                         *)
(* A file is its lines, and whether the last one ends with a newline.  A   *)
(* line is blank, a comment (whose text may be used as a name), a device   *)
(* ID with an optional inline name, or junk: a line whose first field is   *)
(* not a device ID.  IDs and names are model values.                       *)
(***************************************************************************)
EXTENDS Naturals, FiniteSets, Sequences, SequencesExt

CONSTANTS Ids,       \* device IDs
          Names,     \* names, the next three included
          NoName,    \* the empty name
          Garbled,   \* a name into which a device ID was pasted
          Example    \* the XXXX-XXXX-... of the template's last line

ASSUME NamesAssumption == {NoName, Garbled, Example} \subseteq Names

Blank         == [kind |-> "blank"]
Junk          == [kind |-> "junk"]
Comment(n)    == [kind |-> "comment", name |-> n]
IdLine(d, n)  == [kind |-> "id", id |-> d, name |-> n]

Line == {Blank, Junk} \cup {Comment(n) : n \in Names}
                      \cup {IdLine(d, n) : d \in Ids, n \in Names}

\* Wrong on purpose, like every definition ending in Mut: a line that is not an
\* ID leaves the pending comment alone.
ReadLineMut(acc, line) ==
    CASE line.kind = "comment" -> [acc EXCEPT !.pending = line.name]
      [] line.kind = "id" ->
           [entries |-> Append(acc.entries,
              [id |-> line.id,
               name |-> IF line.name = NoName THEN acc.pending ELSE line.name]),
            pending |-> NoName]
      [] OTHER -> acc

\* One round of the scanner loop of ParsePeersFile.
ReadLine(acc, line) ==
    CASE line.kind = "comment" -> [acc EXCEPT !.pending = line.name]
      [] line.kind = "id" ->
           [entries |-> Append(acc.entries,
              [id |-> line.id,
               name |-> IF line.name = NoName THEN acc.pending ELSE line.name]),
            pending |-> NoName]
      [] OTHER -> [acc EXCEPT !.pending = NoName]

ParsePeersFile(lines) ==
    FoldLeft(ReadLine, [entries |-> <<>>, pending |-> NoName], lines).entries

\* The same, as the comment above ParsePeersFile words it: an ID line is named
\* by its inline name, else by a comment directly above it, else by nothing.
NameAt(lines, i) ==
    CASE lines[i].name # NoName -> lines[i].name
      [] lines[i].name = NoName /\ i > 1 /\ lines[i - 1].kind = "comment" ->
           lines[i - 1].name
      [] OTHER -> NoName

IdLines(lines) == {i \in DOMAIN lines : lines[i].kind = "id"}

\* One entry for each ID line, in the order of the lines: the entry of a line
\* stands behind those of the ID lines above it.
Documented(lines, entries) ==
    /\ Len(entries) = Cardinality(IdLines(lines))
    /\ \A i \in IdLines(lines) :
         entries[Cardinality(IdLines(lines) \cap (1..i))] =
             [id |-> lines[i].id, name |-> NameAt(lines, i)]

Listed(lines) == {e.id : e \in ToSet(ParsePeersFile(lines))}

\* The IDs that are not known yet, in their order.
Without(ids, known) ==
    FoldLeft(LAMBDA out, d : IF d \in known THEN out ELSE Append(out, d), <<>>, ids)

\* peersFileTemplate ends with a comment that shows how to write an ID.
PeersFileTemplate == [lines |-> <<Comment(Example)>>, ended |-> TRUE]

\* What an unterminated line becomes when d is written right behind it: two
\* IDs in one word are no ID, a name or a comment swallows the ID.
Glue(line, d) ==
    CASE line.kind = "blank" -> IdLine(d, NoName)
      [] line.kind = "comment" -> Comment(Garbled)
      [] line.kind = "id" /\ line.name # NoName -> IdLine(line.id, Garbled)
      [] OTHER -> Junk

\* The file is truncated when it is opened.
AppendPeersFileTruncMut(file, d) == [lines |-> <<IdLine(d, NoName)>>, ended |-> TRUE]

\* AppendPeersFile: the ID and a newline, behind whatever the file ends with.
AppendPeersFile(file, d) ==
    [lines |-> IF file.ended
               THEN Append(file.lines, IdLine(d, NoName))
               ELSE Append(Front(file.lines), Glue(Last(file.lines), d)),
     ended |-> TRUE]

BeginsWithTemplate(file) ==
    /\ file.lines # <<>> /\ file.lines[1] = Comment(Example)
    /\ Len(file.lines) > 1 \/ file.ended

\* What a text leaves visible below the template when that is written over its
\* beginning: lines from one on, or the end of a line, which is junk, and those
\* below it.
Rests(lines) ==
    {SubSeq(lines, i, Len(lines)) : i \in 2..Len(lines)} \cup
    {<<Junk>> \o SubSeq(lines, i + 1, Len(lines)) : i \in 1..Len(lines)}

\* The template written at the beginning of a file that is not empty: it covers
\* the whole text or, if that is longer, a part of it.
Overlaid(file) ==
    {PeersFileTemplate} \cup
    {[lines |-> <<Comment(Example)>> \o rest, ended |-> file.ended] : rest \in Rests(file.lines)}

\* The content of a text file: the last line may lack its newline, if there is one.
TextFile ==
    {f \in [lines : Seq(Line), ended : BOOLEAN] : f.lines = <<>> => f.ended}
===============================================================================
