--------------------------------- MODULE Hosts ---------------------------------
(***************************************************************************)
(* The hosts file with the program's block: what POST /api/hosts/apply     *)
(* makes of the file it reads, and what the owners of other blocks and the *)
(* user do to the same file between two applies.                           *)
(*                                                                         *)
(* A line is one of the kinds the code tells apart; a mapping line has an  *)
(* address and names. Markers of earlier releases are those of this one.   *)
(***************************************************************************)
EXTENDS FiniteSetsExt, Integers, SequencesExt

CONSTANTS HostNames, HostAddresses,
          Mappings,        (* the mapping lines of others                  *)
          Requests,        (* rows a user may ask for: <<name, address>>   *)
          Addresses6,      (* the addresses that are IPv6                  *)
          MaxLines         (* bound: lines of others in the file           *)

LineKinds == {"map", "blank", "note", "begin", "end", "maxHead", "maxEnd", "tgHead"}

(* A line: what is no mapping has no address and no names. *)
Lines == [kind : LineKinds, ip : HostAddresses \cup {""}, names : Seq(HostNames)]

Rows == Seq(HostNames \X HostAddresses)

ASSUME HostsAssumption ==
    /\ MaxLines \in Nat
    /\ Mappings \subseteq {line \in Lines : line.kind = "map"}
    /\ Requests \subseteq Rows

VARIABLES hosts,           (* the lines of the file                        *)
          lastEnds,        (* its last line has a line end                 *)
          readable,        (* the file is text in UTF-8                    *)
          wished           (* ghost: the rows of the last apply            *)

hostsVars == <<hosts, lastEnds, readable, wished>>

Mark(kind) == [kind |-> kind, ip |-> "", names |-> <<>>]
Map(ip, names) == [kind |-> "map", ip |-> ip, names |-> names]

Blank == Mark("blank")
Note == Mark("note")                       (* any other comment            *)
BeginMark == Mark("begin")                 (* MANAGED_HOSTS_BEGIN          *)
EndMark == Mark("end")
MaxHead == Mark("maxHead")                 (* a block with an end marker   *)
MaxEnd == Mark("maxEnd")
TgHead == Mark("tgHead")                   (* a block up to a blank line   *)

IsMap(line) == line.kind = "map"

-----------------------------------------------------------------------------
(* The functions of primecore-hosts.                                       *)

(* Without the block; one whose end is missing goes on to the last line. *)
SkipBlock(acc, line) ==
    IF line = BeginMark THEN [acc EXCEPT !.inside = TRUE]
    ELSE IF acc.inside THEN [acc EXCEPT !.inside = line # EndMark]
    ELSE [acc EXCEPT !.out = Append(@, line)]

RemoveBlock(lines) == FoldLeft(SkipBlock, [out |-> <<>>, inside |-> FALSE], lines).out

(* The rows of the first block. *)
ReadRow(acc, line) ==
    IF acc.at = "before" THEN [acc EXCEPT !.at = IF line = BeginMark THEN "in" ELSE "before"]
    ELSE IF acc.at = "in" /\ line = EndMark THEN [acc EXCEPT !.at = "after"]
    ELSE IF acc.at = "in" /\ IsMap(line)
         THEN [acc EXCEPT !.rows = @ \o [i \in DOMAIN line.names |-> <<line.names[i], line.ip>>]]
    ELSE acc

BlockRows(lines) == FoldLeft(ReadRow, [rows |-> <<>>, at |-> "before"], lines).rows

(* Mutant of Clashes: every line with the name of a row is in the way. *)
ClashesByName(name, ip, rows) == \E i \in DOMAIN rows : rows[i][1] = name

(* A name that is in the rows, with an address it has in none of them. *)
Clashes(name, ip, rows) ==
    /\ \E i \in DOMAIN rows : rows[i][1] = name
    /\ ~\E i \in DOMAIN rows : rows[i] = <<name, ip>>

(* The line that ends the block a line begins; Note: it begins none. *)
OtherBlock(line) ==
    CASE line = MaxHead -> MaxEnd [] line = TgHead -> Blank [] OTHER -> Note

(* The names of a line that do not clash. *)
KeepName(kept, name, ip, rows) == IF Clashes(name, ip, rows) THEN kept ELSE Append(kept, name)

Rest(line, rows) ==
    FoldLeft(LAMBDA kept, name : KeepName(kept, name, line.ip, rows), <<>>, line.names)

(* Lines of other blocks stay; of the rest, names that clash go. *)
DropFromLine(acc, line, rows) ==
    IF acc.closing # Note
    THEN [out |-> Append(acc.out, line),
          closing |-> IF line = acc.closing THEN Note ELSE acc.closing]
    ELSE [out |-> IF ~IsMap(line) THEN Append(acc.out, line)
                  ELSE IF Rest(line, rows) = <<>> THEN acc.out
                  ELSE Append(acc.out, Map(line.ip, Rest(line, rows))),
          closing |-> OtherBlock(line)]

DropConflicting(lines, rows) ==
    FoldLeft(LAMBDA acc, line : DropFromLine(acc, line, rows),
             [out |-> <<>>, closing |-> Note], lines).out

(* The lines the block is put into. *)
KeptLines(lines, rows) == DropConflicting(RemoveBlock(lines), rows)

(* The last of them is the last of the file as it was, without a line end: *)
(* a line that loses names is written anew, with one.                      *)
Unended(lines, rows, end) ==
    ~end /\ lines # <<>> /\ KeptLines(lines, rows) = Append(KeptLines(Front(lines), rows), Last(lines))

FirstMapping(lines) ==
    LET maps == {i \in DOMAIN lines : IsMap(lines[i])}
    IN  IF maps = {} THEN Len(lines) + 1 ELSE Min(maps)

TrimEnd(lines) ==
    SubSeq(lines, 1, Max({0} \cup {i \in DOMAIN lines : lines[i] # Blank}))
TrimStart(lines) == Reverse(TrimEnd(Reverse(lines)))

(* Mutant of InsertBlock: the blank lines around the place stay. *)
InsertUntrimmed(lines, rows, open) ==
    IF rows = <<>> THEN lines
    ELSE LET at == FirstMapping(lines)
         IN  SubSeq(lines, 1, at - 1) \o <<Blank, BeginMark, Note>>
             \o [i \in DOMAIN rows |-> Map(rows[i][2], <<rows[i][1]>>)]
             \o <<EndMark, Blank>> \o SubSeq(lines, at, Len(lines))

(* The block before the first mapping, between line ends: a blank line,    *)
(* unless the one in front only ends a last line that had none.            *)
InsertBlock(lines, rows, open) ==
    IF rows = <<>> THEN lines
    ELSE LET at == FirstMapping(lines)
             before == TrimEnd(SubSeq(lines, 1, at - 1))
             after == TrimStart(SubSeq(lines, at, Len(lines)))
         IN  before
             \o (IF before = <<>> \/ (open /\ before = lines) THEN <<>> ELSE <<Blank>>)
             \o <<BeginMark, Note>> \o [i \in DOMAIN rows |-> Map(rows[i][2], <<rows[i][1]>>)] \o <<EndMark>>
             \o (IF after = <<>> THEN <<>> ELSE <<Blank>>) \o after

(* Mutant of FilterRows: rows that come twice are kept. *)
FilterSixOnly(rows, allow6) == SelectSeq(rows, LAMBDA r : allow6 \/ r[2] \notin Addresses6)

(* Without IPv6 where there is none, every row once. *)
KeepRow(kept, row, allow6) ==
    IF (row[2] \in Addresses6 /\ ~allow6) \/ Contains(kept, row) THEN kept ELSE Append(kept, row)

FilterRows(rows, allow6) ==
    FoldLeft(LAMBDA kept, row : KeepRow(kept, row, allow6), <<>>, rows)

Rebuilt(lines, rows, end) == InsertBlock(KeptLines(lines, rows), rows, Unended(lines, rows, end))

(* The last line of what is rebuilt has a line end: the block is the end   *)
(* of it, or the line that was last before has gone, or it had one.        *)
EndsLine(lines, rows, end) ==
    \/ ~Unended(lines, rows, end)
    \/ rows # <<>> /\ FirstMapping(KeptLines(lines, rows)) > Len(KeptLines(lines, rows))

(* apply counts a file that is not readable as empty. *)
Current == IF readable THEN hosts ELSE <<>>

-----------------------------------------------------------------------------
Others == {Blank, Note, MaxHead, MaxEnd, TgHead} \cup Mappings

(* The file as an earlier program of any kind left it. *)
HostsInit ==
    /\ hosts \in BoundedSeq(Others \cup {BeginMark, EndMark}, MaxLines)
    /\ lastEnds \in BOOLEAN /\ readable \in BOOLEAN
    /\ hosts = <<>> => lastEnds
    /\ wished = <<>>

(* Type correctness. *)
HostsTypeOK ==
    /\ hosts \in Seq(Lines)
    /\ lastEnds \in BOOLEAN /\ readable \in BOOLEAN
    /\ wished \in Rows

(* apply; the helper writes the file. *)
ApplyRows ==
    /\ readable' = TRUE
    /\ \E rows \in Requests, allow6 \in BOOLEAN :
          /\ wished' = FilterRows(rows, allow6)
          /\ hosts' = Rebuilt(Current, wished', lastEnds)
          /\ lastEnds' = EndsLine(Current, wished', lastEnds)

(* The user or another program adds a line at the end, with its line end,  *)
(* and one for the line before if it has none.                             *)
OthersAppend ==
    /\ wished # <<>> /\ Len(RemoveBlock(hosts)) < MaxLines
    /\ \E line \in Others : hosts' = Append(hosts, line)
    /\ lastEnds' = TRUE
    /\ UNCHANGED <<readable, wished>>

HostsNext == ApplyRows \/ OthersAppend

HostsSpec == HostsInit /\ [][HostsNext]_hostsVars

-----------------------------------------------------------------------------
(* Properties                                                              *)

(* Nothing of the block is lost or doubled, whatever markers were in the   *)
(* file before (an end missing, a second block, one begun in another):     *)
(* reading it back gives the rows asked for, once each, in their order.    *)
BlockHoldsRows ==
    wished # <<>> =>
        /\ BlockRows(hosts) = wished
        /\ \A i, j \in DOMAIN wished : wished[i] = wished[j] => i = j

(* Our block would come to lie in Telegram's, which a blank line ends. *)
Splits(rows) ==
    LET lines == KeptLines(hosts, rows) IN
    \E i \in 1..Min({FirstMapping(lines), Len(lines)}) :
        lines[i] = TgHead /\ \A j \in i..FirstMapping(lines) - 1 : lines[j] # Blank

(* The last line of the file is not blank, has no line end and stays, and  *)
(* the block comes behind it: there is no blank line between the two.      *)
Sticks(rows) ==
    LET lines == KeptLines(Current, rows) IN
    /\ rows # <<>> /\ Unended(Current, rows, lastEnds)
    /\ FirstMapping(lines) > Len(lines) /\ Last(lines) # Blank

(* Applying the same rows to the result changes nothing: blank lines and   *)
(* blocks do not pile up over the starts of the program. Only if the block *)
(* sticks to a line that had no line end, there is one more change: the    *)
(* second apply puts the blank line in between, and then it is settled.    *)
ApplyIsIdempotent ==
    [][ApplyRows /\ ~Splits(wished') =>
          \A again \in {Rebuilt(hosts', wished', lastEnds')} :
              IF Sticks(wished')
              THEN /\ again = InsertBlock(KeptLines(Current, wished'), wished', FALSE)
                   /\ InsertBlock(KeptLines(again, wished'), wished', FALSE) = again
              ELSE again = hosts']_hostsVars

(* A name with an address, unless it is one of ours with an address that   *)
(* is none of ours.                                                        *)
AddPair(kept, name, ip, rows) ==
    IF \A r \in ToSet(rows) : r[1] = name => <<name, ip>> \in ToSet(rows)
    THEN Append(kept, <<name, ip>>) ELSE kept

AddPairs(kept, names, ip, rows) ==
    FoldLeft(LAMBDA acc, name : AddPair(acc, name, ip, rows), kept, names)

(* What others have in a file: comments and marks; names that stay; and    *)
(* the mappings that lie in a block of another master.                     *)
Notice(seen, line, rows) ==
    [remarks |-> IF IsMap(line) \/ line = Blank THEN seen.remarks ELSE Append(seen.remarks, line),
     pairs |-> AddPairs(seen.pairs, line.names, line.ip, rows),
     inBlocks |-> IF IsMap(line) /\ seen.closing # Note THEN Append(seen.inBlocks, line)
                  ELSE seen.inBlocks,
     closing |-> IF seen.closing = Note THEN OtherBlock(line)
                 ELSE IF line = seen.closing THEN Note ELSE seen.closing]

Unseen == [remarks |-> <<>>, pairs |-> <<>>, inBlocks |-> <<>>, closing |-> Note]
OfOthers(lines, rows) == FoldLeft(LAMBDA seen, line : Notice(seen, line, rows), Unseen, lines)

(* The lines before the first begin marker that no end marker follows. *)
Bounded(lines) ==
    Min({Len(lines) + 1}
        \cup {b \in DOMAIN lines : lines[b] = BeginMark /\ \A e \in b..Len(lines) : lines[e] # EndMark})
      - 1

(* A line from a begin marker to the end marker that is next behind it. *)
InBlock(lines, i) ==
    \E b \in {j \in 1..i : lines[j] = BeginMark} : \E e \in i..Len(lines) :
        lines[e] = EndMark /\ \A j \in b..e - 1 : lines[j] # EndMark

(* Those of them that are in no such block. *)
AddForeign(kept, lines, i) == IF InBlock(lines, i) THEN kept ELSE Append(kept, lines[i])

Foreign(lines) ==
    FoldLeft(LAMBDA kept, i : AddForeign(kept, lines, i), <<>>, [i \in 1..Bounded(lines) |-> i])

(* What others wrote survives an apply: their comments and marks, and each *)
(* name with its address, in order; except a name of ours with an address  *)
(* that is none of ours, which is only left inside the blocks of others.   *)
(* And these stay whole, unless ours came to lie in one up to a blank line.*)
(* What is behind a begin marker that no end marker follows is lost, to    *)
(* the last line of the file, whoever wrote it; nothing before it is.      *)
OthersKept ==
    [][ApplyRows /\ readable =>
          \A old \in {OfOthers(Foreign(hosts), wished')},
             new \in {OfOthers(Foreign(hosts'), wished')} :
              /\ new.remarks = old.remarks /\ new.pairs = old.pairs
              /\ ~Splits(wished') => new.inBlocks = old.inBlocks]_hostsVars

(* "Blocks of other features have their own master, their lines are not    *)
(* touched": what is such a line stays one, whatever is applied.           *)
OtherBlocksKept ==
    [][ApplyRows /\ readable =>
          OfOthers(Foreign(hosts'), wished').inBlocks
              = OfOthers(Foreign(hosts), wished').inBlocks]_hostsVars
===============================================================================
