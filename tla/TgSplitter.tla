------------------------------- MODULE TgSplitter -------------------------------
(***************************************************************************)
(* The cutting of a client's stream for the WebSocket: bytes come in reads *)
(* of any length, the lengths in the clear text say where messages end,    *)
(* and each message is sent as one frame of cipher text.                   *)
(*                                                                         *)
(* Both texts have the same length, so a place in the stream stands for    *)
(* both; a message is the length of its head and of its body.              *)
(***************************************************************************)
EXTENDS Naturals, Sequences, SequencesExt

CONSTANTS Streams          (* what clients send: sequences of messages     *)

(* A head has at least one byte. *)
Messages == [head : Nat \ {0}, body : Nat]

ASSUME TsAssumption == Streams \subseteq Seq(Messages)

VARIABLES stream,
          got,             (* bytes read                                   *)
          cut,             (* bytes handed on: the rest is in the buffers  *)
          disabled,
          parts,           (* the lengths of the frames sent               *)
          ended            (* the client has closed                        *)

tsVars == <<stream, got, cut, disabled, parts, ended>>

Size(message) == message.head + message.body
Total(messages) == FoldLeft(LAMBDA n, m : n + Size(m), 0, messages)

(* Type correctness. *)
TsTypeOK ==
    /\ stream \in Streams
    /\ got \in 0..Total(stream) /\ cut \in 0..got
    /\ disabled \in BOOLEAN /\ ended \in BOOLEAN
    /\ parts \in Seq(Nat \ {0})

TsInit ==
    /\ stream \in Streams
    /\ got = 0 /\ cut = 0 /\ disabled = FALSE /\ parts = <<>> /\ ended = FALSE

-----------------------------------------------------------------------------
More == Total(stream) + 1                     (* None: more bytes needed   *)

(* Mutant of NextLen: a head that is there is enough. *)
NextLenByHead(at, available) ==
    LET i == CHOOSE n \in 1..Len(stream) : Total(SubSeq(stream, 1, n - 1)) <= at
                                          /\ at < Total(SubSeq(stream, 1, n))
        m == stream[i]
    IN  IF available < m.head THEN More
        ELSE IF m.body = 0 THEN 0
        ELSE IF Size(m) < available THEN Size(m) ELSE available

(* next_len at a place where a message begins: its length, 0 for an empty  *)
(* one, More if it is not there in full.                                   *)
NextLen(at, available) ==
    LET i == CHOOSE n \in 1..Len(stream) : Total(SubSeq(stream, 1, n - 1)) <= at
                                          /\ at < Total(SubSeq(stream, 1, n))
        m == stream[i]
    IN  IF available < m.head THEN More
        ELSE IF m.body = 0 THEN 0
        ELSE IF available >= Size(m) THEN Size(m) ELSE More

(* The loop of split, one turn: the frame cut off at a place, if any.      *)
CutNext(acc, upTo) ==
    LET length == NextLen(acc.at, upTo - acc.at)
    IN  IF acc.over \/ acc.at = upTo \/ length = More THEN [acc EXCEPT !.over = TRUE]
        ELSE IF length = 0
             THEN [out |-> Append(acc.out, upTo - acc.at), at |-> upTo, off |-> TRUE, over |-> TRUE]
        ELSE [acc EXCEPT !.out = Append(@, length), !.at = @ + length]

NothingCut(from) == [out |-> <<>>, at |-> from, off |-> FALSE, over |-> FALSE]

(* All of its turns: each cuts off a byte at least. *)
Cuts(from, upTo) ==
    FoldLeft(LAMBDA acc, i : CutNext(acc, upTo), NothingCut(from), [i \in 1..(upTo - from) |-> i])

(* bridge_ws: a read of any length, split, and what it gave is sent. *)
Read ==
    /\ ~ended
    /\ \E upTo \in (got + 1)..Total(stream) :
          /\ got' = upTo
          /\ IF disabled
             THEN parts' = Append(parts, upTo - got) /\ cut' = upTo /\ UNCHANGED disabled
             ELSE LET cuts == Cuts(cut, upTo)
                  IN  parts' = parts \o cuts.out /\ cut' = cuts.at /\ disabled' = cuts.off
    /\ UNCHANGED <<stream, ended>>

(* The client closes, perhaps in a message: flush sends what is left. *)
Flush ==
    /\ ~ended
    /\ ended' = TRUE
    /\ cut' = got
    /\ parts' = IF cut = got THEN parts ELSE Append(parts, got - cut)
    /\ UNCHANGED <<stream, got, disabled>>

TsNext == Read \/ Flush

TsSpec == TsInit /\ [][TsNext]_tsVars

-----------------------------------------------------------------------------
(* Properties                                                              *)

Whole(n) == n <= Len(stream) /\ \A i \in 1..n : stream[i].body # 0

(* However the stream falls into reads, frames are messages: as long as    *)
(* there was no empty message, the frames are the sizes of the first       *)
(* messages in order, every message that is there in full is on its way,   *)
(* and no byte is lost, sent twice or kept back at the end.                *)
FramesAreMessages ==
    /\ FoldLeft(+, 0, parts) = cut
    /\ disabled \/ ended => cut = got
    /\ ~disabled /\ ~ended =>
          /\ Whole(Len(parts))
          /\ \A i \in DOMAIN parts : parts[i] = Size(stream[i])
          /\ Len(parts) < Len(stream) =>
                \/ stream[Len(parts) + 1].body = 0 /\ got - cut < stream[Len(parts) + 1].head
                \/ got - cut < Size(stream[Len(parts) + 1])
=============================================================================
