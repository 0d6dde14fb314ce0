---------------------------- MODULE SystemProofs ----------------------------
(* Theorems about what the program leaves in the system: the rules of the  *)
(* packet queue, and its block in the hosts file.                          *)
EXTENDS NftRules, Hosts, SequenceLemmas, SequenceTheorems, TLAPS

-----------------------------------------------------------------------------
(* The queue rules, for every choice of filters and every packet.          *)

(* What a packet must be like for its queue rule, whoever sent it. *)
Wanted(p) ==
    /\ p.family \notin filters.off /\ p.proto \in filters.ports
    /\ p.listed /\ ~p.excluded /\ p.nth <= filters.first[p.dir]
    /\ p.family \in wans => p.viaWan

(* The hooks still before a packet, by its direction, and whether the one  *)
(* with the queue rules is among them.                                     *)
HooksLeft ==
    hooks \in IF packet.dir = "out" THEN {<<"postrouting_hook", "postnat_hook">>, <<"postnat_hook">>, <<>>}
              ELSE {<<"prenat_hook", "prerouting_hook">>, <<"prerouting_hook">>, <<>>}

BeforeQueue ==
    IF packet.dir = "out" THEN hooks = <<"postrouting_hook", "postnat_hook">> ELSE hooks # <<>>

(* A packet of a program is queued at the hook with the queue rules or not *)
(* at all; a packet of the engine bears its mark, so it is not.            *)
QueueInv ==
    /\ HooksLeft
    /\ fate = "on" => hooks # <<>>
    /\ fate = "queue" => packet.kind = "app" /\ queued = 1 /\ ~BeforeQueue
    /\ packet.kind = "app" =>
          /\ "desync" \notin packet.marks
          /\ queued = IF ~BeforeQueue /\ Wanted(packet) THEN 1 ELSE 0
          /\ BeforeQueue => fate = "on"
    /\ packet.kind # "app" => queued = 0
    /\ packet.kind = "own" => packet.dir = "out" /\ "desync" \in packet.marks
    /\ packet.kind = "echo" => packet.dir = "in"

(* The connection is marked before the engine can answer for a packet: by  *)
(* the program's packet on its way into the queue where there is postnat,  *)
(* else by the packet of the engine itself, if conntrack saw it.           *)
MarkInv ==
    /\ packet.kind # "app" => packet.family \notin filters.off
    /\ filters.ttlIcmp /\ filters.postnat
          /\ (packet.kind # "app" \/ (packet.dir = "out" /\ queued = 1)) => connMark
    /\ filters.ttlIcmp /\ ~filters.postnat =>
          /\ packet.kind = "own" /\ ~Untracked /\ ~BeforeQueue => connMark
          /\ fakes => connMark

NftInv == NftTypeOK /\ QueueInv /\ MarkInv /\ EchoesAreDropped

(* A packet of the direction that is queued is queued at this hook. *)
LEMMA WhereQueued ==
    ASSUME NftTypeOK, QueueInv, NEW hook
    PROVE  Queues(hook) <=>
             /\ packet.kind # "echo" /\ "desync" \notin packet.marks /\ Wanted(packet)
             /\ hook = IF packet.dir = "out" THEN "postrouting_hook" ELSE "prerouting_hook"
  <1>1. CASE packet.dir = "out"
    <2>1. PostChain # PreChain
      BY DEF PostChain, PreChain
    <2>2. QED
      BY <1>1, <2>1 DEF Queues, Jumps, QueueRule, Wanted, Enabled
  <1>2. CASE packet.dir = "in"
    <2>1. PostChain # PreChain
      BY DEF PostChain, PreChain
    <2>2. QED
      BY <1>2, <2>1 DEF Queues, Jumps, QueueRule, Wanted, Enabled
  <1>3. QED
    BY <1>1, <1>2 DEF NftTypeOK, Packets

(* The hook a packet meets, and what is left after it. *)
LEMMA NextHook ==
    ASSUME QueueInv, hooks # <<>>
    PROVE  \/ /\ packet.dir = "out" /\ hooks = <<"postrouting_hook", "postnat_hook">>
              /\ Head(hooks) = "postrouting_hook" /\ Tail(hooks) = <<"postnat_hook">>
           \/ /\ packet.dir = "out" /\ hooks = <<"postnat_hook">>
              /\ Head(hooks) = "postnat_hook" /\ Tail(hooks) = <<>>
           \/ /\ packet.dir # "out" /\ hooks = <<"prenat_hook", "prerouting_hook">>
              /\ Head(hooks) = "prenat_hook" /\ Tail(hooks) = <<"prerouting_hook">>
           \/ /\ packet.dir # "out" /\ hooks = <<"prerouting_hook">>
              /\ Head(hooks) = "prerouting_hook" /\ Tail(hooks) = <<>>
  <1>1. \A a, b : Head(<<a, b>>) = a /\ Tail(<<a, b>>) = <<b>> /\ Head(<<a>>) = a /\ Tail(<<a>>) = <<>>
    OBVIOUS
  <1>2. QED
    BY <1>1 DEF QueueInv, HooksLeft

LEMMA NftInitInv == NftInit => NftInv
  <1> SUFFICES ASSUME NftInit PROVE NftInv
    OBVIOUS
  <1>1. /\ packet \in Packets /\ packet.kind = "app" /\ packet.marks = {}
        /\ hooks = HooksOf(packet.dir) /\ fate = "on" /\ queued = 0 /\ fakes = FALSE
        /\ packet.dir \in {"out", "in"}
    BY DEF NftInit, Packets
  <1>2. NftTypeOK
    BY DEF NftInit, NftTypeOK
  <1>3. HooksLeft /\ BeforeQueue /\ hooks # <<>>
    BY <1>1 DEF HooksLeft, BeforeQueue, HooksOf
  <1>4. QED
    BY <1>1, <1>2, <1>3 DEF NftInv, QueueInv, MarkInv, EchoesAreDropped

(* The packet meets a hook: its place, its queue, the mark and its fate. *)
LEMMA MeetQueue ==
    ASSUME NftInv, Meet
    PROVE  NftTypeOK' /\ QueueInv'
  <1> DEFINE hook == Head(hooks)
             goes == Queues(hook)
  <1> NftTypeOK /\ QueueInv /\ fate = "on" /\ hooks # <<>>
    BY DEF NftInv, Meet
  <1>1. /\ hooks' = Tail(hooks) /\ UNCHANGED <<filters, wans>>
        /\ queued' = IF goes THEN queued + 1 ELSE queued
        /\ connMark' \in BOOLEAN /\ fakes' \in BOOLEAN
    BY DEF Meet, NftTypeOK
  <1>p. packet' = IF goes /\ filters.postnat /\ packet.dir = "out"
                  THEN [packet EXCEPT !.marks = @ \cup {"postnat"}] ELSE packet
    BY DEF Meet
  <1>2. \/ fate' = "dropped" /\ packet.kind = "echo"
        \/ fate' = "queue" /\ goes
        \/ fate' = "passed" /\ ~goes /\ Tail(hooks) = <<>>
        \/ fate' = "on" /\ ~goes /\ Tail(hooks) # <<>>
    BY DEF Meet, Drops, DropsInvalid
  <1>3. goes <=> /\ packet.kind # "echo" /\ "desync" \notin packet.marks /\ Wanted(packet)
                 /\ hook = IF packet.dir = "out" THEN "postrouting_hook" ELSE "prerouting_hook"
    BY WhereQueued
  <1> HIDE DEF goes
  <1>4. /\ packet' \in Packets
        /\ packet'.kind = packet.kind /\ packet'.dir = packet.dir
        /\ Wanted(packet)' = Wanted(packet)
        /\ packet'.marks \in {packet.marks, packet.marks \cup {"postnat"}}
    <2>1. packet \in Packets
      BY DEF NftTypeOK
    <2>2. CASE packet' = packet
      BY <2>1, <2>2, <1>1 DEF Wanted
    <2>3. CASE packet' = [packet EXCEPT !.marks = @ \cup {"postnat"}]
      BY <2>1, <2>3, <1>1 DEF Packets, Wanted
    <2>4. QED
      BY <1>p, <2>2, <2>3
  <1>5. NftTypeOK'
    BY <1>1, <1>2, <1>4 DEF NftTypeOK
  <1>6. /\ HooksLeft'
        /\ BeforeQueue' <=> BeforeQueue /\ hook \notin {"postrouting_hook", "prerouting_hook"}
    BY <1>1, <1>4, NextHook DEF HooksLeft, BeforeQueue
  <1>7. BeforeQueue <=> ~(packet.dir = "out" /\ hook = "postnat_hook")
    BY NextHook DEF BeforeQueue
  <1>8. CASE packet.kind = "app"
    <2>1. queued = IF ~BeforeQueue /\ Wanted(packet) THEN 1 ELSE 0
      BY <1>8 DEF QueueInv
    <2>2. goes => BeforeQueue
      BY <1>3, <1>7
    <2>3. queued' = IF ~BeforeQueue' /\ Wanted(packet)' THEN 1 ELSE 0
      BY <1>1, <1>3, <1>4, <1>6, <1>7, <1>8, <2>1, <2>2, NextHook DEF QueueInv
    <2>4. BeforeQueue' => fate' = "on"
      BY <1>1, <1>2, <1>3, <1>4, <1>6, <1>8, NextHook DEF BeforeQueue
    <2>5. fate' = "queue" => queued' = 1 /\ ~BeforeQueue'
      BY <1>1, <1>2, <1>3, <1>6, <2>1, <2>2, <1>8
    <2>6. QED
      BY <1>1, <1>2, <1>4, <1>5, <1>6, <1>8, <2>3, <2>4, <2>5 DEF QueueInv
  <1>9. CASE packet.kind # "app"
    <2>1. ~goes
      BY <1>3, <1>9 DEF QueueInv, NftTypeOK, Packets
    <2>2. QED
      BY <1>1, <1>2, <1>4, <1>5, <1>6, <1>9, <2>1 DEF QueueInv
  <1>10. QED
    BY <1>8, <1>9

(* ... and what is known of its connection. *)
LEMMA MeetMark ==
    ASSUME NftInv, Meet
    PROVE  MarkInv' /\ EchoesAreDropped'
  <1> DEFINE hook == Head(hooks)
             goes == Queues(hook)
  <1> NftTypeOK /\ QueueInv /\ MarkInv /\ EchoesAreDropped /\ fate = "on" /\ hooks # <<>>
    BY DEF NftInv, Meet
  <1>1. /\ hooks' = Tail(hooks) /\ UNCHANGED <<filters, wans>>
        /\ queued' = IF goes THEN queued + 1 ELSE queued
        /\ connMark' = (connMark \/ MarksConn(hook))
        /\ fakes' = (fakes \/ (packet.kind = "own" /\ Tail(hooks) = <<>> /\ ~Untracked))
        /\ (fate' = "passed" => ~Drops(hook))
    BY DEF Meet
  <1>p. packet' = IF goes /\ filters.postnat /\ packet.dir = "out"
                  THEN [packet EXCEPT !.marks = @ \cup {"postnat"}] ELSE packet
    BY DEF Meet
  <1>3. goes <=> /\ packet.kind # "echo" /\ "desync" \notin packet.marks /\ Wanted(packet)
                 /\ hook = IF packet.dir = "out" THEN "postrouting_hook" ELSE "prerouting_hook"
    BY WhereQueued
  <1> HIDE DEF goes
  <1>4. /\ packet'.kind = packet.kind /\ packet'.dir = packet.dir /\ packet'.family = packet.family
        /\ packet.kind # "app" => packet' = packet
    <2>1. packet \in Packets
      BY DEF NftTypeOK
    <2>2. packet.kind # "app" => ~goes
      BY <2>1, <1>3 DEF QueueInv, Packets
    <2>3. CASE packet' = packet
      BY <2>3
    <2>4. CASE goes /\ packet' = [packet EXCEPT !.marks = @ \cup {"postnat"}]
      BY <2>1, <2>2, <2>4 DEF Packets
    <2>5. QED
      BY <1>p, <2>3, <2>4
  <1>5. connMark \in BOOLEAN /\ fakes \in BOOLEAN
    BY DEF NftTypeOK
  (* Where there is postnat the packet of a program marks on its way out. *)
  <1>6. ASSUME filters.ttlIcmp, filters.postnat,
               packet.kind # "app" \/ (packet.dir = "out" /\ queued' = 1)
        PROVE  connMark'
    <2>1. CASE packet.kind # "app" \/ queued = 1
      BY <2>1, <1>1, <1>5, <1>6 DEF MarkInv
    <2>2. CASE packet.kind = "app" /\ queued # 1
      <3>1. goes /\ packet.dir = "out"
        BY <2>2, <1>1, <1>6
      <3>2. ~Untracked
        BY <2>2 DEF Untracked
      <3>3. MarksConn(hook)
        BY <1>6, <3>1, <3>2 DEF MarksConn, goes
      <3>4. QED
        BY <1>1, <3>3
    <2>3. QED
      BY <2>1, <2>2
  (* Elsewhere the packet of the engine does. *)
  <1>7. ASSUME filters.ttlIcmp, ~filters.postnat, packet.kind = "own", ~Untracked
        PROVE  connMark'
    <2>1. "desync" \in packet.marks /\ packet.dir = "out"
      BY <1>7 DEF QueueInv
    <2>2. CASE BeforeQueue
      <3>1. hook = "postrouting_hook"
        BY <2>1, <2>2, NextHook DEF BeforeQueue
      <3>2. MarksConn(hook)
        BY <1>7, <2>1, <3>1 DEF MarksConn
      <3>3. QED
        BY <1>1, <3>2
    <2>3. CASE ~BeforeQueue
      BY <1>1, <1>5, <1>7, <2>3 DEF MarkInv
    <2>4. QED
      BY <2>2, <2>3
  <1>8. MarkInv'
    <2>1. packet'.kind # "app" => packet'.family \notin filters'.off
      BY <1>1, <1>4 DEF MarkInv
    <2>2. filters'.ttlIcmp /\ ~filters'.postnat /\ fakes' => connMark'
      BY <1>1, <1>5, <1>7 DEF MarkInv
    <2>3. packet'.kind = "own" => Untracked' = Untracked
      BY <1>4 DEF Untracked
    <2>4. QED
      BY <1>1, <1>4, <1>6, <1>7, <2>1, <2>2, <2>3 DEF MarkInv
  <1>9. EchoesAreDropped'
    <2> SUFFICES ASSUME filters.ttlIcmp, packet.kind = "echo", filters.postnat \/ fakes',
                        fate' = "passed"
                 PROVE  FALSE
      BY <1>1, <1>4 DEF EchoesAreDropped
    <2>1. Tail(hooks) = <<>> /\ packet.dir = "in"
      BY <1>3 DEF Meet, QueueInv
    <2>2. hook = "prerouting_hook"
      BY <2>1, NextHook
    <2>3. connMark /\ Enabled(packet.family)
      BY <1>1 DEF MarkInv, Enabled
    <2>4. Drops(hook)
      BY <2>2, <2>3 DEF Drops
    <2>5. QED
      BY <1>1, <2>4
  <1>10. QED
    BY <1>8, <1>9

LEMMA NftStepInv == NftInv /\ [NftNext]_nftVars => NftInv'
  <1> SUFFICES ASSUME NftInv, [NftNext]_nftVars PROVE NftInv'
    OBVIOUS
  <1> NftTypeOK /\ QueueInv /\ MarkInv /\ EchoesAreDropped
    BY DEF NftInv
  <1>1. CASE Meet
    BY <1>1, MeetQueue, MeetMark DEF NftInv
  <1>2. CASE LetGo
    <2>1. /\ fate = "queue" /\ fate' = IF hooks = <<>> THEN "passed" ELSE "on"
          /\ UNCHANGED <<filters, wans, packet, hooks, queued, connMark, fakes>>
      BY <1>2 DEF LetGo
    <2>2. NftTypeOK' /\ QueueInv'
      BY <2>1 DEF NftTypeOK, QueueInv, HooksLeft, BeforeQueue, Wanted
    <2>3. MarkInv' /\ EchoesAreDropped'
      BY <2>1 DEF MarkInv, EchoesAreDropped, Untracked, BeforeQueue, QueueInv
    <2>4. QED
      BY <2>2, <2>3 DEF NftInv
  <1>3. CASE SendOwn
    <2>1. /\ fate = "queue" /\ packet.dir = "out" /\ queued' = 0 /\ fate' = "on"
          /\ UNCHANGED <<filters, wans, connMark, fakes>>
          /\ hooks' = <<"postrouting_hook", "postnat_hook">>
      BY <1>3 DEF SendOwn, HooksOf
    <2>2. /\ packet' \in Packets /\ packet'.kind = "own" /\ packet'.dir = "out"
          /\ packet'.family = packet.family /\ "desync" \in packet'.marks
      <3>1. packet \in Packets
        BY DEF NftTypeOK
      <3>2. PICK loose \in BOOLEAN :
               packet' = [packet EXCEPT !.kind = "own", !.loose = loose, !.marks = @ \cup {"desync"}]
        BY <1>3 DEF SendOwn
      <3>3. QED
        BY <2>1, <3>1, <3>2 DEF Packets
    <2>3. packet.kind = "app" /\ queued = 1 /\ Wanted(packet)
      BY <2>1 DEF QueueInv
    <2>4. NftTypeOK' /\ QueueInv'
      BY <2>1, <2>2 DEF NftTypeOK, QueueInv, HooksLeft, BeforeQueue
    <2>5. MarkInv' /\ EchoesAreDropped'
      BY <2>1, <2>2, <2>3 DEF MarkInv, EchoesAreDropped, BeforeQueue, Wanted
    <2>6. QED
      BY <2>4, <2>5 DEF NftInv
  <1>4. CASE Expired
    <2>1. /\ packet.kind = "own" /\ queued' = 0 /\ fate' = "on"
          /\ UNCHANGED <<filters, wans, connMark, fakes>>
          /\ hooks' = <<"prenat_hook", "prerouting_hook">>
      BY <1>4 DEF Expired, HooksOf
    <2>2. /\ packet' \in Packets /\ packet'.kind = "echo" /\ packet'.dir = "in"
          /\ packet'.family = packet.family
      <3>1. packet \in Packets
        BY DEF NftTypeOK
      <3>2. packet' = [packet EXCEPT !.kind = "echo", !.dir = "in", !.marks = {}]
        BY <1>4 DEF Expired
      <3>3. QED
        BY <3>1, <3>2 DEF Packets
    <2>3. NftTypeOK' /\ QueueInv'
      BY <2>1, <2>2 DEF NftTypeOK, QueueInv, HooksLeft, BeforeQueue
    <2>4. MarkInv' /\ EchoesAreDropped'
      BY <2>1, <2>2 DEF MarkInv, EchoesAreDropped, BeforeQueue
    <2>5. QED
      BY <2>3, <2>4 DEF NftInv
  <1>5. CASE UNCHANGED nftVars
    BY <1>5 DEF nftVars, NftInv, NftTypeOK, QueueInv, HooksLeft, BeforeQueue, Wanted, MarkInv,
       Untracked, EchoesAreDropped
  <1>6. QED
    BY <1>1, <1>2, <1>3, <1>4, <1>5 DEF NftNext

LEMMA NftInvariant == NftSpec => []NftInv
  BY NftInitInv, NftStepInv, PTL DEF NftSpec

(* Packets, hooks and marks are well-typed. *)
THEOREM NftTypeCorrect == NftSpec => []NftTypeOK
  <1>1. NftInv => NftTypeOK
    BY DEF NftInv
  <1>2. QED
    BY <1>1, NftInvariant, PTL

(* nft_rules_text: whatever filters are asked for, the engine gets every   *)
(* packet it is to see once, no other, and none of its own.                *)
THEOREM EachPacketQueuedOnce == NftSpec => []QueuedOnce
  <1>1. ASSUME NftInv PROVE QueuedOnce
    <2> NftTypeOK /\ QueueInv
      BY <1>1 DEF NftInv
    <2>1. ForEngine(packet) <=> packet.kind = "app" /\ Wanted(packet)
      BY DEF ForEngine, Wanted
    <2>2. packet.kind \in {"app", "own", "echo"}
      BY DEF NftTypeOK, Packets
    <2>3. QED
      BY <2>1, <2>2 DEF QueueInv, QueuedOnce
  <1>2. QED
    BY <1>1, NftInvariant, PTL

(* filter_ttl_expired_icmp: no program sees the error that a fake packet   *)
(* of the engine brought, in either mode.                                  *)
THEOREM NoEchoPasses == NftSpec => []EchoesAreDropped
  <1>1. NftInv => EchoesAreDropped
    BY DEF NftInv
  <1>2. QED
    BY <1>1, NftInvariant, PTL

-----------------------------------------------------------------------------
(* The block of the hosts file, for any lines of others, any rows and any  *)
(* marks left in the file. The strengthening is about how the file is read *)
(* back: the first block is behind when its last line has been read, so    *)
(* nothing that is added later belongs to it.                              *)

Plain == Lines \ {BeginMark}

OneRow == HostNames \X HostAddresses
AnyAddress == HostAddresses \cup {""}

LEMMA LinesAreTyped ==
  /\ {Blank, Note, EndMark, MaxHead, MaxEnd, TgHead} \subseteq Plain /\ BeginMark \in Lines
  /\ ~IsMap(Blank) /\ ~IsMap(Note) /\ ~IsMap(EndMark) /\ EndMark # Note
  /\ \A ip \in AnyAddress, names \in Seq(HostNames) :
        /\ Map(ip, names) \in Plain /\ Map(ip, names) # EndMark /\ IsMap(Map(ip, names))
        /\ Map(ip, names).names = names /\ Map(ip, names).ip = ip
<1>1. /\ \A kind \in LineKinds : Mark(kind) \in Lines /\ Mark(kind).kind = kind
      /\ \A ip \in AnyAddress, names \in Seq(HostNames) :
            /\ Map(ip, names) \in Lines /\ Map(ip, names).kind = "map"
            /\ Map(ip, names).names = names /\ Map(ip, names).ip = ip
  <2>1. <<>> \in Seq(HostNames) /\ "map" \in LineKinds
    BY DEF LineKinds
  <2>2. \A kind \in LineKinds : Mark(kind) \in Lines /\ Mark(kind).kind = kind
    BY <2>1 DEF Mark, Lines, AnyAddress
  <2>3. \A ip \in AnyAddress, names \in Seq(HostNames) :
            /\ Map(ip, names) \in Lines /\ Map(ip, names).kind = "map"
            /\ Map(ip, names).names = names /\ Map(ip, names).ip = ip
    BY <2>1 DEF Map, Lines, AnyAddress
  <2> QED BY <2>2, <2>3
<1>2. /\ Blank \in Lines /\ Blank.kind = "blank" /\ Note \in Lines /\ Note.kind = "note"
      /\ BeginMark \in Lines /\ BeginMark.kind = "begin"
      /\ EndMark \in Lines /\ EndMark.kind = "end"
      /\ MaxHead \in Lines /\ MaxHead.kind = "maxHead"
      /\ MaxEnd \in Lines /\ MaxEnd.kind = "maxEnd"
      /\ TgHead \in Lines /\ TgHead.kind = "tgHead"
  BY <1>1 DEF Blank, Note, BeginMark, EndMark, MaxHead, MaxEnd, TgHead, LineKinds
<1> QED BY <1>1, <1>2 DEF Plain, IsMap

LEMMA FieldsOfLine ==
  ASSUME NEW line \in Lines
  PROVE  line.ip \in AnyAddress /\ line.names \in Seq(HostNames)
BY DEF Lines, AnyAddress

-----------------------------------------------------------------------------
(* The folds.                                                              *)

LEMMA LongerBy ==
  ASSUME NEW T, NEW s \in Seq(T), NEW i \in Nat, i + 1 \in 1..Len(s)
  PROVE  Append(SubSeq(s, 1, i), s[i + 1]) = SubSeq(s, 1, i + 1)
<1>1. Len(s) \in Nat /\ i <= Len(s)
  OBVIOUS
<1> DEFINE x == SubSeq(s, 1, i)
           z == SubSeq(s, 1, i + 1)
<1>2. x \in Seq(T) /\ Len(x) = i /\ \A k \in 1..i : x[k] = s[k]
  BY <1>1
<1>3. z \in Seq(T) /\ Len(z) = i + 1 /\ \A k \in 1..i + 1 : z[k] = s[k]
  BY <1>1
<1> HIDE DEF x, z
<1> DEFINE y == Append(x, s[i + 1])
<1>4. /\ y \in Seq(T) /\ Len(y) = i + 1 /\ y[i + 1] = s[i + 1]
      /\ \A k \in 1..i : y[k] = x[k]
  BY <1>1, <1>2
<1> HIDE DEF y
<1>5. \A k \in 1..i + 1 : y[k] = z[k]
  BY <1>2, <1>3, <1>4
<1>6. y = z
  BY <1>3, <1>4, <1>5, SeqEqual
<1> QED BY <1>6 DEF x, y, z

NothingRemoved == [out |-> <<>>, inside |-> FALSE]
NothingDropped == [out |-> <<>>, closing |-> Note]

(* RemoveBlock, DropConflicting and Rest, line by line or name by name.    *)
LEMMA SkipRuns ==
  ASSUME NEW A, NEW S, NEW lines \in Seq(A), NothingRemoved \in S,
         \A x \in S, y \in A : SkipBlock(x, y) \in S
  PROVE  \E h \in [0..Len(lines) -> S] :
            /\ h[0] = NothingRemoved
            /\ \A i \in 1..Len(lines) : h[i] = SkipBlock(h[i - 1], lines[i])
            /\ RemoveBlock(lines) = h[Len(lines)].out
<1> DEFINE b == NothingRemoved
           s == lines
           n == Len(s)
           g == [p \in S \X A |-> SkipBlock(p[1], p[2])]
           Turn(f) == [t \in SUBSET (DOMAIN s) |->
                         IF t = {} THEN b ELSE SkipBlock(f[t \ {Max(t)}], s[Max(t)])]
           c == CHOOSE f : f = Turn(f)
<1>1. n \in Nat /\ DOMAIN s = 1..n /\ \A i \in 1..n : s[i] \in A
  OBVIOUS
<1>3. RemoveBlock(lines) = c[DOMAIN s].out
  BY DEF RemoveBlock, FoldLeft, MapThenFoldSet, NothingRemoved
<1> HIDE DEF n, s, b
<1>4. g \in [S \X A -> S] /\ \A x \in S, y \in A : g[<<x, y>>] = SkipBlock(x, y)
  OBVIOUS
<1> HIDE DEF g
<1>5. Steps(S, A, g, b, s, n)
  BY <1>1, <1>4 DEF Steps, b
<1>6. \A t \in SUBSET (1..n) : t # {} => s[Max(t)] \in A
  BY <1>1, GreatestIs
<1>7. PICK f : Iterates(f, S, g, b, s, n)
  <2> HIDE DEF c, Turn
  <2> QED BY <1>5, IterExists
<1>8. f = Turn(f)
  <2>1. \A t \in SUBSET (1..n) :
            f[t] = IF t = {} THEN b ELSE SkipBlock(f[t \ {Max(t)}], s[Max(t)])
    BY <1>4, <1>6, <1>7 DEF Iterates
  <2> QED BY <1>1, <1>7, <2>1 DEF Iterates
<1>9. c = Turn(c)
  <2> HIDE DEF Turn
  <2> QED BY <1>8
<1>10. FoldsBy(c, S, g, b, s, n)
  <2> HIDE DEF c
  <2> QED BY <1>1, <1>4, <1>6, <1>9 DEF FoldsBy
<1> HIDE DEF c
<1>11. PICK h : RunsTo(h, S, g, b, s, n, c[1..n])
  BY <1>5, <1>10, RunOfIter
<1>12. \A i \in 1..n : h[i] = SkipBlock(h[i - 1], s[i])
  <2>1. n \in Nat /\ h \in [0..n -> S] /\ \A i \in 1..n : h[i] = g[<<h[i - 1], s[i]>>]
    BY <1>1, <1>11 DEF RunsTo
  <2>2. \A i \in 1..n : i - 1 \in 0..n
    BY <2>1
  <2>3. \A i \in 1..n : h[i - 1] \in S /\ s[i] \in A
    BY <1>1, <2>1, <2>2
  <2> QED BY <1>4, <2>1, <2>3
<1> QED BY <1>1, <1>3, <1>11, <1>12 DEF RunsTo, n, b, s

DropsBy(h, S, lines, rows) ==
    /\ h \in [0..Len(lines) -> S] /\ h[0] = NothingDropped
    /\ \A i \in 1..Len(lines) : h[i] = DropFromLine(h[i - 1], lines[i], rows)
    /\ DropConflicting(lines, rows) = h[Len(lines)].out

LEMMA DropRuns ==
  ASSUME NEW A, NEW S, NEW lines \in Seq(A), NEW rows, NothingDropped \in S,
         \A x \in S, y \in A : DropFromLine(x, y, rows) \in S
  PROVE  \E h : DropsBy(h, S, lines, rows)
<1> DEFINE b == NothingDropped
           s == lines
           n == Len(s)
           g == [p \in S \X A |-> DropFromLine(p[1], p[2], rows)]
           Turn(f) == [t \in SUBSET (DOMAIN s) |->
                         IF t = {} THEN b ELSE DropFromLine(f[t \ {Max(t)}], s[Max(t)], rows)]
           c == CHOOSE f : f = Turn(f)
<1>1. n \in Nat /\ DOMAIN s = 1..n /\ \A i \in 1..n : s[i] \in A
  OBVIOUS
<1>3. DropConflicting(lines, rows) = c[DOMAIN s].out
  BY DEF DropConflicting, FoldLeft, MapThenFoldSet, NothingDropped
<1> HIDE DEF n, s, b
<1>4. g \in [S \X A -> S] /\ \A x \in S, y \in A : g[<<x, y>>] = DropFromLine(x, y, rows)
  OBVIOUS
<1> HIDE DEF g
<1>5. Steps(S, A, g, b, s, n)
  BY <1>1, <1>4 DEF Steps, b
<1>6. \A t \in SUBSET (1..n) : t # {} => s[Max(t)] \in A
  BY <1>1, GreatestIs
<1>7. PICK f : Iterates(f, S, g, b, s, n)
  <2> HIDE DEF c, Turn
  <2> QED BY <1>5, IterExists
<1>8. f = Turn(f)
  <2>1. \A t \in SUBSET (1..n) :
            f[t] = IF t = {} THEN b ELSE DropFromLine(f[t \ {Max(t)}], s[Max(t)], rows)
    BY <1>4, <1>6, <1>7 DEF Iterates
  <2> QED BY <1>1, <1>7, <2>1 DEF Iterates
<1>9. c = Turn(c)
  <2> HIDE DEF Turn
  <2> QED BY <1>8
<1>10. FoldsBy(c, S, g, b, s, n)
  <2> HIDE DEF c
  <2> QED BY <1>1, <1>4, <1>6, <1>9 DEF FoldsBy
<1> HIDE DEF c
<1>11. PICK h : RunsTo(h, S, g, b, s, n, c[1..n])
  BY <1>5, <1>10, RunOfIter
<1>12. \A i \in 1..n : h[i] = DropFromLine(h[i - 1], s[i], rows)
  <2>1. n \in Nat /\ h \in [0..n -> S] /\ \A i \in 1..n : h[i] = g[<<h[i - 1], s[i]>>]
    BY <1>1, <1>11 DEF RunsTo
  <2>2. \A i \in 1..n : i - 1 \in 0..n
    BY <2>1
  <2>3. \A i \in 1..n : h[i - 1] \in S /\ s[i] \in A
    BY <1>1, <2>1, <2>2
  <2> QED BY <1>4, <2>1, <2>3
<1> QED BY <1>1, <1>3, <1>11, <1>12 DEF RunsTo, DropsBy, n, b, s

KeepsBy(h, S, line, rows) ==
    /\ h \in [0..Len(line.names) -> S] /\ h[0] = <<>>
    /\ \A i \in 1..Len(line.names) : h[i] = KeepName(h[i - 1], line.names[i], line.ip, rows)
    /\ Rest(line, rows) = h[Len(line.names)]

LEMMA KeepRuns ==
  ASSUME NEW A, NEW S, NEW line, line.names \in Seq(A), NEW rows, <<>> \in S,
         \A x \in S, y \in A : KeepName(x, y, line.ip, rows) \in S
  PROVE  \E h : KeepsBy(h, S, line, rows)
<1> DEFINE b == <<>>
           s == line.names
           n == Len(s)
           g == [p \in S \X A |-> KeepName(p[1], p[2], line.ip, rows)]
           Turn(f) == [t \in SUBSET (DOMAIN s) |->
                         IF t = {} THEN b ELSE KeepName(f[t \ {Max(t)}], s[Max(t)], line.ip, rows)]
           c == CHOOSE f : f = Turn(f)
<1>1. n \in Nat /\ DOMAIN s = 1..n /\ \A i \in 1..n : s[i] \in A
  OBVIOUS
<1>3. Rest(line, rows) = c[DOMAIN s]
  BY DEF Rest, FoldLeft, MapThenFoldSet
<1> HIDE DEF n, s, b
<1>4. g \in [S \X A -> S] /\ \A x \in S, y \in A : g[<<x, y>>] = KeepName(x, y, line.ip, rows)
  OBVIOUS
<1> HIDE DEF g
<1>5. Steps(S, A, g, b, s, n)
  BY <1>1, <1>4 DEF Steps, b
<1>6. \A t \in SUBSET (1..n) : t # {} => s[Max(t)] \in A
  BY <1>1, GreatestIs
<1>7. PICK f : Iterates(f, S, g, b, s, n)
  <2> HIDE DEF c, Turn
  <2> QED BY <1>5, IterExists
<1>8. f = Turn(f)
  <2>1. \A t \in SUBSET (1..n) :
            f[t] = IF t = {} THEN b ELSE KeepName(f[t \ {Max(t)}], s[Max(t)], line.ip, rows)
    BY <1>4, <1>6, <1>7 DEF Iterates
  <2> QED BY <1>1, <1>7, <2>1 DEF Iterates
<1>9. c = Turn(c)
  <2> HIDE DEF Turn
  <2> QED BY <1>8
<1>10. FoldsBy(c, S, g, b, s, n)
  <2> HIDE DEF c
  <2> QED BY <1>1, <1>4, <1>6, <1>9 DEF FoldsBy
<1> HIDE DEF c
<1>11. PICK h : RunsTo(h, S, g, b, s, n, c[1..n])
  BY <1>5, <1>10, RunOfIter
<1>12. \A i \in 1..n : h[i] = KeepName(h[i - 1], s[i], line.ip, rows)
  <2>1. n \in Nat /\ h \in [0..n -> S] /\ \A i \in 1..n : h[i] = g[<<h[i - 1], s[i]>>]
    BY <1>1, <1>11 DEF RunsTo
  <2>2. \A i \in 1..n : i - 1 \in 0..n
    BY <2>1
  <2>3. \A i \in 1..n : h[i - 1] \in S /\ s[i] \in A
    BY <1>1, <2>1, <2>2
  <2> QED BY <1>4, <2>1, <2>3
<1> QED BY <1>1, <1>3, <1>11, <1>12 DEF RunsTo, KeepsBy, n, b, s

LEMMA BlockIsRemoved ==
  ASSUME NEW lines \in Seq(Lines)
  PROVE  RemoveBlock(lines) \in Seq(Plain)
<1> DEFINE S == [out : Seq(Plain), inside : BOOLEAN]
<1>1. NothingRemoved \in S
  BY DEF NothingRemoved
<1>2. \A x \in S, y \in Lines : SkipBlock(x, y) \in S
  <2> SUFFICES ASSUME NEW x \in S, NEW y \in Lines PROVE SkipBlock(x, y) \in S
    OBVIOUS
  <2>1. x.out \in Seq(Plain) /\ x.inside \in BOOLEAN
    OBVIOUS
  <2>2. CASE y = BeginMark
    BY <2>1, <2>2 DEF SkipBlock
  <2>3. CASE y # BeginMark /\ x.inside
    <3>1. SkipBlock(x, y) = [x EXCEPT !.inside = y # EndMark]
      BY <2>3 DEF SkipBlock
    <3>2. (y # EndMark) \in BOOLEAN
      OBVIOUS
    <3> QED BY <2>1, <3>1, <3>2
  <2>4. CASE y # BeginMark /\ ~x.inside
    <3>1. SkipBlock(x, y) = [x EXCEPT !.out = Append(x.out, y)]
      BY <2>4 DEF SkipBlock
    <3>2. Append(x.out, y) \in Seq(Plain)
      BY <2>1, <2>4 DEF Plain
    <3> QED BY <2>1, <3>1, <3>2
  <2> QED BY <2>2, <2>3, <2>4
<1> HIDE DEF S
<1>3. PICK h \in [0..Len(lines) -> S] : RemoveBlock(lines) = h[Len(lines)].out
  BY <1>1, <1>2, SkipRuns
<1>4. h[Len(lines)] \in S
  <2>1. Len(lines) \in 0..Len(lines)
    OBVIOUS
  <2> QED BY <1>3, <2>1
<1> QED BY <1>3, <1>4 DEF S

(* What Rest leaves of a line clashes with no row, and is all of the line  *)
(* if nothing in it does.                                                  *)
Agreed(names, ip, rows) == \A i \in DOMAIN names : ~Clashes(names[i], ip, rows)

LEMMA RestAgrees ==
  ASSUME NEW line \in Lines, NEW rows
  PROVE  Rest(line, rows) \in Seq(HostNames) /\ Agreed(Rest(line, rows), line.ip, rows)
<1> DEFINE S == {names \in Seq(HostNames) : Agreed(names, line.ip, rows)}
<1>1. line.names \in Seq(HostNames)
  BY FieldsOfLine
<1>2. <<>> \in S
  BY DEF Agreed
<1>3. \A x \in S, y \in HostNames : KeepName(x, y, line.ip, rows) \in S
  <2> SUFFICES ASSUME NEW x \in S, NEW y \in HostNames, ~Clashes(y, line.ip, rows)
      PROVE  Append(x, y) \in S
    BY Zenon DEF KeepName
  <2> DEFINE z == Append(x, y)
  <2>1. /\ z \in Seq(HostNames) /\ DOMAIN z = 1..Len(x) + 1 /\ z[Len(x) + 1] = y
        /\ Len(x) \in Nat /\ DOMAIN x = 1..Len(x) /\ \A i \in 1..Len(x) : z[i] = x[i]
    OBVIOUS
  <2> HIDE DEF z
  <2>2. \A i \in DOMAIN z : i \in DOMAIN x \/ i = Len(x) + 1
    BY <2>1
  <2>3. \A i \in DOMAIN z : ~Clashes(z[i], line.ip, rows)
    BY <2>1, <2>2 DEF Agreed
  <2> QED BY <2>1, <2>3 DEF Agreed, z
<1> HIDE DEF S
<1>4. PICK h : KeepsBy(h, S, line, rows)
  BY <1>1, <1>2, <1>3, KeepRuns
<1>5. Len(line.names) \in 0..Len(line.names)
  BY <1>1
<1>6. Rest(line, rows) \in S
  BY <1>4, <1>5 DEF KeepsBy
<1> QED BY <1>6 DEF S

LEMMA RestStays ==
  ASSUME NEW line \in Lines, NEW rows, Agreed(line.names, line.ip, rows)
  PROVE  Rest(line, rows) = line.names
<1> DEFINE s == line.names
           n == Len(s)
<1>1. s \in Seq(HostNames) /\ n \in Nat /\ DOMAIN s = 1..n
  BY FieldsOfLine
<1> DEFINE S == Seq(HostNames)
<1>2. \A x \in S, y \in HostNames : KeepName(x, y, line.ip, rows) \in S
  <2> SUFFICES ASSUME NEW x \in Seq(HostNames), NEW y \in HostNames
      PROVE  KeepName(x, y, line.ip, rows) \in Seq(HostNames)
    OBVIOUS
  <2>1. Append(x, y) \in Seq(HostNames)
    OBVIOUS
  <2> QED BY <2>1, Zenon DEF KeepName
<1>3. <<>> \in S /\ line.names \in Seq(HostNames)
  BY <1>1
<1> HIDE DEF S
<1>a. PICK h : KeepsBy(h, S, line, rows)
  BY <1>2, <1>3, KeepRuns
<1>4. /\ h \in [0..n -> S]
      /\ h[0] = <<>> /\ \A i \in 1..n : h[i] = KeepName(h[i - 1], s[i], line.ip, rows)
      /\ Rest(line, rows) = h[n]
  BY <1>a DEF KeepsBy
<1> DEFINE P == {i \in Nat : i <= n => h[i] = SubSeq(s, 1, i)}
<1>5. 0 \in P
  <2>1. SubSeq(s, 1, 0) = <<>>
    BY <1>1
  <2> HIDE DEF n, s
  <2> QED BY <1>4, <2>1
<1>6. ASSUME NEW i \in Nat, i \in P PROVE i + 1 \in P
  <2> SUFFICES ASSUME i + 1 <= n PROVE h[i + 1] = SubSeq(s, 1, i + 1)
    OBVIOUS
  <2> HIDE DEF n, s
  <2>1. i + 1 \in 1..n /\ (i + 1) - 1 = i /\ i <= n
    BY <1>1
  <2>2. h[i + 1] = KeepName(SubSeq(s, 1, i), s[i + 1], line.ip, rows)
    BY <1>4, <1>6, <2>1
  <2>3. ~Clashes(s[i + 1], line.ip, rows)
    BY <1>1, <2>1 DEF Agreed, s
  <2>4. h[i + 1] = Append(SubSeq(s, 1, i), s[i + 1])
    BY <2>2, <2>3 DEF KeepName
  <2>5. Append(SubSeq(s, 1, i), s[i + 1]) = SubSeq(s, 1, i + 1)
    BY <1>1, <2>1, LongerBy
  <2> QED BY <2>4, <2>5
<1>7. n \in P
  <2> HIDE DEF P
  <2> QED BY <1>1, <1>5, <1>6, NatSet
<1>8. SubSeq(s, 1, n) = s
  BY <1>1
<1>9. h[n] = SubSeq(s, 1, n)
  <2> HIDE DEF n, s
  <2> QED BY <1>1, <1>7
<1> QED BY <1>4, <1>8, <1>9

-----------------------------------------------------------------------------
(* The state of DropConflicting after a line, and a file it leaves alone:  *)
(* c[i] is the line that ends the block which the first i lines are in.    *)
Closes(closing, line) ==
    IF closing = Note THEN OtherBlock(line) ELSE IF line = closing THEN Note ELSE closing

Closings == {Note, Blank, MaxEnd}

Agrees(line, rows) == IsMap(line) => line.names # <<>> /\ Agreed(line.names, line.ip, rows)

Calm(lines, c, rows) ==
    /\ lines \in Seq(Plain) /\ c \in [0..Len(lines) -> Closings] /\ c[0] = Note
    /\ \A i \in 1..Len(lines) : /\ c[i] = Closes(c[i - 1], lines[i])
                                /\ c[i - 1] = Note => Agrees(lines[i], rows)

CalmStates(rows) ==
    {acc \in [out : Seq(Plain), closing : Closings] :
        \E c : Calm(acc.out, c, rows) /\ c[Len(acc.out)] = acc.closing}

LEMMA MarksDiffer ==
  /\ {Blank, Note, MaxHead, MaxEnd, TgHead} \subseteq Lines
  /\ Blank # Note /\ MaxHead # Note /\ MaxEnd # Note /\ TgHead # Note
  /\ MaxHead # Blank /\ MaxEnd # Blank /\ TgHead # Blank
  /\ MaxEnd # MaxHead /\ TgHead # MaxHead /\ TgHead # MaxEnd
  /\ ~IsMap(Blank) /\ ~IsMap(Note) /\ ~IsMap(MaxHead) /\ ~IsMap(MaxEnd) /\ ~IsMap(TgHead)
<1>1. \A kind \in LineKinds : Mark(kind).kind = kind
  BY DEF Mark
<1>2. /\ Blank.kind = "blank" /\ Note.kind = "note" /\ MaxHead.kind = "maxHead"
      /\ MaxEnd.kind = "maxEnd" /\ TgHead.kind = "tgHead"
  BY <1>1 DEF Blank, Note, MaxHead, MaxEnd, TgHead, LineKinds
<1>3. {Blank, Note, MaxHead, MaxEnd, TgHead} \subseteq Lines
  BY LinesAreTyped DEF Plain
<1> QED BY <1>2, <1>3 DEF IsMap

LEMMA BlocksOfOthers ==
  ASSUME NEW line
  PROVE  /\ OtherBlock(line) \in Closings
         /\ IsMap(line) => OtherBlock(line) = Note
         /\ OtherBlock(line) = Blank <=> line = TgHead
         /\ OtherBlock(Blank) = Note
BY MarksDiffer DEF OtherBlock, Closings

LEMMA ClosesIsTyped ==
  ASSUME NEW closing \in Closings, NEW line
  PROVE  Closes(closing, line) \in Closings
BY BlocksOfOthers DEF Closes, Closings

(* One line more.                                                          *)
LEMMA CalmGrows ==
  ASSUME NEW lines, NEW c, NEW rows, Calm(lines, c, rows), NEW z \in Plain,
         c[Len(lines)] = Note => Agrees(z, rows)
  PROVE  \E d : /\ Calm(Append(lines, z), d, rows)
                /\ d[Len(Append(lines, z))] = Closes(c[Len(lines)], z)
<1> DEFINE n == Len(lines)
           more == Append(lines, z)
           d == [i \in 0..n + 1 |-> IF i <= n THEN c[i] ELSE Closes(c[n], z)]
<1>1. /\ n \in Nat /\ lines \in Seq(Plain) /\ c \in [0..n -> Closings] /\ c[0] = Note
      /\ \A i \in 1..n : /\ c[i] = Closes(c[i - 1], lines[i])
                         /\ c[i - 1] = Note => Agrees(lines[i], rows)
  BY DEF Calm
<1>2. /\ more \in Seq(Plain) /\ Len(more) = n + 1 /\ more[n + 1] = z
      /\ \A i \in 1..n : more[i] = lines[i]
  BY <1>1
<1> HIDE DEF more, n
<1>3. c[n] \in Closings /\ Closes(c[n], z) \in Closings
  <2>1. n \in 0..n
    BY <1>1
  <2> QED BY <1>1, <2>1, ClosesIsTyped
<1>4. /\ d \in [0..n + 1 -> Closings] /\ d[n + 1] = Closes(c[n], z)
      /\ \A i \in 0..n : d[i] = c[i]
  <2>1. n + 1 \in 0..n + 1 /\ ~(n + 1 <= n) /\ \A i \in 0..n : i \in 0..n + 1 /\ i <= n
    BY <1>1
  <2>2. \A i \in 0..n + 1 : i <= n => i \in 0..n
    BY <1>1
  <2> QED BY <1>1, <1>3, <2>1, <2>2
<1> HIDE DEF d
<1>5. 0 \in 0..n /\ d[0] = Note
  BY <1>1, <1>4
<1>6. ASSUME NEW i \in 1..n + 1
      PROVE  /\ d[i] = Closes(d[i - 1], more[i])
             /\ d[i - 1] = Note => Agrees(more[i], rows)
  <2>1. CASE i \in 1..n
    <3>1. i \in 0..n /\ i - 1 \in 0..n
      BY <1>1, <2>1
    <3> QED BY <1>1, <1>2, <1>4, <2>1, <3>1
  <2>2. CASE i = n + 1
    <3>1. n \in 0..n /\ (n + 1) - 1 = n
      BY <1>1
    <3>2. d[n] = c[n] /\ c[n] = c[Len(lines)]
      BY <1>4, <3>1 DEF n
    <3> QED BY <1>2, <1>4, <2>2, <3>1, <3>2
  <2> QED BY <1>1, <2>1, <2>2
<1>7. Calm(more, d, rows)
  BY <1>2, <1>4, <1>5, <1>6 DEF Calm
<1>8. d[Len(more)] = Closes(c[Len(lines)], z)
  BY <1>2, <1>4 DEF n
<1> QED BY <1>7, <1>8 DEF more

LEMMA CalmStarts ==
  ASSUME NEW rows
  PROVE  Calm(<<>>, [i \in 0..0 |-> Note], rows) /\ NothingDropped \in CalmStates(rows)
<1> DEFINE c == [i \in 0..0 |-> Note]
<1>1. Note \in Closings
  BY DEF Closings
<1>2. <<>> \in Seq(Plain) /\ Len(<<>>) = 0 /\ 1..0 = {}
  OBVIOUS
<1>3. Calm(<<>>, c, rows) /\ c[0] = Note
  BY <1>1, <1>2 DEF Calm
<1> HIDE DEF c
<1>4. NothingDropped \in [out : Seq(Plain), closing : Closings]
  BY <1>1, <1>2 DEF NothingDropped
<1>5. NothingDropped.out = <<>> /\ NothingDropped.closing = Note
  BY DEF NothingDropped
<1> QED BY <1>2, <1>3, <1>4, <1>5 DEF CalmStates, c

LEMMA DropKeepsCalm ==
  ASSUME NEW rows, NEW x \in CalmStates(rows), NEW y \in Plain
  PROVE  DropFromLine(x, y, rows) \in CalmStates(rows)
<1>1. PICK c : Calm(x.out, c, rows) /\ c[Len(x.out)] = x.closing
  BY DEF CalmStates
<1>2. /\ x.out \in Seq(Plain) /\ x.closing \in Closings /\ y \in Lines
      /\ x \in [out : Seq(Plain), closing : Closings]
  BY DEF CalmStates, Plain
<1> DEFINE Next(z) == [out |-> Append(x.out, z), closing |-> Closes(x.closing, z)]
<1>3. ASSUME NEW z \in Plain, x.closing = Note => Agrees(z, rows)
      PROVE  Next(z) \in CalmStates(rows)
  <2>1. PICK d : /\ Calm(Append(x.out, z), d, rows)
                 /\ d[Len(Append(x.out, z))] = Closes(x.closing, z)
    BY <1>1, <1>3, CalmGrows
  <2>2. Append(x.out, z) \in Seq(Plain) /\ Closes(x.closing, z) \in Closings
    BY <1>2, <1>3, ClosesIsTyped
  <2>3. /\ Next(z) \in [out : Seq(Plain), closing : Closings]
        /\ Next(z).out = Append(x.out, z) /\ Next(z).closing = Closes(x.closing, z)
    BY <2>2
  <2> HIDE DEF Next
  <2> QED BY <2>1, <2>3 DEF CalmStates
<1>4. CASE x.closing # Note
  <2>1. DropFromLine(x, y, rows) = Next(y)
    BY <1>4 DEF DropFromLine, Closes
  <2> HIDE DEF Next
  <2> QED BY <1>3, <1>4, <2>1
<1>5. CASE x.closing = Note /\ ~IsMap(y)
  <2>1. DropFromLine(x, y, rows) = Next(y)
    BY <1>5 DEF DropFromLine, Closes
  <2>2. Agrees(y, rows)
    BY <1>5 DEF Agrees
  <2> HIDE DEF Next
  <2> QED BY <1>3, <2>1, <2>2
<1>6. CASE x.closing = Note /\ IsMap(y)
  <2> DEFINE rest == Rest(y, rows)
             z == Map(y.ip, rest)
  <2>1. OtherBlock(y) = Note
    BY <1>6, BlocksOfOthers
  <2>2. CASE rest = <<>>
    <3>1. DropFromLine(x, y, rows) = [out |-> x.out, closing |-> Note]
      BY <1>6, <2>1, <2>2 DEF DropFromLine
    <3>2. [out |-> x.out, closing |-> Note] = x
      BY <1>2, <1>6
    <3> QED BY <3>1, <3>2
  <2>3. CASE rest # <<>>
    <3>1. rest \in Seq(HostNames) /\ Agreed(rest, y.ip, rows) /\ y.ip \in AnyAddress
      BY <1>2, RestAgrees, FieldsOfLine
    <3>2. DropFromLine(x, y, rows) = [out |-> Append(x.out, z), closing |-> Note]
      BY <1>6, <2>1, <2>3 DEF DropFromLine
    <3> HIDE DEF rest
    <3>3. z \in Plain /\ IsMap(z) /\ z.names = rest /\ z.ip = y.ip
      BY <3>1, LinesAreTyped
    <3> HIDE DEF z
    <3>4. Agrees(z, rows)
      BY <2>3, <3>1, <3>3 DEF Agrees
    <3>5. Closes(x.closing, z) = Note
      BY <1>6, <3>3, BlocksOfOthers DEF Closes
    <3>6. DropFromLine(x, y, rows) = Next(z)
      BY <3>2, <3>5
    <3> HIDE DEF Next
    <3> QED BY <1>3, <3>3, <3>4, <3>6
  <2> QED BY <2>2, <2>3
<1> QED BY <1>4, <1>5, <1>6

(* DropConflicting makes a file calm, and leaves a calm one as it is.      *)
LEMMA DropIsCalm ==
  ASSUME NEW lines \in Seq(Plain), NEW rows
  PROVE  \E c : Calm(DropConflicting(lines, rows), c, rows)
<1>1. NothingDropped \in CalmStates(rows)
  BY CalmStarts
<1>2. \A x \in CalmStates(rows), y \in Plain : DropFromLine(x, y, rows) \in CalmStates(rows)
  BY DropKeepsCalm
<1>3. PICK h : DropsBy(h, CalmStates(rows), lines, rows)
  BY <1>1, <1>2, DropRuns
<1>4. h[Len(lines)] \in CalmStates(rows)
  <2>1. Len(lines) \in 0..Len(lines)
    OBVIOUS
  <2> QED BY <1>3, <2>1 DEF DropsBy
<1> QED BY <1>3, <1>4 DEF CalmStates, DropsBy

LEMMA DropLeavesCalm ==
  ASSUME NEW lines, NEW c, NEW rows, Calm(lines, c, rows)
  PROVE  DropConflicting(lines, rows) = lines
<1> DEFINE n == Len(lines)
           S == CalmStates(rows)
           State(i) == [out |-> SubSeq(lines, 1, i), closing |-> c[i]]
<1>1. /\ n \in Nat /\ lines \in Seq(Plain) /\ c \in [0..n -> Closings] /\ c[0] = Note
      /\ \A i \in 1..n : /\ c[i] = Closes(c[i - 1], lines[i])
                         /\ c[i - 1] = Note => Agrees(lines[i], rows)
  BY DEF Calm
<1>2. NothingDropped \in S /\ \A x \in S, y \in Plain : DropFromLine(x, y, rows) \in S
  BY CalmStarts, DropKeepsCalm
<1> HIDE DEF S
<1>a. PICK h : DropsBy(h, S, lines, rows)
  BY <1>1, <1>2, DropRuns
<1>3. /\ h \in [0..n -> S] /\ h[0] = NothingDropped
      /\ \A i \in 1..n : h[i] = DropFromLine(h[i - 1], lines[i], rows)
      /\ DropConflicting(lines, rows) = h[n].out
  BY <1>a DEF DropsBy
<1> HIDE DEF n
<1> DEFINE P == {i \in Nat : i <= n => h[i] = State(i)}
<1>4. 0 \in P
  <2>1. SubSeq(lines, 1, 0) = <<>>
    BY <1>1
  <2> QED BY <1>1, <1>3, <2>1 DEF NothingDropped
<1>5. ASSUME NEW i \in Nat, i \in P PROVE i + 1 \in P
  <2> SUFFICES ASSUME i + 1 <= n PROVE h[i + 1] = State(i + 1)
    OBVIOUS
  <2> DEFINE y == lines[i + 1]
             x == State(i)
  <2>1. i + 1 \in 1..n /\ (i + 1) - 1 = i /\ i \in 0..n
    BY <1>1
  <2>2. h[i + 1] = DropFromLine(x, y, rows)
    BY <1>3, <1>5, <2>1
  <2>3. c[i + 1] = Closes(c[i], y) /\ (c[i] = Note => Agrees(y, rows)) /\ y \in Plain
    BY <1>1, <2>1 DEF n
  <2>4. Append(SubSeq(lines, 1, i), y) = SubSeq(lines, 1, i + 1)
    BY <1>1, <2>1, LongerBy DEF n
  <2>5. x.out = SubSeq(lines, 1, i) /\ x.closing = c[i]
    OBVIOUS
  <2>6. y \in Lines
    BY <2>3 DEF Plain
  <2>7. DropFromLine(x, y, rows) = [out |-> Append(x.out, y), closing |-> Closes(x.closing, y)]
    <3> HIDE DEF x, y
    <3>1. CASE c[i] # Note
      BY <2>5, <3>1 DEF DropFromLine, Closes
    <3>2. CASE c[i] = Note /\ ~IsMap(y)
      BY <2>5, <3>2 DEF DropFromLine, Closes
    <3>3. CASE c[i] = Note /\ IsMap(y)
      <4>1. y.names # <<>> /\ Rest(y, rows) = y.names
        BY <2>3, <2>6, <3>3, RestStays DEF Agrees
      <4>2. Map(y.ip, y.names) = y
        BY <2>6, <3>3 DEF Map, IsMap, Lines
      <4> QED BY <2>5, <3>3, <4>1, <4>2 DEF DropFromLine, Closes
    <3> QED BY <3>1, <3>2, <3>3
  <2> HIDE DEF y
  <2> QED BY <2>2, <2>3, <2>4, <2>5, <2>7
<1>6. h[n] = State(n)
  <2>1. Nat \subseteq P
    <3> HIDE DEF P
    <3> QED BY <1>4, <1>5, NatSet
  <2> QED BY <1>1, <2>1
<1>7. SubSeq(lines, 1, n) = lines
  BY <1>1 DEF n
<1> QED BY <1>3, <1>6, <1>7

(* In a block that a blank line ends: its head is above, no blank between. *)
LEMMA HeadIsAbove ==
  ASSUME NEW lines, NEW c, NEW rows, Calm(lines, c, rows),
         NEW k \in 0..Len(lines), c[k] = Blank
  PROVE  \E i \in 1..k : lines[i] = TgHead /\ \A j \in i..k : lines[j] # Blank
<1> DEFINE n == Len(lines)
           Above(m) == \E i \in 1..m : lines[i] = TgHead /\ \A j \in i..m : lines[j] # Blank
           P == {m \in Nat : m <= n /\ c[m] = Blank => Above(m)}
<1>1. /\ n \in Nat /\ c[0] = Note
      /\ \A i \in 1..n : c[i] = Closes(c[i - 1], lines[i])
  BY DEF Calm
<1> HIDE DEF n
<1>2. 0 \in P
  BY <1>1, MarksDiffer
<1>3. ASSUME NEW m \in Nat, m \in P PROVE m + 1 \in P
  <2> SUFFICES ASSUME m + 1 <= n, c[m + 1] = Blank PROVE Above(m + 1)
    OBVIOUS
  <2> DEFINE y == lines[m + 1]
  <2>1. m + 1 \in 1..n /\ (m + 1) - 1 = m /\ m <= n
    BY <1>1
  <2>2. Closes(c[m], y) = Blank
    BY <1>1, <2>1
  <2>3. CASE c[m] = Note
    <3>1. y = TgHead
      BY <2>2, <2>3, BlocksOfOthers DEF Closes
    <3>2. m + 1 \in 1..m + 1 /\ \A j \in m + 1..m + 1 : lines[j] = TgHead
      BY <3>1
    <3> QED BY <3>2, MarksDiffer
  <2>4. CASE c[m] # Note
    <3>1. y # Blank /\ c[m] = Blank
      BY <2>2, <2>4, MarksDiffer DEF Closes
    <3>2. PICK i \in 1..m : lines[i] = TgHead /\ \A j \in i..m : lines[j] # Blank
      BY <1>3, <2>1, <3>1
    <3>3. \A j \in i..m + 1 : j \in i..m \/ j = m + 1
      OBVIOUS
    <3>4. i \in 1..m + 1 /\ \A j \in i..m + 1 : lines[j] # Blank
      BY <3>1, <3>2, <3>3
    <3> QED BY <3>2, <3>4
  <2> QED BY <2>3, <2>4
<1>4. k \in Nat /\ k <= n
  BY <1>1 DEF n
<1>5. k \in P
  <2> HIDE DEF P
  <2> QED BY <1>2, <1>3, <1>4, NatSet
<1> QED BY <1>4, <1>5

LEMMA ConflictsAreDropped ==
  ASSUME NEW lines \in Seq(Plain), NEW rows
  PROVE  DropConflicting(lines, rows) \in Seq(Plain)
BY DropIsCalm DEF Calm

Distinct(rows) == \A i, j \in DOMAIN rows : rows[i] = rows[j] => i = j

LEMMA RowsAreDistinct ==
  ASSUME NEW rows \in Rows, NEW allow6
  PROVE  FilterRows(rows, allow6) \in Rows /\ Distinct(FilterRows(rows, allow6))
<1> DEFINE S == {r \in Rows : Distinct(r)}
           A == OneRow
           b == <<>>
           s == rows
           n == Len(s)
           g == [p \in S \X A |-> KeepRow(p[1], p[2], allow6)]
           Turn(f) == [t \in SUBSET (DOMAIN s) |->
                         IF t = {} THEN b ELSE KeepRow(f[t \ {Max(t)}], s[Max(t)], allow6)]
           c == CHOOSE f : f = Turn(f)
<1>1. n \in Nat /\ DOMAIN s = 1..n /\ \A i \in 1..n : s[i] \in A
  BY DEF Rows, OneRow
<1>b. b \in S
  BY DEF Rows, Distinct
<1>2. \A x \in S, y \in A : KeepRow(x, y, allow6) \in S
  <2> SUFFICES ASSUME NEW x \in S, NEW y \in A, ~Contains(x, y) PROVE Append(x, y) \in S
    BY DEF KeepRow
  <2>1. x \in Seq(OneRow) /\ y \in OneRow /\ Distinct(x) /\ \A i \in 1..Len(x) : x[i] # y
    BY DEF Rows, OneRow, Contains
  <2> DEFINE z == Append(x, y)
  <2>2. /\ z \in Seq(OneRow) /\ DOMAIN z = 1..(Len(x) + 1) /\ z[Len(x) + 1] = y
        /\ \A i \in 1..Len(x) : z[i] = x[i]
        /\ DOMAIN x = 1..Len(x) /\ Len(x) \in Nat
    BY <2>1
  <2>3. Distinct(z)
    <3> SUFFICES ASSUME NEW i \in 1..(Len(x) + 1), NEW j \in 1..(Len(x) + 1), z[i] = z[j]
        PROVE  i = j
      BY <2>2 DEF Distinct
    <3>1. CASE i \in 1..Len(x) /\ j \in 1..Len(x)
      BY <2>1, <2>2, <3>1 DEF Distinct
    <3>2. CASE i \in 1..Len(x) /\ j = Len(x) + 1
      BY <2>1, <2>2, <3>2
    <3>3. CASE i = Len(x) + 1 /\ j \in 1..Len(x)
      BY <2>1, <2>2, <3>3
    <3>4. CASE i = Len(x) + 1 /\ j = Len(x) + 1
      BY <3>4
    <3> HIDE DEF z
    <3> QED BY <2>2, <3>1, <3>2, <3>3, <3>4
  <2> QED BY <2>2, <2>3 DEF Rows, OneRow
<1>3. FilterRows(rows, allow6) = c[DOMAIN s]
  BY DEF FilterRows, FoldLeft, MapThenFoldSet
<1> HIDE DEF n, S, A, s, b
<1>4. g \in [S \X A -> S] /\ \A x \in S, y \in A : g[<<x, y>>] = KeepRow(x, y, allow6)
  BY <1>2
<1> HIDE DEF g
<1>5. Steps(S, A, g, b, s, n)
  BY <1>1, <1>b, <1>4 DEF Steps
<1>6. \A t \in SUBSET (1..n) : t # {} => s[Max(t)] \in A
  BY <1>1, GreatestIs
<1>7. PICK f : Iterates(f, S, g, b, s, n)
  <2> HIDE DEF c, Turn
  <2> QED BY <1>5, IterExists
<1>8. f = Turn(f)
  <2>1. \A t \in SUBSET (1..n) :
            f[t] = IF t = {} THEN b ELSE KeepRow(f[t \ {Max(t)}], s[Max(t)], allow6)
    BY <1>4, <1>6, <1>7 DEF Iterates
  <2> QED BY <1>1, <1>7, <2>1 DEF Iterates
<1>9. c = Turn(c)
  <2> HIDE DEF Turn
  <2> QED BY <1>8
<1>10. FoldsBy(c, S, g, b, s, n)
  <2> HIDE DEF c
  <2> QED BY <1>1, <1>4, <1>6, <1>9 DEF FoldsBy
<1> HIDE DEF c
<1>11. PICK h : RunsTo(h, S, g, b, s, n, c[1..n])
  BY <1>5, <1>10, RunOfIter
<1>12. c[DOMAIN s] \in S
  BY <1>1, <1>11 DEF RunsTo
<1> QED BY <1>3, <1>12 DEF S

OneRead == HostNames \X AnyAddress
ReadStates == [rows : Seq(OneRead), at : {"before", "in", "after"}]
Unread == [rows |-> <<>>, at |-> "before"]
BlockState(lines) == FoldLeft(ReadRow, Unread, lines)

LEMMA ReadRowIsTyped ==
  ASSUME NEW x \in ReadStates, NEW y \in Lines
  PROVE  ReadRow(x, y) \in ReadStates
<1>1. x.rows \in Seq(OneRead) /\ x.at \in {"before", "in", "after"}
  BY DEF ReadStates
<1>2. y.ip \in AnyAddress /\ y.names \in Seq(HostNames)
  BY FieldsOfLine
<1> DEFINE new == [i \in DOMAIN y.names |-> <<y.names[i], y.ip>>]
<1>3. new \in Seq(OneRead)
  <2>1. DOMAIN y.names = 1..Len(y.names) /\ Len(y.names) \in Nat
    BY <1>2
  <2>2. \A i \in 1..Len(y.names) : y.names[i] \in HostNames
    BY <1>2
  <2>3. \A i \in 1..Len(y.names) : <<y.names[i], y.ip>> \in OneRead
    BY <1>2, <2>2 DEF OneRead
  <2>4. new = [i \in 1..Len(y.names) |-> <<y.names[i], y.ip>>]
    BY <2>1
  <2> QED BY <2>1, <2>3, <2>4
<1>4. x.rows \o new \in Seq(OneRead)
  <2> HIDE DEF new
  <2> QED BY <1>1, <1>3
<1>5. ReadRow(x, y) \in {[x EXCEPT !.rows = x.rows \o new], x}
                        \cup {[x EXCEPT !.at = p] : p \in {"before", "in", "after"}}
  BY DEF ReadRow
<1> HIDE DEF new
<1>6. [x EXCEPT !.rows = x.rows \o new] \in ReadStates
  BY <1>1, <1>4 DEF ReadStates
<1>7. \A p \in {"before", "in", "after"} : [x EXCEPT !.at = p] \in ReadStates
  BY <1>1 DEF ReadStates
<1> QED BY <1>5, <1>6, <1>7

(* Reading a file back, line by line.                                      *)
LEMMA BlockIsRead ==
  ASSUME NEW lines \in Seq(Lines)
  PROVE  \E h \in [0..Len(lines) -> ReadStates] :
            /\ h[0] = Unread /\ \A i \in 1..Len(lines) : h[i] = ReadRow(h[i - 1], lines[i])
            /\ BlockState(lines) = h[Len(lines)]
<1> DEFINE S == ReadStates
           A == Lines
           b == Unread
           s == lines
           n == Len(s)
           g == [p \in S \X A |-> ReadRow(p[1], p[2])]
           Turn(f) == [t \in SUBSET (DOMAIN s) |->
                         IF t = {} THEN b ELSE ReadRow(f[t \ {Max(t)}], s[Max(t)])]
           c == CHOOSE f : f = Turn(f)
<1>1. n \in Nat /\ DOMAIN s = 1..n /\ \A i \in 1..n : s[i] \in A
  OBVIOUS
<1>b. b \in S
  BY DEF ReadStates, Unread
<1>2. \A x \in S, y \in A : ReadRow(x, y) \in S
  BY ReadRowIsTyped
<1>3. BlockState(lines) = c[DOMAIN s]
  BY DEF BlockState, FoldLeft, MapThenFoldSet
<1> HIDE DEF n, S, A, s, b
<1>4. g \in [S \X A -> S] /\ \A x \in S, y \in A : g[<<x, y>>] = ReadRow(x, y)
  BY <1>2
<1> HIDE DEF g
<1>5. Steps(S, A, g, b, s, n)
  BY <1>1, <1>b, <1>4 DEF Steps
<1>6. \A t \in SUBSET (1..n) : t # {} => s[Max(t)] \in A
  BY <1>1, GreatestIs
<1>7. PICK f : Iterates(f, S, g, b, s, n)
  <2> HIDE DEF c, Turn
  <2> QED BY <1>5, IterExists
<1>8. f = Turn(f)
  <2>1. \A t \in SUBSET (1..n) :
            f[t] = IF t = {} THEN b ELSE ReadRow(f[t \ {Max(t)}], s[Max(t)])
    BY <1>4, <1>6, <1>7 DEF Iterates
  <2> QED BY <1>1, <1>7, <2>1 DEF Iterates
<1>9. c = Turn(c)
  <2> HIDE DEF Turn
  <2> QED BY <1>8
<1>10. FoldsBy(c, S, g, b, s, n)
  <2> HIDE DEF c
  <2> QED BY <1>1, <1>4, <1>6, <1>9 DEF FoldsBy
<1> HIDE DEF c
<1>11. PICK h : RunsTo(h, S, g, b, s, n, c[1..n])
  BY <1>5, <1>10, RunOfIter
<1>12. \A i \in 1..n : h[i] = ReadRow(h[i - 1], s[i])
  <2>1. n \in Nat /\ h \in [0..n -> S] /\ \A i \in 1..n : h[i] = g[<<h[i - 1], s[i]>>]
    BY <1>1, <1>11 DEF RunsTo
  <2>2. \A i \in 1..n : i - 1 \in 0..n
    BY <2>1
  <2>3. \A i \in 1..n : h[i - 1] \in S /\ s[i] \in A
    BY <1>1, <2>1, <2>2
  <2> QED BY <1>4, <2>1, <2>3
<1> QED BY <1>1, <1>3, <1>11, <1>12 DEF RunsTo, n, S, b, s

(* The file has the block: nothing begins one before it, and its lines are *)
(* the rows.                                                               *)
HasBlock(lines, p, rows) ==
    /\ lines \in Seq(Lines) /\ p \in Nat /\ p + 3 + Len(rows) <= Len(lines)
    /\ \A i \in 1..p : lines[i] # BeginMark
    /\ lines[p + 1] = BeginMark /\ lines[p + 2] = Note
    /\ \A j \in 1..Len(rows) : lines[p + 2 + j] = Map(rows[j][2], <<rows[j][1]>>)
    /\ lines[p + 3 + Len(rows)] = EndMark

LEMMA PartsOfRow ==
  ASSUME NEW r \in OneRow
  PROVE  r[1] \in HostNames /\ r[2] \in HostAddresses /\ r = <<r[1], r[2]>>
BY DEF OneRow

LEMMA LineOfRow ==
  ASSUME NEW r \in OneRow
  PROVE  LET y == Map(r[2], <<r[1]>>)
         IN  /\ y \in Lines /\ y # EndMark /\ IsMap(y) /\ y.ip = r[2]
             /\ y.names = <<r[1]>> /\ DOMAIN y.names = {1} /\ y.names[1] = r[1]
             /\ y # BeginMark
<1> DEFINE name == r[1]
           ip == r[2]
<1>1. name \in HostNames
  BY PartsOfRow
<1>a. ip \in AnyAddress
  BY PartsOfRow DEF AnyAddress
<1> HIDE DEF name, ip
<1>2. <<name>> \in Seq(HostNames)
  BY <1>1
<1>3. LET y == Map(ip, <<name>>)
      IN  y \in Plain /\ y # EndMark /\ IsMap(y) /\ y.ip = ip /\ y.names = <<name>>
  BY <1>a, <1>2, LinesAreTyped
<1>4. DOMAIN <<name>> = {1} /\ <<name>>[1] = name
  OBVIOUS
<1> QED BY <1>3, <1>4 DEF Plain, name, ip

LEMMA RowIsRead ==
  ASSUME NEW rows \in Rows, NEW j \in 1..Len(rows)
  PROVE  ReadRow([rows |-> SubSeq(rows, 1, j - 1), at |-> "in"], Map(rows[j][2], <<rows[j][1]>>))
            = [rows |-> SubSeq(rows, 1, j), at |-> "in"]
<1> DEFINE r == rows[j]
           x == [rows |-> SubSeq(rows, 1, j - 1), at |-> "in"]
           y == Map(r[2], <<r[1]>>)
           new == [i \in DOMAIN y.names |-> <<y.names[i], y.ip>>]
<1>1. rows \in Seq(OneRow) /\ r \in OneRow /\ j \in Nat
  BY DEF Rows, OneRow
<1>2. /\ y # EndMark /\ IsMap(y) /\ y.ip = r[2]
      /\ DOMAIN y.names = {1} /\ y.names[1] = r[1]
  <2> HIDE DEF r
  <2> QED BY <1>1, LineOfRow
<1>3. new = <<r>>
  <2> HIDE DEF y, r
  <2>1. \A i \in {1} : <<y.names[i], y.ip>> = r
    BY <1>1, <1>2, PartsOfRow
  <2>2. new = [i \in {1} |-> r]
    BY <1>2, <2>1
  <2>3. {1} = 1..1
    OBVIOUS
  <2>4. [i \in 1..1 |-> r] = <<r>>
    OBVIOUS
  <2> QED BY <2>2, <2>3, <2>4
<1>4. ReadRow(x, y) = [x EXCEPT !.rows = x.rows \o new]
  <2> HIDE DEF y
  <2> QED BY <1>2 DEF ReadRow
<1>5. SubSeq(rows, 1, j - 1) \o <<r>> = SubSeq(rows, 1, j)
  BY <1>1
<1>6. [x EXCEPT !.rows = x.rows \o new] = [rows |-> SubSeq(rows, 1, j), at |-> "in"]
  <2> DEFINE all == x.rows \o new
  <2>1. all = SubSeq(rows, 1, j)
    <3>1. x.rows = SubSeq(rows, 1, j - 1)
      OBVIOUS
    <3> HIDE DEF r, new, x
    <3> QED BY <1>3, <1>5, <3>1
  <2>2. [x EXCEPT !.rows = all] = [rows |-> all, at |-> "in"]
    <3> HIDE DEF all
    <3> QED OBVIOUS
  <2> QED BY <2>1, <2>2
<1> QED BY <1>4, <1>6

LEMMA BlockIsWhole ==
  ASSUME NEW lines, NEW p, NEW rows \in Rows, HasBlock(lines, p, rows)
  PROVE  BlockRows(lines) = rows
<1> DEFINE n == Len(lines)
           m == Len(rows)
           In(j) == [rows |-> SubSeq(rows, 1, j), at |-> "in"]
           Past == [rows |-> rows, at |-> "after"]
<1>1. /\ n \in Nat /\ m \in Nat /\ p \in Nat /\ p + 3 + m <= n /\ lines \in Seq(Lines)
      /\ rows \in Seq(OneRow)
  BY DEF HasBlock, Rows, OneRow
<1>2. PICK h \in [0..n -> ReadStates] :
            /\ h[0] = Unread /\ \A i \in 1..n : h[i] = ReadRow(h[i - 1], lines[i])
            /\ BlockState(lines) = h[n]
  BY <1>1, BlockIsRead
<1>3. \A i \in 0..p : h[i] = Unread
  <2> DEFINE P == {i \in Nat : i <= p => h[i] = Unread}
  <2>1. 0 \in P
    BY <1>2
  <2>2. ASSUME NEW i \in Nat, i \in P PROVE i + 1 \in P
    <3> SUFFICES ASSUME i + 1 <= p PROVE h[i + 1] = Unread
      OBVIOUS
    <3>1. i + 1 \in 1..n /\ i + 1 \in 1..p /\ (i + 1) - 1 = i /\ h[i] = Unread
      BY <1>1, <2>2
    <3>2. h[i + 1] = ReadRow(Unread, lines[i + 1]) /\ lines[i + 1] # BeginMark
      BY <1>2, <3>1 DEF HasBlock
    <3> QED BY <3>2 DEF ReadRow, Unread
  <2>3. Nat \subseteq P
    <3> HIDE DEF P
    <3> QED BY <2>1, <2>2, NatSet
  <2> QED BY <1>1, <2>3
<1>4. h[p + 2] = In(0)
  <2>1. p + 1 \in 1..n /\ (p + 1) - 1 = p /\ p + 2 \in 1..n /\ (p + 2) - 1 = p + 1 /\ p \in 0..p
    BY <1>1
  <2>2. SubSeq(rows, 1, 0) = <<>>
    BY <1>1
  <2>3. h[p + 1] = ReadRow(Unread, BeginMark)
    BY <1>2, <1>3, <2>1 DEF HasBlock
  <2>4. h[p + 1] = [rows |-> <<>>, at |-> "in"]
    BY <2>3 DEF ReadRow, Unread
  <2>5. h[p + 2] = ReadRow(h[p + 1], Note)
    BY <1>2, <2>1 DEF HasBlock
  <2>6. ~IsMap(Note) /\ Note # EndMark
    BY LinesAreTyped
  <2> QED BY <2>2, <2>4, <2>5, <2>6 DEF ReadRow
<1>5. \A j \in 0..m : h[p + 2 + j] = In(j)
  <2> DEFINE P == {j \in Nat : j <= m => h[p + 2 + j] = In(j)}
  <2>1. 0 \in P
    BY <1>1, <1>4
  <2>2. ASSUME NEW j \in Nat, j \in P PROVE j + 1 \in P
    <3> SUFFICES ASSUME j + 1 <= m PROVE h[p + 2 + (j + 1)] = In(j + 1)
      OBVIOUS
    <3>1. /\ p + 2 + (j + 1) \in 1..n /\ (p + 2 + (j + 1)) - 1 = p + 2 + j
          /\ j + 1 \in 1..m /\ (j + 1) - 1 = j /\ h[p + 2 + j] = In(j)
      BY <1>1, <2>2
    <3>2. h[p + 2 + (j + 1)] = ReadRow(In(j), Map(rows[j + 1][2], <<rows[j + 1][1]>>))
      <4>1. h[p + 2 + (j + 1)] = ReadRow(h[p + 2 + j], lines[p + 2 + (j + 1)])
        BY <1>2, <3>1
      <4>2. lines[p + 2 + (j + 1)] = Map(rows[j + 1][2], <<rows[j + 1][1]>>)
        BY <3>1 DEF HasBlock
      <4> QED BY <3>1, <4>1, <4>2
    <3> DEFINE k == j + 1
    <3>3. k \in 1..Len(rows) /\ k - 1 = j
      BY <3>1
    <3>4. ReadRow(In(k - 1), Map(rows[k][2], <<rows[k][1]>>)) = In(k)
      <4> HIDE DEF k
      <4> QED BY <3>3, RowIsRead
    <3> QED BY <3>2, <3>3, <3>4
  <2>3. Nat \subseteq P
    <3> HIDE DEF P
    <3> QED BY <2>1, <2>2, NatSet
  <2> QED BY <1>1, <2>3
<1>6. h[p + 3 + m] = Past
  <2>1. p + 3 + m \in 1..n /\ (p + 3 + m) - 1 = p + 2 + m /\ m \in 0..m
    BY <1>1
  <2>2. SubSeq(rows, 1, m) = rows
    BY <1>1
  <2>3. h[p + 3 + m] = ReadRow(In(m), EndMark)
    BY <1>2, <1>5, <2>1 DEF HasBlock
  <2> QED BY <2>2, <2>3 DEF ReadRow
<1>7. \A i \in p + 3 + m..n : h[i] = Past
  <2> DEFINE P == {i \in Nat : i >= p + 3 + m /\ i <= n => h[i] = Past}
  <2>1. 0 \in P
    BY <1>1
  <2>2. ASSUME NEW i \in Nat, i \in P PROVE i + 1 \in P
    <3> SUFFICES ASSUME i + 1 >= p + 3 + m, i + 1 <= n PROVE h[i + 1] = Past
      OBVIOUS
    <3>1. CASE i + 1 = p + 3 + m
      BY <1>6, <3>1
    <3>2. CASE i >= p + 3 + m
      <4>1. i + 1 \in 1..n /\ (i + 1) - 1 = i /\ h[i] = Past
        BY <1>1, <2>2, <3>2
      <4>2. h[i + 1] = ReadRow(Past, lines[i + 1])
        BY <1>2, <4>1
      <4> QED BY <4>2 DEF ReadRow
    <3> HIDE DEF P, n, m, Past
    <3> QED BY <1>1, <3>1, <3>2
  <2>3. Nat \subseteq P
    <3> HIDE DEF P
    <3> QED BY <2>1, <2>2, NatSet
  <2> QED BY <1>1, <2>3
<1>8. BlockState(lines) = Past
  BY <1>1, <1>2, <1>7
<1> QED BY <1>8 DEF BlockRows, BlockState, Unread

-----------------------------------------------------------------------------
(* The place of the block.                                                 *)

LEMMA PlaceIsInFile ==
  ASSUME NEW lines \in Seq(Plain)
  PROVE  FirstMapping(lines) \in 1..Len(lines) + 1
<1> DEFINE maps == {i \in DOMAIN lines : IsMap(lines[i])}
<1>1. Len(lines) \in Nat /\ maps \subseteq 1..Len(lines)
  OBVIOUS
<1>2. CASE maps = {}
  BY <1>1, <1>2 DEF FirstMapping
<1>3. CASE maps # {}
  <2>1. FirstMapping(lines) = Min(maps)
    BY <1>3 DEF FirstMapping
  <2> HIDE DEF maps
  <2>2. Min(maps) \in maps
    BY <1>1, <1>3, LeastIs
  <2>3. FirstMapping(lines) \in 1..Len(lines)
    BY <1>1, <2>1, <2>2
  <2> QED BY <1>1, <2>3
<1> QED BY <1>2, <1>3

(* u is s followed by t.                                                   *)
Joins(u, s, t) ==
    /\ u \in Seq(Lines) /\ Len(u) = Len(s) + Len(t)
    /\ \A i \in 1..Len(s) : u[i] = s[i]
    /\ \A j \in 1..Len(t) : u[Len(s) + j] = t[j]

LEMMA JoinedAt ==
  ASSUME NEW s \in Seq(Lines), NEW t \in Seq(Lines)
  PROVE  Joins(s \o t, s, t)
<1>1. Len(s) \in Nat /\ Len(t) \in Nat
  OBVIOUS
<1>2. /\ s \o t \in Seq(Lines) /\ Len(s \o t) = Len(s) + Len(t)
      /\ \A i \in 1..Len(s) + Len(t) : (s \o t)[i] = IF i <= Len(s) THEN s[i] ELSE t[i - Len(s)]
  BY ConcatProperties
<1>3. \A i \in 1..Len(s) : (s \o t)[i] = s[i]
  BY <1>1, <1>2
<1>4. \A j \in 1..Len(t) : (s \o t)[Len(s) + j] = t[j]
  <2> SUFFICES ASSUME NEW j \in 1..Len(t) PROVE (s \o t)[Len(s) + j] = t[j]
    OBVIOUS
  <2>1. /\ Len(s) + j \in 1..Len(s) + Len(t) /\ ~(Len(s) + j <= Len(s))
        /\ (Len(s) + j) - Len(s) = j
    BY <1>1
  <2> QED BY <1>2, <2>1
<1> QED BY <1>2, <1>3, <1>4 DEF Joins

(* z is pre, the block of the rows, and post.                              *)
Encloses(z, pre, rows, post) ==
    /\ HasBlock(z, Len(pre), rows) /\ Len(z) = Len(pre) + 3 + Len(rows) + Len(post)
    /\ \A i \in 1..Len(pre) : z[i] = pre[i]
    /\ \A j \in 1..Len(post) : z[Len(pre) + 3 + Len(rows) + j] = post[j]

LEMMA BlockIsPlaced ==
  ASSUME NEW pre \in Seq(Plain), NEW post \in Seq(Plain), NEW rows \in Rows, NEW maps,
         maps = [i \in DOMAIN rows |-> Map(rows[i][2], <<rows[i][1]>>)]
  PROVE  Encloses(((pre \o <<BeginMark, Note>>) \o maps) \o <<EndMark>> \o post, pre, rows, post)
<1> DEFINE m == Len(rows)
           p == Len(pre)
           head == pre \o <<BeginMark, Note>>
           body == head \o maps
           whole == body \o <<EndMark>>
           z == whole \o post
<1>1. /\ m \in Nat /\ p \in Nat /\ DOMAIN rows = 1..m /\ \A j \in 1..m : rows[j] \in OneRow
  BY DEF Rows, OneRow
<1>2. BeginMark \in Lines /\ Note \in Lines /\ EndMark \in Lines
  <2>1. Note \in Plain /\ EndMark \in Plain /\ BeginMark \in Lines
    BY LinesAreTyped
  <2> QED BY <2>1 DEF Plain
<1>3. /\ pre \in Seq(Lines) /\ post \in Seq(Lines) /\ Len(post) \in Nat
      /\ \A i \in 1..p : pre[i] # BeginMark
  BY DEF Plain
<1>4. /\ head \in Seq(Lines) /\ Len(head) = p + 2 /\ head[p + 1] = BeginMark /\ head[p + 2] = Note
      /\ \A i \in 1..p : head[i] = pre[i]
  <2> DEFINE two == <<BeginMark, Note>>
  <2>1. two \in Seq(Lines) /\ Len(two) = 2 /\ two[1] = BeginMark /\ two[2] = Note
    BY <1>2
  <2> HIDE DEF two
  <2>2. /\ pre \o two \in Seq(Lines) /\ Len(pre \o two) = p + 2
        /\ \A i \in 1..p : (pre \o two)[i] = pre[i]
        /\ \A j \in 1..2 : (pre \o two)[p + j] = two[j]
    <3>1. Joins(pre \o two, pre, two)
      BY <1>3, <2>1, JoinedAt
    <3> HIDE DEF p
    <3> QED BY <2>1, <3>1 DEF Joins, p
  <2>3. 1 \in 1..2 /\ 2 \in 1..2
    OBVIOUS
  <2> QED BY <2>1, <2>2, <2>3 DEF two
<1> HIDE DEF head
<1>5. /\ maps \in Seq(Lines) /\ Len(maps) = m
      /\ \A j \in 1..m : maps[j] = Map(rows[j][2], <<rows[j][1]>>)
  <2>1. \A j \in 1..m : Map(rows[j][2], <<rows[j][1]>>) \in Lines
    BY <1>1, LineOfRow
  <2>2. \A j \in 1..m : maps[j] = Map(rows[j][2], <<rows[j][1]>>)
    BY <1>1
  <2>3. maps = [j \in 1..m |-> maps[j]]
    BY <1>1
  <2>4. \A j \in 1..m : maps[j] \in Lines
    BY <2>1, <2>2
  <2> HIDE DEF m
  <2>5. [j \in 1..m |-> maps[j]] \in Seq(Lines) /\ Len([j \in 1..m |-> maps[j]]) = m
    BY <1>1, <2>4
  <2> QED BY <2>2, <2>3, <2>5
<1>6. /\ body \in Seq(Lines) /\ Len(body) = p + 2 + m
      /\ \A i \in 1..p + 2 : body[i] = head[i]
      /\ \A j \in 1..m : body[p + 2 + j] = maps[j]
  <2>1. /\ body \in Seq(Lines) /\ Len(body) = Len(head) + Len(maps)
        /\ \A i \in 1..Len(head) : body[i] = head[i]
        /\ \A j \in 1..Len(maps) : body[Len(head) + j] = maps[j]
    BY <1>4, <1>5, JoinedAt DEF Joins
  <2> HIDE DEF body, m, p
  <2> QED BY <1>4, <1>5, <2>1
<1> HIDE DEF body
<1>7. /\ whole \in Seq(Lines) /\ Len(whole) = p + 3 + m
      /\ \A i \in 1..p + 2 + m : whole[i] = body[i]
      /\ whole[p + 3 + m] = EndMark
  <2> DEFINE one == <<EndMark>>
  <2>1. one \in Seq(Lines) /\ Len(one) = 1 /\ one[1] = EndMark /\ 1 \in 1..1
    BY <1>2
  <2> HIDE DEF one
  <2>2. /\ body \o one \in Seq(Lines) /\ Len(body \o one) = Len(body) + Len(one)
        /\ \A i \in 1..Len(body) : (body \o one)[i] = body[i]
        /\ \A j \in 1..Len(one) : (body \o one)[Len(body) + j] = one[j]
    BY <1>6, <2>1, JoinedAt DEF Joins
  <2>3. whole = body \o one
    BY DEF one
  <2> HIDE DEF whole, m, p
  <2>4. (p + 2 + m) + 1 = p + 3 + m
    BY <1>1
  <2>5. (body \o one)[Len(body) + 1] = one[1]
    BY <2>1, <2>2
  <2>6. whole \in Seq(Lines) /\ Len(whole) = p + 3 + m /\ whole[p + 3 + m] = EndMark
    BY <1>6, <2>1, <2>2, <2>3, <2>4, <2>5
  <2>7. \A i \in 1..p + 2 + m : whole[i] = body[i]
    BY <1>6, <2>2, <2>3
  <2> QED BY <2>6, <2>7
<1> HIDE DEF whole
<1>8. /\ z \in Seq(Lines) /\ Len(z) = p + 3 + m + Len(post)
      /\ \A i \in 1..p + 3 + m : z[i] = whole[i]
      /\ \A j \in 1..Len(post) : z[p + 3 + m + j] = post[j]
  <2>1. /\ z \in Seq(Lines) /\ Len(z) = Len(whole) + Len(post)
        /\ \A i \in 1..Len(whole) : z[i] = whole[i]
        /\ \A j \in 1..Len(post) : z[Len(whole) + j] = post[j]
    BY <1>3, <1>7, JoinedAt DEF Joins
  <2> HIDE DEF z, m, p
  <2> QED BY <1>7, <2>1
<1> HIDE DEF z
<1>9. HasBlock(z, p, rows)
  <2> HIDE DEF p
  <2>1. \A i \in 1..p + 2 : z[i] = head[i]
    <3> HIDE DEF m
    <3>1. \A i \in 1..p + 2 : i \in 1..p + 3 + m /\ i \in 1..p + 2 + m
      BY <1>1
    <3> QED BY <1>6, <1>7, <1>8, <3>1
  <2>2. \A j \in 1..m : z[p + 2 + j] = Map(rows[j][2], <<rows[j][1]>>)
    <3> HIDE DEF m
    <3>1. \A j \in 1..m : p + 2 + j \in 1..p + 3 + m /\ p + 2 + j \in 1..p + 2 + m
      BY <1>1
    <3> QED BY <1>5, <1>6, <1>7, <1>8, <3>1
  <2>3. z[p + 3 + m] = EndMark /\ p + 3 + m <= Len(z)
    <3> HIDE DEF m
    <3>1. p + 3 + m \in 1..p + 3 + m /\ p + 3 + m <= p + 3 + m + Len(post)
      BY <1>1, <1>3
    <3> QED BY <1>7, <1>8, <3>1
  <2>4. /\ \A i \in 1..p : z[i] # BeginMark /\ z[p + 1] = BeginMark /\ z[p + 2] = Note
    <3>1. p + 1 \in 1..p + 2 /\ p + 2 \in 1..p + 2 /\ \A i \in 1..p : i \in 1..p + 2
      BY <1>1
    <3> QED BY <1>3, <1>4, <2>1, <3>1
  <2>5. z[p + 1] = BeginMark /\ z[p + 2] = Note
    <3>1. p + 1 \in 1..p + 2 /\ p + 2 \in 1..p + 2
      BY <1>1
    <3> QED BY <1>4, <2>1, <3>1
  <2> QED BY <1>1, <1>8, <2>2, <2>3, <2>4, <2>5 DEF HasBlock
<1>10. Encloses(z, pre, rows, post)
  <2>1. \A i \in 1..p : z[i] = pre[i]
    <3> HIDE DEF p, m
    <3>1. \A i \in 1..p : i \in 1..p + 2 /\ i \in 1..p + 2 + m /\ i \in 1..p + 3 + m
      BY <1>1
    <3> QED BY <1>4, <1>6, <1>7, <1>8, <3>1
  <2> QED BY <1>8, <1>9, <2>1 DEF Encloses
<1> QED BY <1>10 DEF z, whole, body, head

(* The file around the place of the block: what is before it, k blank      *)
(* lines, and what is behind it, which begins with a mapping.              *)
Shaped(lines, before, k, after) ==
    /\ lines \in Seq(Plain) /\ before \in Seq(Plain) /\ after \in Seq(Plain) /\ k \in Nat
    /\ Len(lines) = Len(before) + k + Len(after)
    /\ \A i \in 1..Len(before) : lines[i] = before[i] /\ ~IsMap(before[i])
    /\ \A i \in 1..k : lines[Len(before) + i] = Blank
    /\ \A i \in 1..Len(after) : lines[Len(before) + k + i] = after[i]
    /\ Len(before) > 0 => before[Len(before)] # Blank
    /\ Len(after) > 0 => IsMap(after[1])

LEMMA LeastOne ==
  ASSUME NEW S \in SUBSET Nat, NEW x \in S, \A y \in S : x <= y
  PROVE  Min(S) = x
<1>1. Min(S) \in S /\ \A y \in S : Min(S) <= y
  BY DEF Min
<1>2. Min(S) <= x /\ x <= Min(S) /\ Min(S) \in Nat
  BY <1>1
<1> QED BY <1>2

LEMMA GreatestOne ==
  ASSUME NEW S \in SUBSET Nat, NEW x \in S, \A y \in S : x >= y
  PROVE  Max(S) = x
<1>1. Max(S) \in S /\ \A y \in S : Max(S) >= y
  BY DEF Max
<1>2. Max(S) >= x /\ x >= Max(S) /\ Max(S) \in Nat
  BY <1>1
<1> QED BY <1>2

LEMMA TrimmedTo ==
  ASSUME NEW s \in Seq(Plain), NEW k \in 0..Len(s), k > 0 => s[k] # Blank,
         \A i \in k + 1..Len(s) : s[i] = Blank
  PROVE  TrimEnd(s) = SubSeq(s, 1, k)
<1> DEFINE D == {0} \cup {i \in DOMAIN s : s[i] # Blank}
<1>1. Len(s) \in Nat /\ DOMAIN s = 1..Len(s) /\ k \in Nat
  OBVIOUS
<1>2. D \in SUBSET Nat /\ k \in D
  BY <1>1
<1>3. ASSUME NEW y \in D PROVE k >= y
  <2>1. CASE y = 0
    BY <1>1, <2>1
  <2>2. CASE y \in 1..Len(s) /\ s[y] # Blank
    <3>1. y \notin k + 1..Len(s)
      BY <2>2
    <3> QED BY <1>1, <2>2, <3>1
  <2> QED BY <1>1, <2>1, <2>2
<1>4. TrimEnd(s) = SubSeq(s, 1, Max(D))
  BY DEF TrimEnd
<1> HIDE DEF D
<1>5. Max(D) = k
  BY <1>2, <1>3, GreatestOne
<1> QED BY <1>4, <1>5

LEMMA NothingToTrim ==
  ASSUME NEW s \in Seq(Plain), Len(s) > 0 => s[1] # Blank
  PROVE  TrimStart(s) = s
<1> DEFINE n == Len(s)
           r == Reverse(s)
<1>1. n \in Nat /\ \A i \in 1..n : s[i] \in Plain
  OBVIOUS
<1>2. r = [i \in 1..n |-> s[(n - i) + 1]]
  BY DEF Reverse
<1>3. r \in Seq(Plain) /\ Len(r) = n /\ \A i \in 1..n : r[i] = s[(n - i) + 1]
  <2> HIDE DEF n, r
  <2>1. \A i \in 1..n : (n - i) + 1 \in 1..n
    BY <1>1
  <2> QED BY <1>1, <1>2, <2>1
<1> HIDE DEF r
<1>4. TrimEnd(r) = r
  <2>1. n \in 0..Len(r) /\ \A i \in n + 1..Len(r) : r[i] = Blank
    BY <1>1, <1>3
  <2>2. n > 0 => r[n] # Blank
    <3> SUFFICES ASSUME n > 0 PROVE r[n] # Blank
      OBVIOUS
    <3>1. n \in 1..n /\ (n - n) + 1 = 1
      BY <1>1
    <3>2. r[n] = s[1]
      BY <1>3, <3>1
    <3> QED BY <3>2
  <2>3. TrimEnd(r) = SubSeq(r, 1, n)
    <3> HIDE DEF n
    <3> QED BY <1>3, <2>1, <2>2, TrimmedTo
  <2>4. SubSeq(r, 1, n) = r
    <3> HIDE DEF n
    <3> QED BY <1>1, <1>3
  <2> QED BY <2>3, <2>4
<1>5. Reverse(r) = s
  <2> DEFINE t == Reverse(r)
  <2>1. t = [i \in 1..n |-> r[(n - i) + 1]]
    <3> HIDE DEF n
    <3> QED BY <1>3 DEF Reverse
  <2> HIDE DEF t
  <2>2. \A i \in 1..n : (n - i) + 1 \in 1..n /\ (n - ((n - i) + 1)) + 1 = i
    BY <1>1
  <2>3. \A i \in 1..n : r[(n - i) + 1] = s[i]
    <3> HIDE DEF n
    <3>1. \A i \in 1..n : r[(n - i) + 1] = s[(n - ((n - i) + 1)) + 1]
      BY <1>3, <2>2
    <3> QED BY <2>2, <3>1
  <2>4. t \in Seq(Plain) /\ Len(t) = n /\ \A i \in 1..n : t[i] = s[i]
    <3> HIDE DEF n
    <3>1. \A i \in 1..n : r[(n - i) + 1] \in Plain
      BY <1>1, <2>3
    <3>2. t \in Seq(Plain) /\ Len(t) = n
      BY <1>1, <2>1, <3>1
    <3>3. \A i \in 1..n : t[i] = s[i]
      BY <2>1, <2>3
    <3> QED BY <3>2, <3>3
  <2>5. t = s
    BY <2>4, SeqEqual
  <2> QED BY <2>5 DEF t
<1> QED BY <1>4, <1>5 DEF TrimStart, r

LEMMA PlaceOfBlock ==
  ASSUME NEW lines, NEW before, NEW k, NEW after, Shaped(lines, before, k, after)
  PROVE  FirstMapping(lines) = Len(before) + k + 1
<1> DEFINE q == Len(before)
           m == Len(after)
           maps == {i \in DOMAIN lines : IsMap(lines[i])}
<1>1. /\ q \in Nat /\ m \in Nat /\ k \in Nat /\ DOMAIN lines = 1..q + k + m
      /\ Len(lines) = q + k + m
      /\ \A i \in 1..q : ~IsMap(lines[i])
      /\ \A i \in 1..k : lines[q + i] = Blank
      /\ m > 0 => IsMap(lines[q + k + 1])
  <2>1. /\ lines \in Seq(Plain) /\ before \in Seq(Plain) /\ after \in Seq(Plain) /\ k \in Nat
        /\ Len(lines) = q + k + m
        /\ \A i \in 1..q : lines[i] = before[i] /\ ~IsMap(before[i])
        /\ \A i \in 1..k : lines[q + i] = Blank
        /\ \A i \in 1..m : lines[q + k + i] = after[i]
        /\ m > 0 => IsMap(after[1])
    BY DEF Shaped
  <2>2. q \in Nat /\ m \in Nat /\ DOMAIN lines = 1..Len(lines)
    BY <2>1
  <2> HIDE DEF q, m
  <2>3. m > 0 => 1 \in 1..m
    BY <2>2
  <2> QED BY <2>1, <2>2, <2>3
<1>2. ASSUME NEW i \in maps PROVE q + k + 1 <= i
  <2>1. i \in 1..q + k + m /\ IsMap(lines[i])
    BY <1>1
  <2> HIDE DEF maps, q, m
  <2>2. i \notin 1..q
    BY <1>1, <2>1
  <2>3. i - q \notin 1..k
    <3> SUFFICES ASSUME i - q \in 1..k PROVE FALSE
      OBVIOUS
    <3>1. lines[q + (i - q)] = Blank /\ q + (i - q) = i
      BY <1>1, <2>1
    <3> QED BY <2>1, <3>1, MarksDiffer
  <2> QED BY <1>1, <2>1, <2>2, <2>3
<1>3. CASE m = 0
  <2>1. maps = {}
    <3>1. \A i \in maps : i <= q + k
      BY <1>1, <1>3
    <3>2. \A i \in maps : i \in Nat
      BY <1>1
    <3> HIDE DEF maps, q, m
    <3> QED BY <1>1, <1>2, <3>1, <3>2
  <2> QED BY <1>1, <1>3, <2>1 DEF FirstMapping
<1>4. CASE m > 0
  <2>1. maps \in SUBSET Nat /\ q + k + 1 \in maps
    <3>1. q + k + 1 \in 1..q + k + m
      <4> HIDE DEF q, m
      <4> QED BY <1>1, <1>4
    <3> QED BY <1>1, <1>4, <3>1
  <2>2. FirstMapping(lines) = Min(maps)
    BY <2>1 DEF FirstMapping
  <2> HIDE DEF maps
  <2>3. Min(maps) = q + k + 1
    BY <1>2, <2>1, LeastOne
  <2> QED BY <2>2, <2>3
<1> HIDE DEF q, m
<1>5. m = 0 \/ m > 0
  BY <1>1
<1> QED BY <1>3, <1>4, <1>5 DEF q, m

LEMMA ShapeExists ==
  ASSUME NEW lines \in Seq(Plain)
  PROVE  \E before, k, after : Shaped(lines, before, k, after)
<1> DEFINE n == Len(lines)
           at == FirstMapping(lines)
           D == {i \in 1..at - 1 : lines[i] # Blank}
           q == Max({0} \cup D)
           before == SubSeq(lines, 1, q)
           after == SubSeq(lines, at, n)
           k == at - 1 - q
<1>1. /\ n \in Nat /\ at \in 1..n + 1 /\ \A i \in 1..at - 1 : ~IsMap(lines[i])
      /\ at <= n => IsMap(lines[at])
  <2> DEFINE maps == {i \in DOMAIN lines : IsMap(lines[i])}
  <2>1. n \in Nat /\ DOMAIN lines = 1..n /\ at \in 1..n + 1
    BY PlaceIsInFile
  <2>2. CASE maps = {}
    <3>1. at = n + 1
      BY <2>2 DEF FirstMapping
    <3> HIDE DEF at, n
    <3> QED BY <2>1, <2>2, <3>1
  <2>3. CASE maps # {}
    <3>1. at = Min(maps) /\ maps \in SUBSET Nat
      BY <2>1, <2>3 DEF FirstMapping
    <3> HIDE DEF maps, at
    <3>2. \E x \in maps : \A y \in maps : x <= y
      BY <2>3, <3>1, LeastNatural
    <3>3. at \in maps /\ \A y \in maps : at <= y
      BY <3>1, <3>2 DEF Min
    <3> HIDE DEF n
    <3> QED BY <2>1, <3>3 DEF maps
  <2> HIDE DEF maps
  <2> QED BY <2>1, <2>2, <2>3
<1> HIDE DEF at
<1>2. /\ q \in 0..at - 1
      /\ q > 0 => lines[q] # Blank
      /\ \A i \in q + 1..at - 1 : lines[i] = Blank
  <2>1. at - 1 \in Nat /\ D \in SUBSET (1..at - 1)
    BY <1>1
  <2>2. CASE D = {}
    <3>1. q = 0
      BY <2>2 DEF Max
    <3> HIDE DEF q
    <3> QED BY <2>1, <2>2, <3>1
  <2>3. CASE D # {}
    <3> DEFINE E == {0} \cup D
    <3>1. Max(D) \in D /\ \A y \in D : Max(D) >= y
      <4> HIDE DEF D
      <4> QED BY <2>1, <2>3, GreatestIs
    <3>2. E \in SUBSET Nat /\ Max(D) \in E /\ \A y \in E : Max(D) >= y
      <4> HIDE DEF D
      <4>1. 1..at - 1 \subseteq Nat /\ D \subseteq Nat
        BY <2>1
      <4> DEFINE g == Max(D)
      <4>2. g \in D /\ \A y \in D : g >= y
        BY <3>1
      <4> HIDE DEF g
      <4>3. g \in Nat /\ g >= 0
        BY <4>1, <4>2
      <4>4. E \in SUBSET Nat /\ g \in E /\ \A y \in E : g >= y
        BY <4>1, <4>2, <4>3
      <4> QED BY <4>4 DEF g
    <3>3. Max(E) = Max(D)
      <4> HIDE DEF E
      <4> QED BY <3>2, GreatestOne
    <3>4. q \in D /\ \A y \in D : q >= y
      <4>1. q = Max(D)
        BY <3>3
      <4> QED BY <3>1, <4>1
    <3> HIDE DEF q
    <3>5. \A i \in q + 1..at - 1 : i \in 1..at - 1 /\ ~(q >= i)
      BY <2>1, <3>4
    <3> QED BY <2>1, <3>4, <3>5
  <2> QED BY <2>2, <2>3
<1> HIDE DEF q
<1>3. /\ before \in Seq(Plain) /\ Len(before) = q /\ \A i \in 1..q : before[i] = lines[i]
      /\ after \in Seq(Plain) /\ Len(after) = (n - at) + 1
      /\ \A i \in 1..(n - at) + 1 : after[i] = lines[at - 1 + i]
  <2>1. q \in Nat /\ q <= n /\ n \in Nat /\ at \in Nat /\ at >= 1 /\ at <= n + 1
    BY <1>1, <1>2
  <2>2. before \in Seq(Plain) /\ Len(before) = q /\ \A i \in 1..q : before[i] = lines[i]
    BY <2>1
  <2>3. /\ after \in Seq(Plain) /\ Len(after) = (n - at) + 1
        /\ \A i \in 1..(n - at) + 1 : after[i] = lines[at - 1 + i]
    BY <2>1
  <2> QED BY <2>2, <2>3
<1> HIDE DEF before, after
<1>4. k \in Nat /\ Len(before) + k = at - 1
  BY <1>1, <1>2, <1>3
<1>5. Len(lines) = Len(before) + k + Len(after)
  BY <1>1, <1>3, <1>4
<1>6. \A i \in 1..Len(before) : lines[i] = before[i] /\ ~IsMap(before[i])
  <2>1. \A i \in 1..q : i \in 1..at - 1
    BY <1>1, <1>2
  <2> QED BY <1>1, <1>3, <2>1
<1>7. \A i \in 1..k : lines[Len(before) + i] = Blank
  <2>1. \A i \in 1..k : q + i \in q + 1..at - 1
    BY <1>1, <1>2
  <2> QED BY <1>2, <1>3, <2>1
<1>8. \A i \in 1..Len(after) : lines[Len(before) + k + i] = after[i]
  <2> HIDE DEF k
  <2> QED BY <1>3, <1>4
<1>9. Len(before) > 0 => before[Len(before)] # Blank
  <2>1. q > 0 => q \in 1..q
    BY <1>2
  <2> QED BY <1>2, <1>3, <2>1
<1>10. Len(after) > 0 => IsMap(after[1])
  <2> SUFFICES ASSUME Len(after) > 0 PROVE IsMap(after[1])
    OBVIOUS
  <2>1. at <= n /\ 1 \in 1..(n - at) + 1 /\ at - 1 + 1 = at
    BY <1>1, <1>3
  <2>2. after[1] = lines[at]
    BY <1>3, <2>1
  <2> QED BY <1>1, <2>1, <2>2
<1> HIDE DEF k
<1> QED BY <1>3, <1>4, <1>5, <1>6, <1>7, <1>8, <1>9, <1>10 DEF Shaped

(* The block with a blank line on either side, whatever the last line.     *)
Inserted(lines, rows) == InsertBlock(lines, rows, FALSE)
Spaced(lines, rows) == Inserted(KeptLines(lines, rows), rows)

(* What Inserted makes of such a file, whatever the blank lines.           *)
Gap(part) == IF part = <<>> THEN <<>> ELSE <<Blank>>
RowLines(rows) == [i \in DOMAIN rows |-> Map(rows[i][2], <<rows[i][1]>>)]
Around(before, after, rows) ==
    before \o Gap(before) \o <<BeginMark, Note>> \o RowLines(rows) \o <<EndMark>>
           \o Gap(after) \o after

LEMMA TrimmedAround ==
  ASSUME NEW lines, NEW before, NEW k, NEW after, Shaped(lines, before, k, after)
  PROVE  LET at == FirstMapping(lines)
         IN  /\ TrimEnd(SubSeq(lines, 1, at - 1)) = before
             /\ TrimStart(SubSeq(lines, at, Len(lines))) = after
<1> DEFINE at == FirstMapping(lines)
           n == Len(lines)
           q == Len(before)
           m == Len(after)
           head == SubSeq(lines, 1, at - 1)
           tail == SubSeq(lines, at, n)
<1>1. /\ lines \in Seq(Plain) /\ before \in Seq(Plain) /\ after \in Seq(Plain) /\ k \in Nat
      /\ n = q + k + m
      /\ \A i \in 1..q : lines[i] = before[i] /\ ~IsMap(before[i])
      /\ \A i \in 1..k : lines[q + i] = Blank
      /\ \A i \in 1..m : lines[q + k + i] = after[i]
      /\ q > 0 => before[q] # Blank
      /\ m > 0 => IsMap(after[1])
  BY DEF Shaped
<1>2. at = q + k + 1 /\ q \in Nat /\ m \in Nat /\ n \in Nat
  BY <1>1, PlaceOfBlock
<1> HIDE DEF at
<1>3. /\ head \in Seq(Plain) /\ Len(head) = q + k /\ \A i \in 1..q + k : head[i] = lines[i]
      /\ tail \in Seq(Plain) /\ Len(tail) = m /\ \A i \in 1..m : tail[i] = lines[q + k + i]
  <2> HIDE DEF q, m
  <2>1. at - 1 = q + k /\ at >= 1 /\ at \in Nat /\ at - 1 <= n /\ at <= n + 1 /\ (n - at) + 1 = m
    BY <1>1, <1>2
  <2>2. /\ head \in Seq(Plain) /\ Len(head) = at - 1
        /\ \A i \in 1..at - 1 : head[i] = lines[i]
    BY <1>1, <1>2, <2>1
  <2>3. /\ tail \in Seq(Plain) /\ Len(tail) = (n - at) + 1
        /\ \A i \in 1..(n - at) + 1 : tail[i] = lines[at - 1 + i]
    BY <1>1, <1>2, <2>1
  <2> HIDE DEF head, tail, n
  <2> QED BY <2>1, <2>2, <2>3
<1> HIDE DEF head, tail
<1>4. TrimEnd(head) = before
  <2>1. q \in 0..Len(head)
    <3> HIDE DEF q
    <3> QED BY <1>1, <1>2, <1>3
  <2>2. q > 0 => head[q] # Blank
    <3> SUFFICES ASSUME q > 0 PROVE head[q] # Blank
      OBVIOUS
    <3> HIDE DEF q
    <3>1. q \in 1..q /\ q \in 1..q + k
      BY <1>1, <1>2
    <3> QED BY <1>1, <1>3, <3>1
  <2>3. \A i \in q + 1..Len(head) : head[i] = Blank
    <3> HIDE DEF q
    <3> SUFFICES ASSUME NEW i \in q + 1..q + k PROVE head[i] = Blank
      BY <1>3
    <3>1. i \in 1..q + k /\ i - q \in 1..k /\ q + (i - q) = i
      BY <1>1, <1>2
    <3>2. lines[q + (i - q)] = Blank
      BY <1>1, <3>1
    <3> QED BY <1>3, <3>1, <3>2
  <2>4. TrimEnd(head) = SubSeq(head, 1, q)
    <3> HIDE DEF q
    <3> QED BY <1>3, <2>1, <2>2, <2>3, TrimmedTo
  <2>5. SubSeq(head, 1, q) = before
    <3> DEFINE x == SubSeq(head, 1, q)
    <3>1. x \in Seq(Plain) /\ Len(x) = q /\ \A i \in 1..q : x[i] = head[i]
      BY <1>3, <2>1
    <3> HIDE DEF x
    <3>2. \A i \in 1..q : i \in 1..q + k
      BY <1>1, <1>2
    <3>3. \A i \in 1..q : x[i] = before[i]
      <4> HIDE DEF q
      <4> QED BY <1>1, <1>3, <3>1, <3>2
    <3>4. x = before
      BY <1>1, <3>1, <3>3, SeqEqual
    <3> QED BY <3>4 DEF x
  <2> QED BY <2>4, <2>5
<1>5. tail = after
  <2>1. \A i \in 1..m : tail[i] = after[i]
    <3> HIDE DEF m, q
    <3> QED BY <1>1, <1>3
  <2> QED BY <1>1, <1>3, <2>1, SeqEqual
<1>6. TrimStart(tail) = after
  <2>1. Len(after) > 0 => after[1] # Blank
    BY <1>1, MarksDiffer
  <2> QED BY <1>1, <1>5, <2>1, NothingToTrim
<1> QED BY <1>4, <1>6 DEF head, tail, at, n

LEMMA InsertsAround ==
  ASSUME NEW lines, NEW before, NEW k, NEW after, Shaped(lines, before, k, after),
         NEW rows, rows # <<>>
  PROVE  Inserted(lines, rows) = Around(before, after, rows)
<1> DEFINE at == FirstMapping(lines)
           head == SubSeq(lines, 1, at - 1)
           tail == SubSeq(lines, at, Len(lines))
<1>1. TrimEnd(head) = before /\ TrimStart(tail) = after
  BY TrimmedAround
<1>2. Inserted(lines, rows)
        = TrimEnd(head) \o Gap(TrimEnd(head)) \o <<BeginMark, Note>> \o RowLines(rows)
             \o <<EndMark>> \o Gap(TrimStart(tail)) \o TrimStart(tail)
  BY DEF Inserted, InsertBlock, Gap, RowLines
<1> QED BY <1>1, <1>2 DEF Around

LEMMA GapIsBlank ==
  ASSUME NEW part
  PROVE  /\ Gap(part) \in Seq(Plain) /\ Len(Gap(part)) \in Nat
         /\ \A i \in 1..Len(Gap(part)) : Gap(part)[i] = Blank
         /\ part # <<>> => Len(Gap(part)) > 0
<1>1. Blank \in Plain
  BY LinesAreTyped
<1>2. CASE part = <<>>
  BY <1>2 DEF Gap
<1>3. CASE part # <<>>
  <2>1. Gap(part) = <<Blank>>
    BY <1>3 DEF Gap
  <2>2. <<Blank>> \in Seq(Plain) /\ Len(<<Blank>>) = 1 /\ \A i \in 1..1 : <<Blank>>[i] = Blank
    BY <1>1
  <2> QED BY <2>1, <2>2
<1> QED BY <1>2, <1>3

(* The block is enclosed by the file without it.                           *)
LEMMA AroundEncloses ==
  ASSUME NEW before \in Seq(Plain), NEW after \in Seq(Plain), NEW rows \in Rows
  PROVE  Encloses(Around(before, after, rows), before \o Gap(before), rows, Gap(after) \o after)
<1> DEFINE pre == before \o Gap(before)
           gap == Gap(after)
           post == gap \o after
           maps == RowLines(rows)
           whole == ((pre \o <<BeginMark, Note>>) \o maps) \o <<EndMark>>
<1>1. Around(before, after, rows) = (whole \o gap) \o after
  BY DEF Around
<1>2. pre \in Seq(Plain) /\ gap \in Seq(Plain) /\ post \in Seq(Plain)
  BY GapIsBlank
<1> HIDE DEF pre, gap
<1>3. Encloses(whole \o post, pre, rows, post)
  <2> HIDE DEF post
  <2>1. maps = [i \in DOMAIN rows |-> Map(rows[i][2], <<rows[i][1]>>)]
    BY DEF RowLines
  <2> HIDE DEF maps
  <2> QED BY <1>2, <2>1, BlockIsPlaced
<1>4. (whole \o gap) \o after = whole \o post
  <2>1. whole \in Seq(Lines) /\ gap \in Seq(Lines) /\ after \in Seq(Lines)
    <3>1. \A j \in DOMAIN rows : Map(rows[j][2], <<rows[j][1]>>) \in Lines
      <4>1. \A j \in DOMAIN rows : rows[j] \in OneRow
        BY DEF Rows, OneRow
      <4> QED BY <4>1, LineOfRow
    <3>2. maps \in Seq(Lines)
      <4>1. DOMAIN rows = 1..Len(rows) /\ Len(rows) \in Nat
        BY DEF Rows
      <4> QED BY <3>1, <4>1 DEF RowLines
    <3>3. <<BeginMark, Note>> \in Seq(Lines) /\ <<EndMark>> \in Seq(Lines)
      <4>1. Note \in Plain /\ EndMark \in Plain /\ BeginMark \in Lines
        BY LinesAreTyped
      <4>2. Note \in Lines /\ EndMark \in Lines /\ BeginMark \in Lines
        BY <4>1 DEF Plain
      <4> QED BY <4>2
    <3>4. pre \in Seq(Lines) /\ gap \in Seq(Lines) /\ after \in Seq(Lines)
      BY <1>2 DEF Plain
    <3> HIDE DEF maps
    <3> QED BY <3>2, <3>3, <3>4
  <2> HIDE DEF whole
  <2> QED BY <2>1, ConcatAssociative
<1> QED BY <1>1, <1>3, <1>4 DEF pre, gap

LEMMA BlockIsInserted ==
  ASSUME NEW lines \in Seq(Plain), NEW rows \in Rows, rows # <<>>
  PROVE  \E p \in Nat : HasBlock(Inserted(lines, rows), p, rows)
<1>1. PICK before, k, after : Shaped(lines, before, k, after)
  BY ShapeExists
<1>2. before \in Seq(Plain) /\ after \in Seq(Plain)
  BY <1>1 DEF Shaped
<1> DEFINE pre == before \o Gap(before)
<1>3. Inserted(lines, rows) = Around(before, after, rows)
  BY <1>1, InsertsAround
<1>4. HasBlock(Inserted(lines, rows), Len(pre), rows)
  BY <1>2, <1>3, AroundEncloses DEF Encloses
<1>5. Len(pre) \in Nat
  BY <1>4 DEF HasBlock
<1> QED BY <1>4, <1>5

-----------------------------------------------------------------------------
(* The file without its block, and what rebuilding makes of it.            *)

(* t, and of s what is behind place q, up to place i.                      *)
Behind(t, s, q, i) == t \o SubSeq(s, q + 1, i)

LEMMA LongerBehind ==
  ASSUME NEW T, NEW t \in Seq(T), NEW s \in Seq(T), NEW q \in Nat, NEW i \in Nat,
         q <= i, i + 1 <= Len(s)
  PROVE  Append(Behind(t, s, q, i), s[i + 1]) = Behind(t, s, q, i + 1)
<1> DEFINE u == Behind(t, s, q, i)
           v == Behind(t, s, q, i + 1)
           x == SubSeq(s, q + 1, i)
           z == SubSeq(s, q + 1, i + 1)
           l == Len(t)
           m == l + (i - q)
           w == Append(u, s[i + 1])
<1>1. Len(s) \in Nat /\ l \in Nat /\ i - q \in Nat /\ m \in Nat /\ s[i + 1] \in T
  OBVIOUS
<1>2. x \in Seq(T) /\ Len(x) = i - q /\ \A k \in 1..i - q : x[k] = s[q + k]
  BY <1>1
<1>3. z \in Seq(T) /\ Len(z) = (i - q) + 1 /\ \A k \in 1..(i - q) + 1 : z[k] = s[q + k]
  BY <1>1
<1>4. /\ u \in Seq(T) /\ Len(u) = m
      /\ \A k \in 1..m : u[k] = IF k <= l THEN t[k] ELSE s[q + (k - l)]
  <2> HIDE DEF x
  <2>1. u = t \o x
    BY DEF x, Behind
  <2>2. /\ t \o x \in Seq(T) /\ Len(t \o x) = l + Len(x)
        /\ \A k \in 1..l + Len(x) : (t \o x)[k] = IF k <= l THEN t[k] ELSE x[k - l]
    BY <1>2, ConcatProperties
  <2>3. \A k \in 1..m : ~(k <= l) => k - l \in 1..i - q
    BY <1>1
  <2> HIDE DEF m, l
  <2>4. l + Len(x) = m
    BY <1>2 DEF m
  <2> QED BY <1>2, <2>1, <2>2, <2>3, <2>4
<1>5. /\ v \in Seq(T) /\ Len(v) = m + 1
      /\ \A k \in 1..m + 1 : v[k] = IF k <= l THEN t[k] ELSE s[q + (k - l)]
  <2> HIDE DEF z
  <2>1. v = t \o z
    BY DEF z, Behind
  <2>2. /\ t \o z \in Seq(T) /\ Len(t \o z) = l + Len(z)
        /\ \A k \in 1..l + Len(z) : (t \o z)[k] = IF k <= l THEN t[k] ELSE z[k - l]
    BY <1>3, ConcatProperties
  <2>3. \A k \in 1..m + 1 : ~(k <= l) => k - l \in 1..(i - q) + 1
    BY <1>1
  <2>4. l + Len(z) = m + 1
    BY <1>1, <1>3
  <2> HIDE DEF m, l
  <2> QED BY <1>3, <2>1, <2>2, <2>3, <2>4
<1>6. w \in Seq(T) /\ Len(w) = m + 1 /\ w[m + 1] = s[i + 1] /\ \A k \in 1..m : w[k] = u[k]
  <2> HIDE DEF m, u
  <2> QED BY <1>1, <1>4
<1>7. ~(m + 1 <= l) /\ q + ((m + 1) - l) = i + 1
  BY <1>1
<1> HIDE DEF m, l, u, v, w
<1>8. \A k \in 1..m + 1 : w[k] = v[k]
  <2>1. \A k \in 1..m + 1 : k \in 1..m \/ k = m + 1
    BY <1>1
  <2>2. v[m + 1] = s[i + 1]
    <3>1. m + 1 \in 1..m + 1
      BY <1>1
    <3> QED BY <1>5, <1>7, <3>1
  <2>3. ASSUME NEW k \in 1..m PROVE w[k] = v[k]
    <3>1. k \in 1..m + 1
      BY <1>1
    <3> QED BY <1>4, <1>5, <1>6, <3>1
  <2> QED BY <1>6, <2>1, <2>2, <2>3
<1>9. w = v
  BY <1>5, <1>6, <1>8, SeqEqual
<1> QED BY <1>9 DEF u, v, w

LEMMA SkipIsTyped ==
  ASSUME NEW x \in [out : Seq(Lines), inside : BOOLEAN], NEW y \in Lines
  PROVE  SkipBlock(x, y) \in [out : Seq(Lines), inside : BOOLEAN]
<1>1. x.out \in Seq(Lines) /\ x.inside \in BOOLEAN /\ Append(x.out, y) \in Seq(Lines)
  OBVIOUS
<1>2. (y # EndMark) \in BOOLEAN
  OBVIOUS
<1> QED BY <1>1, <1>2 DEF SkipBlock

LEMMA SkipSteps ==
  ASSUME NEW o, NEW y, y # BeginMark
  PROVE  LET out == [out |-> o, inside |-> FALSE]
             in == [out |-> o, inside |-> TRUE]
         IN  /\ SkipBlock(out, y) = [out |-> Append(o, y), inside |-> FALSE]
             /\ SkipBlock(out, BeginMark) = in
             /\ y # EndMark => SkipBlock(in, y) = in
             /\ SkipBlock(in, EndMark) = out
<1>1. EndMark # BeginMark
  BY LinesAreTyped DEF Plain
<1>2. ASSUME y # EndMark
      PROVE  SkipBlock([out |-> o, inside |-> TRUE], y) = [out |-> o, inside |-> TRUE]
  <2>1. SkipBlock([out |-> o, inside |-> TRUE], y) = [out |-> o, inside |-> y # EndMark]
    BY DEF SkipBlock
  <2>2. (y # EndMark) = TRUE
    BY <1>2
  <2> QED BY <2>1, <2>2
<1>3. SkipBlock([out |-> o, inside |-> TRUE], EndMark) = [out |-> o, inside |-> FALSE]
  <2>1. SkipBlock([out |-> o, inside |-> TRUE], EndMark)
          = [out |-> o, inside |-> EndMark # EndMark]
    BY <1>1 DEF SkipBlock
  <2>2. (EndMark # EndMark) = FALSE
    OBVIOUS
  <2> QED BY <2>1, <2>2
<1>4. SkipBlock([out |-> o, inside |-> FALSE], y) = [out |-> Append(o, y), inside |-> FALSE]
  BY DEF SkipBlock
<1>5. SkipBlock([out |-> o, inside |-> FALSE], BeginMark) = [out |-> o, inside |-> TRUE]
  BY DEF SkipBlock
<1> QED BY <1>2, <1>3, <1>4, <1>5

(* Of a file with one block, its first line after place p and its last one *)
(* at q, what is before and what is behind stays.                          *)
LEMMA BlockIsCut ==
  ASSUME NEW lines \in Seq(Lines), NEW p \in Nat, NEW q \in Nat, p + 1 < q, q <= Len(lines),
         \A i \in 1..p : lines[i] # BeginMark, lines[p + 1] = BeginMark,
         \A i \in p + 2..q - 1 : lines[i] # EndMark /\ lines[i] # BeginMark,
         lines[q] = EndMark,
         \A i \in q + 1..Len(lines) : lines[i] # BeginMark
  PROVE  RemoveBlock(lines) = SubSeq(lines, 1, p) \o SubSeq(lines, q + 1, Len(lines))
<1> DEFINE n == Len(lines)
           S == [out : Seq(Lines), inside : BOOLEAN]
           pre == SubSeq(lines, 1, p)
           behind == [i \in q..n |-> Behind(pre, lines, q, i)]
<1>1. n \in Nat /\ \A i \in 1..n : lines[i] \in Lines
  OBVIOUS
<1>2. NothingRemoved \in S /\ \A x \in S, y \in Lines : SkipBlock(x, y) \in S
  <2>1. NothingRemoved \in S
    BY DEF NothingRemoved
  <2> QED BY <2>1, SkipIsTyped
<1> HIDE DEF S
<1>3. PICK h \in [0..n -> S] :
            /\ h[0] = NothingRemoved
            /\ \A i \in 1..n : h[i] = SkipBlock(h[i - 1], lines[i])
            /\ RemoveBlock(lines) = h[n].out
  BY <1>2, SkipRuns
<1> HIDE DEF n
<1>4. n \in Nat /\ q <= n /\ p < n /\ lines \in Seq(Lines)
  BY <1>1 DEF n
<1>5. \A i \in 0..p : h[i] = [out |-> SubSeq(lines, 1, i), inside |-> FALSE]
  <2> DEFINE P == {i \in Nat : i <= p => h[i] = [out |-> SubSeq(lines, 1, i), inside |-> FALSE]}
  <2>1. 0 \in P
    <3>1. SubSeq(lines, 1, 0) = <<>>
      BY <1>4
    <3> QED BY <1>3, <3>1 DEF NothingRemoved
  <2>2. ASSUME NEW i \in Nat, i \in P PROVE i + 1 \in P
    <3> SUFFICES ASSUME i + 1 <= p
        PROVE  h[i + 1] = [out |-> SubSeq(lines, 1, i + 1), inside |-> FALSE]
      OBVIOUS
    <3>1. i + 1 \in 1..n /\ i + 1 \in 1..p /\ (i + 1) - 1 = i /\ i <= p
      BY <1>4
    <3>2. /\ h[i + 1] = SkipBlock([out |-> SubSeq(lines, 1, i), inside |-> FALSE], lines[i + 1])
          /\ lines[i + 1] # BeginMark
      BY <1>3, <2>2, <3>1
    <3>3. Append(SubSeq(lines, 1, i), lines[i + 1]) = SubSeq(lines, 1, i + 1)
      BY <1>4, <3>1, LongerBy DEF n
    <3> QED BY <3>2, <3>3, SkipSteps
  <2>3. Nat \subseteq P
    <3> HIDE DEF P
    <3> QED BY <2>1, <2>2, NatSet
  <2> QED BY <2>3
<1>6. pre \in Seq(Lines)
  BY <1>1, <1>4
<1>7. \A i \in p + 1..q - 1 : h[i] = [out |-> pre, inside |-> TRUE]
  <2> HIDE DEF pre
  <2> DEFINE P == {i \in Nat : p + 1 <= i /\ i <= q - 1 => h[i] = [out |-> pre, inside |-> TRUE]}
  <2>1. 0 \in P
    OBVIOUS
  <2>2. ASSUME NEW i \in Nat, i \in P PROVE i + 1 \in P
    <3> SUFFICES ASSUME p + 1 <= i + 1, i + 1 <= q - 1
        PROVE  h[i + 1] = [out |-> pre, inside |-> TRUE]
      OBVIOUS
    <3>1. i + 1 \in 1..n /\ (i + 1) - 1 = i
      BY <1>4
    <3>2. h[i + 1] = SkipBlock(h[i], lines[i + 1])
      BY <1>3, <3>1
    <3>3. CASE i = p
      <4>1. h[i] = [out |-> pre, inside |-> FALSE] /\ lines[i + 1] = BeginMark
        <5>1. p \in 0..p
          OBVIOUS
        <5> QED BY <1>5, <3>3, <5>1 DEF pre
      <4>2. EndMark # BeginMark
        BY LinesAreTyped DEF Plain
      <4> QED BY <3>2, <4>1, <4>2, SkipSteps
    <3>4. CASE p + 1 <= i
      <4>1. h[i] = [out |-> pre, inside |-> TRUE] /\ i + 1 \in p + 2..q - 1
        BY <2>2, <3>4
      <4>2. lines[i + 1] # BeginMark /\ lines[i + 1] # EndMark
        BY <4>1
      <4> QED BY <3>2, <4>1, <4>2, SkipSteps
    <3> HIDE DEF P
    <3> QED BY <3>3, <3>4
  <2>3. Nat \subseteq P
    <3> HIDE DEF P
    <3> QED BY <2>1, <2>2, NatSet
  <2> SUFFICES ASSUME NEW i \in p + 1..q - 1 PROVE h[i] = [out |-> pre, inside |-> TRUE]
    OBVIOUS
  <2>4. i \in P
    <3> HIDE DEF P
    <3> QED BY <2>3
  <2>5. p + 1 <= i /\ i <= q - 1
    OBVIOUS
  <2> QED BY <2>4, <2>5
<1>8. h[q] = [out |-> pre, inside |-> FALSE]
  <2> HIDE DEF pre
  <2>1. q \in 1..n /\ q - 1 \in p + 1..q - 1
    BY <1>4
  <2>2. h[q] = SkipBlock([out |-> pre, inside |-> TRUE], EndMark)
    BY <1>3, <1>7, <2>1
  <2>3. EndMark # BeginMark
    BY LinesAreTyped DEF Plain
  <2> QED BY <2>2, <2>3, SkipSteps
<1>9. /\ n \in q..n /\ behind[q] = pre /\ behind[n] = pre \o SubSeq(lines, q + 1, n)
      /\ \A i \in q..n : behind[i] = Behind(pre, lines, q, i)
  <2> HIDE DEF pre
  <2>1. q \in q..n /\ n \in q..n
    BY <1>4
  <2>2. Behind(pre, lines, q, q) = pre
    <3>1. SubSeq(lines, q + 1, q) = <<>>
      BY <1>4
    <3> QED BY <1>6, <3>1, ConcatEmptySeq DEF Behind
  <2>3. Behind(pre, lines, q, n) = pre \o SubSeq(lines, q + 1, n)
    BY DEF Behind
  <2> QED BY <2>1, <2>2, <2>3
<1> HIDE DEF behind, pre
<1>a. ASSUME NEW i \in q..n - 1
      PROVE  Append(behind[i], lines[i + 1]) = behind[i + 1]
  <2>1. i \in Nat /\ q <= i /\ i + 1 <= Len(lines) /\ i \in q..n /\ i + 1 \in q..n
    BY <1>4 DEF n
  <2>2. behind[i] = Behind(pre, lines, q, i) /\ behind[i + 1] = Behind(pre, lines, q, i + 1)
    BY <1>9, <2>1
  <2> QED BY <1>4, <1>6, <2>1, <2>2, LongerBehind
<1>10. \A i \in q..n : h[i] = [out |-> behind[i], inside |-> FALSE]
  <2> HIDE DEF pre
  <2> DEFINE P == {i \in Nat : q <= i /\ i <= n => h[i] = [out |-> behind[i], inside |-> FALSE]}
  <2>1. 0 \in P
    BY <1>4, <1>8, <1>9
  <2>2. ASSUME NEW i \in Nat, i \in P PROVE i + 1 \in P
    <3> SUFFICES ASSUME q <= i + 1, i + 1 <= n
        PROVE  h[i + 1] = [out |-> behind[i + 1], inside |-> FALSE]
      OBVIOUS
    <3>1. CASE i + 1 = q
      BY <1>8, <1>9, <3>1
    <3>2. CASE q <= i
      <4>1. i + 1 \in 1..n /\ (i + 1) - 1 = i /\ i + 1 \in q + 1..n /\ i \in q..n - 1 /\ i <= n
        BY <1>4, <3>2
      <4>2. h[i + 1] = SkipBlock([out |-> behind[i], inside |-> FALSE], lines[i + 1])
        BY <1>3, <2>2, <3>2, <4>1
      <4>3. lines[i + 1] # BeginMark
        BY <4>1 DEF n
      <4>4. SkipBlock([out |-> behind[i], inside |-> FALSE], lines[i + 1])
              = [out |-> Append(behind[i], lines[i + 1]), inside |-> FALSE]
        BY <4>3, SkipSteps
      <4>5. Append(behind[i], lines[i + 1]) = behind[i + 1]
        BY <1>a, <4>1
      <4> QED BY <4>2, <4>4, <4>5
    <3> HIDE DEF P
    <3> QED BY <1>4, <3>1, <3>2
  <2>3. Nat \subseteq P
    <3> HIDE DEF P
    <3> QED BY <2>1, <2>2, NatSet
  <2> QED BY <1>4, <2>3
<1>11. h[n] = [out |-> behind[n], inside |-> FALSE]
  BY <1>9, <1>10
<1>12. h[n].out = behind[n]
  BY <1>11
<1> QED BY <1>3, <1>9, <1>12 DEF n, pre

(* Without a begin mark, everything stays.                                 *)
LEMMA PlainStays ==
  ASSUME NEW lines \in Seq(Plain)
  PROVE  RemoveBlock(lines) = lines
<1> DEFINE n == Len(lines)
           S == [out : Seq(Lines), inside : BOOLEAN]
           State(i) == [out |-> SubSeq(lines, 1, i), inside |-> FALSE]
<1>1. /\ n \in Nat /\ lines \in Seq(Lines)
      /\ \A i \in 1..n : lines[i] \in Lines /\ lines[i] # BeginMark
  BY DEF Plain
<1>2. NothingRemoved \in S /\ \A x \in S, y \in Lines : SkipBlock(x, y) \in S
  <2>1. NothingRemoved \in S
    BY DEF NothingRemoved
  <2> QED BY <2>1, SkipIsTyped
<1> HIDE DEF S
<1>3. PICK h \in [0..n -> S] :
            /\ h[0] = NothingRemoved
            /\ \A i \in 1..n : h[i] = SkipBlock(h[i - 1], lines[i])
            /\ RemoveBlock(lines) = h[n].out
  BY <1>1, <1>2, SkipRuns
<1> HIDE DEF n
<1> DEFINE P == {i \in Nat : i <= n => h[i] = State(i)}
<1>4. 0 \in P
  <2>1. SubSeq(lines, 1, 0) = <<>>
    BY <1>1
  <2> QED BY <1>3, <2>1 DEF NothingRemoved
<1>5. ASSUME NEW i \in Nat, i \in P PROVE i + 1 \in P
  <2> SUFFICES ASSUME i + 1 <= n PROVE h[i + 1] = State(i + 1)
    OBVIOUS
  <2>1. i + 1 \in 1..n /\ (i + 1) - 1 = i /\ i <= n
    BY <1>1
  <2>2. h[i + 1] = SkipBlock(State(i), lines[i + 1]) /\ lines[i + 1] # BeginMark
    BY <1>1, <1>3, <1>5, <2>1
  <2>3. Append(SubSeq(lines, 1, i), lines[i + 1]) = SubSeq(lines, 1, i + 1)
    BY <1>1, <2>1, LongerBy DEF n
  <2> QED BY <2>2, <2>3 DEF SkipBlock
<1>6. h[n] = State(n)
  <2>1. Nat \subseteq P
    <3> HIDE DEF P
    <3> QED BY <1>4, <1>5, NatSet
  <2> QED BY <1>1, <2>1
<1>7. SubSeq(lines, 1, n) = lines
  BY <1>1 DEF n
<1> QED BY <1>3, <1>6, <1>7

LEMMA EnclosedIsCut ==
  ASSUME NEW pre \in Seq(Plain), NEW post \in Seq(Plain), NEW rows \in Rows, NEW z,
         Encloses(z, pre, rows, post)
  PROVE  RemoveBlock(z) = pre \o post
<1> DEFINE p == Len(pre)
           m == Len(rows)
           q == p + 3 + m
           l == Len(post)
           n == Len(z)
           s == SubSeq(z, 1, p)
           t == SubSeq(z, q + 1, n)
<1>1. /\ p \in Nat /\ m \in Nat /\ l \in Nat /\ \A j \in 1..m : rows[j] \in OneRow
      /\ \A i \in 1..p : pre[i] # BeginMark
      /\ \A i \in 1..l : post[i] # BeginMark
  BY DEF Rows, OneRow, Plain
<1>2. /\ z \in Seq(Lines) /\ n = q + l
      /\ z[p + 1] = BeginMark /\ z[p + 2] = Note
      /\ \A j \in 1..m : z[p + 2 + j] = Map(rows[j][2], <<rows[j][1]>>)
      /\ z[q] = EndMark
      /\ \A i \in 1..p : z[i] = pre[i]
      /\ \A j \in 1..l : z[q + j] = post[j]
  BY DEF Encloses, HasBlock
<1>3. /\ q \in Nat /\ p + 1 < q /\ q <= n /\ n \in Nat
  <2> HIDE DEF p, m, l, n
  <2> QED BY <1>1, <1>2
<1>4. \A i \in 1..p : z[i] # BeginMark
  BY <1>1, <1>2
<1>5. \A i \in p + 2..q - 1 : z[i] # EndMark /\ z[i] # BeginMark
  <2> SUFFICES ASSUME NEW i \in p + 2..q - 1 PROVE z[i] # EndMark /\ z[i] # BeginMark
    OBVIOUS
  <2>1. CASE i = p + 2
    <3>1. Note # EndMark /\ Note # BeginMark
      BY LinesAreTyped DEF Plain
    <3> QED BY <1>2, <2>1, <3>1
  <2>2. CASE i # p + 2
    <3> DEFINE j == i - (p + 2)
    <3>1. j \in 1..m /\ p + 2 + j = i
      <4> HIDE DEF p, m
      <4> QED BY <1>1, <2>2
    <3> HIDE DEF j
    <3>2. z[i] = Map(rows[j][2], <<rows[j][1]>>) /\ rows[j] \in OneRow
      BY <1>1, <1>2, <3>1
    <3> QED BY <3>2, LineOfRow
  <2> QED BY <2>1, <2>2
<1>6. \A i \in q + 1..n : z[i] # BeginMark
  <2> SUFFICES ASSUME NEW i \in q + 1..n PROVE z[i] # BeginMark
    OBVIOUS
  <2>1. q \in Nat /\ l \in Nat /\ n = q + l
    BY <1>1, <1>2, <1>3
  <2> DEFINE j == i - q
  <2> HIDE DEF q, l, n
  <2>2. j \in 1..l /\ q + j = i
    BY <2>1
  <2> HIDE DEF j
  <2>3. z[q + j] = post[j] /\ post[j] # BeginMark
    BY <1>1, <1>2, <2>2
  <2> QED BY <2>2, <2>3
<1>7. RemoveBlock(z) = s \o t
  <2> HIDE DEF q, p, s, t
  <2>1. RemoveBlock(z) = SubSeq(z, 1, p) \o SubSeq(z, q + 1, Len(z))
    BY <1>1, <1>2, <1>3, <1>4, <1>5, <1>6, BlockIsCut DEF n
  <2> QED BY <2>1 DEF s, t, n
<1>8. s = pre
  <2>1. s \in Seq(Lines) /\ Len(s) = p /\ \A i \in 1..p : s[i] = z[i]
    <3> HIDE DEF p, q, l, n
    <3>1. p <= n /\ n = Len(z)
      BY <1>1, <1>3 DEF n
    <3> QED BY <1>1, <1>2, <3>1
  <2>2. \A i \in 1..p : s[i] = pre[i]
    <3> HIDE DEF s
    <3> QED BY <1>2, <2>1
  <2> HIDE DEF s
  <2>3. pre \in Seq(Lines)
    BY DEF Plain
  <2> QED BY <2>1, <2>2, <2>3, SeqEqual
<1>9. t = post
  <2>1. t \in Seq(Lines) /\ Len(t) = l /\ \A j \in 1..l : t[j] = z[q + j]
    <3> HIDE DEF p, q, l, n
    <3>1. n = Len(z) /\ (n - (q + 1)) + 1 = l /\ q + 1 >= 1
      BY <1>1, <1>2, <1>3 DEF n
    <3> QED BY <1>1, <1>2, <1>3, <3>1
  <2>2. \A i \in 1..l : t[i] = post[i]
    <3> HIDE DEF t, q
    <3> QED BY <1>2, <2>1
  <2> HIDE DEF t
  <2>3. post \in Seq(Lines)
    BY DEF Plain
  <2> QED BY <2>1, <2>2, <2>3, SeqEqual
<1> QED BY <1>7, <1>8, <1>9

(* Without its block, the file has the same parts, and the blank lines.    *)
LEMMA ShapedAgain ==
  ASSUME NEW lines, NEW before, NEW k, NEW after, Shaped(lines, before, k, after)
  PROVE  Shaped((before \o Gap(before)) \o (Gap(after) \o after), before,
                Len(Gap(before)) + Len(Gap(after)), after)
<1> DEFINE g == Gap(before)
           h == Gap(after)
           x == before \o g
           y == h \o after
           z == x \o y
           q == Len(before)
           m == Len(after)
           u == Len(g)
           v == Len(h)
<1>1. /\ before \in Seq(Plain) /\ after \in Seq(Plain)
      /\ \A i \in 1..q : ~IsMap(before[i])
      /\ q > 0 => before[q] # Blank
      /\ m > 0 => IsMap(after[1])
  BY DEF Shaped
<1>2. /\ g \in Seq(Plain) /\ h \in Seq(Plain) /\ u \in Nat /\ v \in Nat
      /\ \A i \in 1..u : g[i] = Blank
      /\ \A i \in 1..v : h[i] = Blank
  BY GapIsBlank
<1> HIDE DEF g, h
<1>3. q \in Nat /\ m \in Nat /\ \A s \in Seq(Plain) : s \in Seq(Lines)
  BY <1>1 DEF Plain
<1>4. x \in Seq(Plain) /\ y \in Seq(Plain) /\ z \in Seq(Plain)
  BY <1>1, <1>2
<1>5. Joins(x, before, g) /\ Joins(y, h, after)
  BY <1>1, <1>2, <1>3, JoinedAt
<1> HIDE DEF x, y
<1>6. Joins(z, x, y)
  BY <1>3, <1>4, JoinedAt
<1> HIDE DEF z
<1>7. /\ Len(x) = q + u /\ Len(y) = v + m /\ Len(z) = (q + u) + (v + m)
      /\ \A i \in 1..q : x[i] = before[i]
      /\ \A i \in 1..u : x[q + i] = g[i]
      /\ \A i \in 1..v : y[i] = h[i]
      /\ \A i \in 1..m : y[v + i] = after[i]
      /\ \A i \in 1..q + u : z[i] = x[i]
      /\ \A i \in 1..v + m : z[q + u + i] = y[i]
  <2>1. /\ Len(x) = q + u /\ Len(y) = v + m
        /\ \A i \in 1..q : x[i] = before[i]
        /\ \A i \in 1..u : x[q + i] = g[i]
        /\ \A i \in 1..v : y[i] = h[i]
        /\ \A i \in 1..m : y[v + i] = after[i]
    BY <1>5 DEF Joins
  <2>2. /\ Len(z) = Len(x) + Len(y)
        /\ \A i \in 1..Len(x) : z[i] = x[i]
        /\ \A i \in 1..Len(y) : z[Len(x) + i] = y[i]
    BY <1>6 DEF Joins
  <2> HIDE DEF q, u, v, m
  <2> QED BY <2>1, <2>2
<1>8. Len(z) = q + (u + v) + m /\ u + v \in Nat
  <2> HIDE DEF q, u, v, m
  <2> QED BY <1>2, <1>3, <1>7
<1>9. \A i \in 1..q : z[i] = before[i] /\ ~IsMap(before[i])
  <2> HIDE DEF q, u, v, m
  <2>1. \A i \in 1..q : i \in 1..q + u
    BY <1>2, <1>3
  <2> QED BY <1>1, <1>7, <2>1
<1>10. \A i \in 1..u + v : z[q + i] = Blank
  <2> SUFFICES ASSUME NEW i \in 1..u + v PROVE z[q + i] = Blank
    OBVIOUS
  <2> HIDE DEF q, u, v, m
  <2>1. CASE i \in 1..u
    <3>1. q + i \in 1..q + u
      BY <1>2, <1>3, <2>1
    <3> QED BY <1>2, <1>7, <2>1, <3>1
  <2>2. CASE i - u \in 1..v
    <3>1. i - u \in 1..v + m /\ q + u + (i - u) = q + i
      BY <1>2, <1>3, <2>2
    <3>2. z[q + u + (i - u)] = y[i - u] /\ y[i - u] = h[i - u] /\ h[i - u] = Blank
      BY <1>2, <1>7, <2>2, <3>1
    <3> QED BY <3>1, <3>2
  <2> QED BY <1>2, <2>1, <2>2
<1>11. \A i \in 1..m : z[q + (u + v) + i] = after[i]
  <2> SUFFICES ASSUME NEW i \in 1..m PROVE z[q + (u + v) + i] = after[i]
    OBVIOUS
  <2> HIDE DEF q, u, v, m
  <2>1. v + i \in 1..v + m /\ q + u + (v + i) = q + (u + v) + i
    BY <1>2, <1>3
  <2>2. z[q + u + (v + i)] = y[v + i] /\ y[v + i] = after[i]
    BY <1>7, <2>1
  <2> QED BY <2>1, <2>2
<1>12. Shaped(z, before, u + v, after)
  BY <1>1, <1>4, <1>8, <1>9, <1>10, <1>11 DEF Shaped
<1> QED BY <1>12 DEF z, x, y, u, v, g, h

(* Blank lines: only a block that ends with one is left, at the first.     *)
ClosedByBlanks(c, q, k) ==
    \A i \in 0..k : c[q + i] = IF i = 0 \/ c[q] # Blank THEN c[q] ELSE Note

LEMMA BlanksClose ==
  ASSUME NEW lines, NEW c, NEW rows, Calm(lines, c, rows), NEW q \in Nat, NEW k \in Nat,
         q + k <= Len(lines), \A i \in 1..k : lines[q + i] = Blank
  PROVE  ClosedByBlanks(c, q, k)
<1>1. /\ Len(lines) \in Nat /\ c \in [0..Len(lines) -> Closings]
      /\ \A i \in 1..Len(lines) : c[i] = Closes(c[i - 1], lines[i])
  BY DEF Calm
<1> DEFINE P == {i \in Nat : i <= k => c[q + i] = IF i = 0 \/ c[q] # Blank THEN c[q] ELSE Note}
<1>2. 0 \in P
  OBVIOUS
<1>3. ASSUME NEW i \in Nat, i \in P PROVE i + 1 \in P
  <2> SUFFICES ASSUME i + 1 <= k PROVE c[q + (i + 1)] = IF c[q] # Blank THEN c[q] ELSE Note
    OBVIOUS
  <2>1. /\ q + (i + 1) \in 1..Len(lines) /\ (q + (i + 1)) - 1 = q + i /\ i + 1 \in 1..k
        /\ i <= k /\ q + 0 = q /\ q \in 0..Len(lines)
    BY <1>1
  <2>2. c[q + (i + 1)] = Closes(c[q + i], Blank) /\ c[q] \in Closings
    BY <1>1, <2>1
  <2>3. c[q + i] = IF i = 0 \/ c[q] # Blank THEN c[q] ELSE Note
    BY <1>3, <2>1
  <2>4. OtherBlock(Blank) = Note /\ MaxEnd # Blank /\ Blank # Note
    BY BlocksOfOthers, MarksDiffer
  <2> HIDE DEF P
  <2>5. \A e \in Closings : Closes(e, Blank) = IF e = Blank THEN Note ELSE e
    BY <2>4 DEF Closes, Closings
  <2> QED BY <2>2, <2>3, <2>4, <2>5 DEF Closings
<1>4. Nat \subseteq P
  <2> HIDE DEF P
  <2> QED BY <1>2, <1>3, NatSet
<1> QED BY <1>4 DEF ClosedByBlanks

(* With other blank lines at the place, the file is as calm; unless the    *)
(* place is in a block which they would end.                               *)
LEMMA CalmAround ==
  ASSUME NEW lines, NEW c, NEW rows, Calm(lines, c, rows),
         NEW before, NEW k, NEW after, Shaped(lines, before, k, after),
         c[Len(before) + k] # Blank,
         NEW others, NEW g, Shaped(others, before, g, after), Len(before) > 0 => g > 0
  PROVE  \E d : Calm(others, d, rows)
<1> DEFINE q == Len(before)
           m == Len(after)
           e == c[q + k]
           n == q + g + m
           d == [i \in 0..n |-> IF i <= q THEN c[i]
                                ELSE IF i <= q + g THEN e ELSE c[(i - g) + k]]
<1>1. /\ q \in Nat /\ m \in Nat /\ k \in Nat /\ g \in Nat /\ n \in Nat
      /\ Len(lines) = q + k + m /\ Len(others) = n /\ others \in Seq(Plain)
      /\ \A i \in 1..q : lines[i] = before[i] /\ others[i] = before[i]
      /\ \A i \in 1..k : lines[q + i] = Blank
      /\ \A i \in 1..g : others[q + i] = Blank
      /\ \A i \in 1..m : lines[q + k + i] = after[i] /\ others[q + g + i] = after[i]
      /\ q > 0 => g > 0
  BY DEF Shaped
<1>2. /\ c \in [0..q + k + m -> Closings] /\ c[0] = Note
      /\ \A i \in 1..q + k + m : /\ c[i] = Closes(c[i - 1], lines[i])
                                 /\ c[i - 1] = Note => Agrees(lines[i], rows)
  BY <1>1 DEF Calm
<1> HIDE DEF q, m, n
<1>3. \A i \in 0..k : c[q + i] = IF i = 0 \/ c[q] # Blank THEN c[q] ELSE Note
  <2>1. q + k <= Len(lines)
    BY <1>1
  <2>2. ClosedByBlanks(c, q, k)
    BY <1>1, <2>1, BlanksClose
  <2> QED BY <2>2 DEF ClosedByBlanks
<1>4. /\ e \in {Note, MaxEnd} /\ e \in Closings
      /\ c[q] # Blank => e = c[q]
      /\ c[q] = Blank => e = Note
  <2>1. k \in 0..k /\ q + k \in 0..q + k + m
    BY <1>1
  <2>2. e # Blank /\ e \in Closings
    BY <1>2, <2>1 DEF q
  <2>3. e = IF k = 0 \/ c[q] # Blank THEN c[q] ELSE Note
    BY <1>3, <2>1
  <2>4. k = 0 => q + k = q
    BY <1>1
  <2> QED BY <2>2, <2>3, <2>4 DEF Closings
<1>5. /\ Closes(e, Blank) = e /\ Closes(c[q], Blank) = e /\ Agrees(Blank, rows)
  <2>1. OtherBlock(Blank) = Note /\ MaxEnd # Blank /\ Blank # Note /\ ~IsMap(Blank)
    BY BlocksOfOthers, MarksDiffer
  <2>2. Closes(e, Blank) = e
    BY <1>4, <2>1 DEF Closes
  <2>3. Closes(c[q], Blank) = e
    BY <1>4, <2>1, <2>2 DEF Closes
  <2> QED BY <2>1, <2>2, <2>3 DEF Agrees
<1>6. g = 0 => q = 0 /\ e = c[0]
  <2> SUFFICES ASSUME g = 0 PROVE q = 0 /\ e = c[0]
    OBVIOUS
  <2>1. q = 0
    BY <1>1
  <2> QED BY <1>2, <1>4, <2>1, MarksDiffer
<1> HIDE DEF e
<1>7. /\ d \in [0..n -> Closings]
      /\ \A i \in 0..q : d[i] = c[i]
      /\ \A i \in q + 1..q + g : d[i] = e
      /\ \A i \in q + g + 1..n : d[i] = c[(i - g) + k]
  <2>1. n = q + g + m
    BY DEF n
  <2>2. \A i \in 0..n : (i <= q => i \in 0..q + k + m)
                        /\ (~(i <= q + g) => (i - g) + k \in 0..q + k + m)
    BY <1>1, <2>1
  <2>3. d \in [0..n -> Closings]
    BY <1>2, <1>4, <2>2
  <2>4. /\ \A i \in 0..q : i \in 0..n /\ i <= q
        /\ \A i \in q + 1..q + g : i \in 0..n /\ ~(i <= q) /\ i <= q + g
        /\ \A i \in q + g + 1..n : i \in 0..n /\ ~(i <= q) /\ ~(i <= q + g)
    BY <1>1, <2>1
  <2> QED BY <2>3, <2>4
<1> HIDE DEF d
<1>8. d[q + g] = e
  <2>1. CASE g = 0
    <3>1. q + g = 0 /\ 0 \in 0..q
      BY <1>1, <1>6, <2>1
    <3> QED BY <1>6, <1>7, <2>1, <3>1
  <2>2. CASE g # 0
    <3>1. q + g \in q + 1..q + g
      BY <1>1, <2>2
    <3> QED BY <1>7, <3>1
  <2> QED BY <2>1, <2>2
<1>9. ASSUME NEW i \in 1..n
      PROVE  /\ d[i] = Closes(d[i - 1], others[i])
             /\ d[i - 1] = Note => Agrees(others[i], rows)
  <2>1. CASE i \in 1..q
    <3>1. i \in 0..q /\ i - 1 \in 0..q /\ i \in 1..q + k + m
      BY <1>1, <2>1
    <3>2. others[i] = lines[i]
      BY <1>1, <2>1
    <3> QED BY <1>2, <1>7, <3>1, <3>2
  <2>2. CASE i \in q + 1..q + g
    <3>1. i - q \in 1..g /\ q + (i - q) = i
      BY <1>1, <2>2
    <3>2. others[i] = Blank
      BY <1>1, <3>1
    <3>3. d[i - 1] = e \/ d[i - 1] = c[q]
      <4>1. i - 1 \in q + 1..q + g \/ i - 1 = q
        BY <1>1, <2>2
      <4>2. q \in 0..q
        BY <1>1
      <4> QED BY <1>7, <4>1, <4>2
    <3> QED BY <1>5, <1>7, <2>2, <3>2, <3>3
  <2>3. CASE i \in q + g + 1..n
    <3> DEFINE j == i - (q + g)
               x == q + k + j
    <3>1. /\ j \in 1..m /\ q + g + j = i /\ x \in 1..q + k + m /\ (i - g) + k = x
          /\ ((i - 1) - g) + k = x - 1 /\ (j = 1 => i - 1 = q + g /\ x - 1 = q + k)
          /\ (j # 1 => i - 1 \in q + g + 1..n)
      BY <1>1, <2>3 DEF n
    <3> HIDE DEF j, x
    <3>2. others[i] = after[j] /\ lines[x] = after[j]
      <4>1. others[q + g + j] = after[j] /\ lines[q + k + j] = after[j]
        BY <1>1, <3>1
      <4> QED BY <3>1, <4>1 DEF x
    <3>3. d[i] = c[x]
      BY <1>7, <2>3, <3>1
    <3>4. d[i - 1] = c[x - 1]
      <4>1. CASE j = 1
        BY <1>8, <3>1, <4>1 DEF e
      <4>2. CASE j # 1
        BY <1>7, <3>1, <4>2
      <4> QED BY <4>1, <4>2
    <3> QED BY <1>2, <3>1, <3>2, <3>3, <3>4
  <2>4. i \in 1..q \/ i \in q + 1..q + g \/ i \in q + g + 1..n
    BY <1>1
  <2> QED BY <2>1, <2>2, <2>3, <2>4
<1>10. d[0] = Note
  <2>1. 0 \in 0..q
    BY <1>1
  <2> QED BY <1>2, <1>7, <2>1
<1>11. Calm(others, d, rows)
  BY <1>1, <1>7, <1>9, <1>10 DEF Calm
<1> QED BY <1>11

LEMMA PartsOfShape ==
  ASSUME NEW lines, NEW before, NEW k, NEW after, Shaped(lines, before, k, after)
  PROVE  /\ Len(before) \in Nat /\ Len(after) \in Nat /\ k \in Nat
         /\ Len(lines) = Len(before) + k + Len(after)
         /\ \A i \in 1..Len(after) : lines[Len(before) + k + i] = after[i]
BY DEF Shaped

(* The block comes to lie in Telegram's.                                   *)
InTelegrams(lines) ==
    \E i \in 1..Min({FirstMapping(lines), Len(lines)}) :
        lines[i] = TgHead /\ \A j \in i..FirstMapping(lines) - 1 : lines[j] # Blank

Disturbs(lines, rows) == InTelegrams(DropConflicting(RemoveBlock(lines), rows))

(* The block is put into lines and taken away again: others are left.      *)
Detours(lines, c, rows, before, k, after, others, g) ==
    /\ Shaped(lines, before, k, after) /\ Shaped(others, before, g, after)
    /\ Len(before) > 0 => g > 0
    /\ RemoveBlock(Inserted(lines, rows)) = others
    /\ Inserted(others, rows) = Inserted(lines, rows)
    /\ c[Len(before) + k] = Blank => InTelegrams(lines)

LEMMA InsertedAndRemoved ==
  ASSUME NEW lines \in Seq(Plain), NEW c, NEW rows \in Rows, rows # <<>>, Calm(lines, c, rows)
  PROVE  \E before, k, after, others, g : Detours(lines, c, rows, before, k, after, others, g)
<1>1. PICK before, k, after : Shaped(lines, before, k, after)
  BY ShapeExists
<1> DEFINE q == Len(before)
           g == Len(Gap(before)) + Len(Gap(after))
           z == Around(before, after, rows)
           x == before \o Gap(before)
           y == Gap(after) \o after
           others == x \o y
<1>2. Inserted(lines, rows) = z
  BY <1>1, InsertsAround
<1>3. before \in Seq(Plain) /\ after \in Seq(Plain) /\ q \in Nat /\ k \in Nat
  BY <1>1 DEF Shaped
<1>4. Shaped(others, before, g, after)
  BY <1>1, ShapedAgain
<1>5. RemoveBlock(z) = others
  <2>1. x \in Seq(Plain) /\ y \in Seq(Plain)
    BY <1>3, GapIsBlank
  <2>2. Encloses(z, x, rows, y)
    BY <1>3, AroundEncloses
  <2> HIDE DEF z, x, y
  <2> QED BY <2>1, <2>2, EnclosedIsCut
<1>6. ASSUME c[q + k] = Blank PROVE InTelegrams(lines)
  <2> DEFINE at == FirstMapping(lines)
             n == Len(lines)
  <2>1. at = q + k + 1 /\ n = q + k + Len(after) /\ Len(after) \in Nat
    <3>1. at = q + k + 1
      BY <1>1, PlaceOfBlock
    <3>2. n = q + k + Len(after) /\ Len(after) \in Nat
      <4> HIDE DEF at
      <4> QED BY <1>1 DEF Shaped
    <3> QED BY <3>1, <3>2
  <2>2. q + k \in 0..n
    BY <1>3, <2>1
  <2>3. PICK i \in 1..q + k : lines[i] = TgHead /\ \A j \in i..q + k : lines[j] # Blank
    BY <1>6, <2>2, HeadIsAbove
  <2> HIDE DEF at, n, InTelegrams
  <2>4. i \in 1..Min({at, n})
    <3>1. /\ {at, n} \in SUBSET Nat /\ at >= q + k /\ n >= q + k
      BY <1>3, <2>1
    <3>2. CASE at <= n
      <4>1. \A u \in {at, n} : at <= u
        BY <1>3, <2>1, <3>2
      <4>2. Min({at, n}) = at
        BY <3>1, <4>1, LeastOne
      <4> QED BY <1>3, <2>1, <2>3, <4>2
    <3>3. CASE n <= at
      <4>1. \A u \in {at, n} : n <= u
        BY <1>3, <2>1, <3>3
      <4>2. Min({at, n}) = n
        BY <3>1, <4>1, LeastOne
      <4> QED BY <1>3, <2>1, <2>3, <4>2
    <3> QED BY <1>3, <2>1, <3>2, <3>3
  <2>5. \A j \in i..at - 1 : lines[j] # Blank
    <3>1. at - 1 = q + k
      BY <1>3, <2>1
    <3> QED BY <2>3, <3>1
  <2> QED BY <2>3, <2>4, <2>5 DEF at, n, InTelegrams
<1>7. q > 0 => g > 0
  <2>1. q > 0 => before # <<>>
    BY <1>3
  <2>2. before # <<>> => Len(Gap(before)) > 0
    BY GapIsBlank
  <2>3. Len(Gap(before)) \in Nat /\ Len(Gap(after)) \in Nat
    BY GapIsBlank
  <2> QED BY <2>1, <2>2, <2>3
<1> HIDE DEF z, others, g
<1>8. Inserted(others, rows) = z
  BY <1>4, InsertsAround DEF z
<1>9. Detours(lines, c, rows, before, k, after, others, g)
  BY <1>1, <1>2, <1>4, <1>5, <1>6, <1>7, <1>8 DEF Detours
<1> QED BY <1>9

NoMapping(lines) == FirstMapping(lines) > Len(lines)

(* Rebuilding what was rebuilt, unless the block came to lie in Telegram's. *)
LEMMA SpacedTwice ==
  ASSUME NEW lines \in Seq(Lines), NEW rows \in Rows, ~Disturbs(lines, rows)
  PROVE  /\ Spaced(Spaced(lines, rows), rows) = Spaced(lines, rows)
         /\ rows # <<>> /\ ~NoMapping(KeptLines(lines, rows))
              => ~NoMapping(KeptLines(Spaced(lines, rows), rows))
<1> DEFINE rest == DropConflicting(RemoveBlock(lines), rows)
<1>1. RemoveBlock(lines) \in Seq(Plain)
  BY BlockIsRemoved
<1>2. rest \in Seq(Plain) /\ \E c : Calm(rest, c, rows)
  BY <1>1, ConflictsAreDropped, DropIsCalm
<1>3. Spaced(lines, rows) = Inserted(rest, rows)
  BY DEF Spaced, KeptLines
<1>4. ~InTelegrams(rest)
  BY DEF Disturbs
<1>8. KeptLines(lines, rows) = rest
  BY DEF KeptLines
<1> HIDE DEF rest
<1>5. PICK c : Calm(rest, c, rows)
  BY <1>2
<1>6. CASE rows = <<>>
  <2>1. \A s : Inserted(s, rows) = s
    BY <1>6 DEF Inserted, InsertBlock
  <2>2. RemoveBlock(rest) = rest /\ DropConflicting(rest, rows) = rest
    BY <1>2, <1>5, PlainStays, DropLeavesCalm
  <2>3. Spaced(rest, rows) = rest
    BY <2>1, <2>2 DEF Spaced, KeptLines
  <2> QED BY <1>3, <1>6, <2>1, <2>3
<1>7. CASE rows # <<>>
  <2>1. PICK before, k, after, others, g :
            Detours(rest, c, rows, before, k, after, others, g)
    BY <1>2, <1>5, <1>7, InsertedAndRemoved
  <2>2. PICK d : Calm(others, d, rows)
    BY <1>4, <1>5, <2>1, CalmAround DEF Detours
  <2>3. DropConflicting(others, rows) = others
    BY <2>2, DropLeavesCalm
  <2>4. /\ Spaced(Inserted(rest, rows), rows) = Inserted(rest, rows)
        /\ KeptLines(Inserted(rest, rows), rows) = others
    BY <2>1, <2>3 DEF Detours, Spaced, KeptLines
  <2>5. ~NoMapping(rest) => ~NoMapping(others)
    <3>1. Shaped(rest, before, k, after) /\ Shaped(others, before, g, after)
      BY <2>1 DEF Detours
    <3>2. /\ FirstMapping(rest) = Len(before) + k + 1
          /\ FirstMapping(others) = Len(before) + g + 1
      BY <3>1, PlaceOfBlock
    <3>3. /\ Len(before) \in Nat /\ Len(after) \in Nat /\ k \in Nat /\ g \in Nat
          /\ Len(rest) = Len(before) + k + Len(after)
          /\ Len(others) = Len(before) + g + Len(after)
      BY <3>1, PartsOfShape
    <3> QED BY <3>2, <3>3 DEF NoMapping
  <2> QED BY <1>3, <1>7, <1>8, <2>4, <2>5
<1> QED BY <1>6, <1>7

(* A file that cannot be read counts as one without lines.                 *)
LEMMA EmptyIsCalm ==
  ASSUME NEW rows \in Rows
  PROVE  ~Disturbs(<<>>, rows)
<1>1. <<>> \in Seq(Plain) /\ Len(<<>>) = 0
  OBVIOUS
<1>2. RemoveBlock(<<>>) = <<>>
  BY <1>1, PlainStays
<1>3. DropConflicting(<<>>, rows) = <<>>
  BY CalmStarts, DropLeavesCalm
<1>4. FirstMapping(<<>>) = 1
  BY DEF FirstMapping
<1>5. Min({1, 0}) = 0
  <2>1. {1, 0} \in SUBSET Nat /\ 0 \in {1, 0} /\ \A u \in {1, 0} : 0 <= u
    OBVIOUS
  <2> QED BY <2>1, LeastOne
<1>6. 1..0 = {}
  OBVIOUS
<1> QED BY <1>1, <1>2, <1>3, <1>4, <1>5, <1>6 DEF Disturbs, InTelegrams

-----------------------------------------------------------------------------
(* What others have in the file.                                           *)

(* The names of a line, one by one.                                        *)
PairsBy(h, kept, names, ip, rows) ==
    /\ h \in [0..Len(names) -> Seq(OneRead)] /\ h[0] = kept
    /\ \A i \in 1..Len(names) : h[i] = AddPair(h[i - 1], names[i], ip, rows)
    /\ AddPairs(kept, names, ip, rows) = h[Len(names)]

LEMMA PairIsTyped ==
  ASSUME NEW kept \in Seq(OneRead), NEW name \in HostNames, NEW ip \in AnyAddress, NEW rows
  PROVE  AddPair(kept, name, ip, rows) \in Seq(OneRead)
<1>1. <<name, ip>> \in OneRead
  BY DEF OneRead
<1>2. Append(kept, <<name, ip>>) \in Seq(OneRead)
  BY <1>1
<1> QED BY <1>2 DEF AddPair

LEMMA PairRuns ==
  ASSUME NEW kept \in Seq(OneRead), NEW names \in Seq(HostNames), NEW ip \in AnyAddress, NEW rows
  PROVE  \E h : PairsBy(h, kept, names, ip, rows)
<1> DEFINE S == Seq(OneRead)
           A == HostNames
           b == kept
           s == names
           n == Len(s)
           g == [p \in S \X A |-> AddPair(p[1], p[2], ip, rows)]
           Turn(f) == [t \in SUBSET (DOMAIN s) |->
                         IF t = {} THEN b ELSE AddPair(f[t \ {Max(t)}], s[Max(t)], ip, rows)]
           c == CHOOSE f : f = Turn(f)
<1>1. n \in Nat /\ DOMAIN s = 1..n /\ (\A i \in 1..n : s[i] \in A) /\ b \in S
  OBVIOUS
<1>2. \A x \in S, y \in A : AddPair(x, y, ip, rows) \in S
  BY PairIsTyped
<1>3. AddPairs(kept, names, ip, rows) = c[DOMAIN s]
  BY DEF AddPairs, FoldLeft, MapThenFoldSet
<1> HIDE DEF n, s, b, S, A
<1>4. g \in [S \X A -> S] /\ \A x \in S, y \in A : g[<<x, y>>] = AddPair(x, y, ip, rows)
  BY <1>2
<1> HIDE DEF g
<1>5. Steps(S, A, g, b, s, n)
  BY <1>1, <1>4 DEF Steps
<1>6. \A t \in SUBSET (1..n) : t # {} => s[Max(t)] \in A
  BY <1>1, GreatestIs
<1>7. PICK f : Iterates(f, S, g, b, s, n)
  <2> HIDE DEF c, Turn
  <2> QED BY <1>5, IterExists
<1>8. f = Turn(f)
  <2>1. \A t \in SUBSET (1..n) :
            f[t] = IF t = {} THEN b ELSE AddPair(f[t \ {Max(t)}], s[Max(t)], ip, rows)
    BY <1>4, <1>6, <1>7 DEF Iterates
  <2> QED BY <1>1, <1>7, <2>1 DEF Iterates
<1>9. c = Turn(c)
  <2> HIDE DEF Turn
  <2> QED BY <1>8
<1>10. FoldsBy(c, S, g, b, s, n)
  <2> HIDE DEF c
  <2> QED BY <1>1, <1>4, <1>6, <1>9 DEF FoldsBy
<1> HIDE DEF c
<1>11. PICK h : RunsTo(h, S, g, b, s, n, c[1..n])
  BY <1>5, <1>10, RunOfIter
<1>12. \A i \in 1..n : h[i] = AddPair(h[i - 1], s[i], ip, rows)
  <2>1. n \in Nat /\ h \in [0..n -> S] /\ \A i \in 1..n : h[i] = g[<<h[i - 1], s[i]>>]
    BY <1>1, <1>11 DEF RunsTo
  <2>2. \A i \in 1..n : i - 1 \in 0..n
    BY <2>1
  <2>3. \A i \in 1..n : h[i - 1] \in S /\ s[i] \in A
    BY <1>1, <2>1, <2>2
  <2> QED BY <1>4, <2>1, <2>3
<1> QED BY <1>1, <1>3, <1>11, <1>12 DEF RunsTo, PairsBy, n, b, s, S

LEMMA PairsAreTyped ==
  ASSUME NEW kept \in Seq(OneRead), NEW names \in Seq(HostNames), NEW ip \in AnyAddress, NEW rows
  PROVE  AddPairs(kept, names, ip, rows) \in Seq(OneRead)
<1>1. PICK h : PairsBy(h, kept, names, ip, rows)
  BY PairRuns
<1>2. Len(names) \in 0..Len(names)
  OBVIOUS
<1> QED BY <1>1, <1>2 DEF PairsBy

LEMMA NoNamesNoPairs ==
  ASSUME NEW kept \in Seq(OneRead), NEW ip \in AnyAddress, NEW rows
  PROVE  AddPairs(kept, <<>>, ip, rows) = kept
<1>1. <<>> \in Seq(HostNames) /\ Len(<<>>) = 0
  OBVIOUS
<1>2. PICK h : PairsBy(h, kept, <<>>, ip, rows)
  BY <1>1, PairRuns
<1> QED BY <1>1, <1>2 DEF PairsBy

LEMMA OneNameMore ==
  ASSUME NEW kept \in Seq(OneRead), NEW names \in Seq(HostNames), NEW name \in HostNames,
         NEW ip \in AnyAddress, NEW rows
  PROVE  AddPairs(kept, Append(names, name), ip, rows)
            = AddPair(AddPairs(kept, names, ip, rows), name, ip, rows)
<1> DEFINE n == Len(names)
           more == Append(names, name)
<1>1. /\ n \in Nat /\ more \in Seq(HostNames) /\ Len(more) = n + 1 /\ more[n + 1] = name
      /\ \A i \in 1..n : more[i] = names[i]
  OBVIOUS
<1> HIDE DEF more
<1>2. PICK h : PairsBy(h, kept, names, ip, rows)
  BY PairRuns
<1>3. PICK e : PairsBy(e, kept, more, ip, rows)
  BY <1>1, PairRuns
<1>4. /\ h[0] = kept /\ e[0] = kept
      /\ \A i \in 1..n : h[i] = AddPair(h[i - 1], names[i], ip, rows)
      /\ \A i \in 1..n + 1 : e[i] = AddPair(e[i - 1], more[i], ip, rows)
      /\ AddPairs(kept, names, ip, rows) = h[n]
      /\ AddPairs(kept, more, ip, rows) = e[n + 1]
  BY <1>1, <1>2, <1>3 DEF PairsBy
<1> HIDE DEF n
<1> DEFINE P == {i \in Nat : i <= n => e[i] = h[i]}
<1>5. 0 \in P
  BY <1>4
<1>6. ASSUME NEW i \in Nat, i \in P PROVE i + 1 \in P
  <2> SUFFICES ASSUME i + 1 <= n PROVE e[i + 1] = h[i + 1]
    OBVIOUS
  <2>1. i + 1 \in 1..n /\ i + 1 \in 1..n + 1 /\ (i + 1) - 1 = i /\ e[i] = h[i]
    BY <1>1, <1>6
  <2> QED BY <1>1, <1>4, <2>1
<1>7. e[n] = h[n]
  <2>1. Nat \subseteq P
    <3> HIDE DEF P
    <3> QED BY <1>5, <1>6, NatSet
  <2> QED BY <1>1, <2>1
<1>8. n + 1 \in 1..n + 1 /\ (n + 1) - 1 = n
  BY <1>1
<1> QED BY <1>1, <1>4, <1>7, <1>8 DEF more

(* A name that clashes is none that stays: Rest takes none of these away.  *)
LEMMA RestKeepsPairs ==
  ASSUME NEW kept \in Seq(OneRead), NEW line \in Lines, NEW rows \in Rows
  PROVE  AddPairs(kept, Rest(line, rows), line.ip, rows)
            = AddPairs(kept, line.names, line.ip, rows)
<1> DEFINE s == line.names
           ip == line.ip
           n == Len(s)
           S == Seq(HostNames)
<1>1. s \in S /\ ip \in AnyAddress /\ n \in Nat /\ \A i \in 1..n : s[i] \in HostNames
  BY FieldsOfLine
<1>2. <<>> \in S /\ \A x \in S, y \in HostNames : KeepName(x, y, ip, rows) \in S
  <2>1. \A x \in S, y \in HostNames : Append(x, y) \in S
    OBVIOUS
  <2> HIDE DEF S
  <2>2. \A x \in S, y \in HostNames : KeepName(x, y, ip, rows) \in S
    BY <2>1, Zenon DEF KeepName
  <2> QED BY <2>2 DEF S
<1>a. line.names \in Seq(HostNames)
  BY <1>1
<1> HIDE DEF S
<1>b. PICK k : KeepsBy(k, S, line, rows)
  BY <1>2, <1>a, KeepRuns
<1>3. /\ k \in [0..n -> S] /\ k[0] = <<>>
      /\ \A i \in 1..n : k[i] = KeepName(k[i - 1], s[i], ip, rows)
      /\ Rest(line, rows) = k[n]
  BY <1>b DEF KeepsBy
<1>4. PICK h : PairsBy(h, kept, s, ip, rows)
  <2>1. s \in Seq(HostNames)
    BY <1>a
  <2> HIDE DEF s, ip
  <2> QED BY <1>1, <2>1, PairRuns
<1>5. /\ h[0] = kept /\ AddPairs(kept, s, ip, rows) = h[n]
      /\ \A i \in 1..n : h[i] = AddPair(h[i - 1], s[i], ip, rows)
  BY <1>4 DEF PairsBy
<1>6. ASSUME NEW name, Clashes(name, ip, rows), NEW x
      PROVE  AddPair(x, name, ip, rows) = x
  <2>1. PICK i \in DOMAIN rows : rows[i][1] = name
    BY <1>6 DEF Clashes
  <2>2. rows[i] \in ToSet(rows)
    BY DEF ToSet
  <2>3. <<name, ip>> \notin ToSet(rows)
    BY <1>6 DEF Clashes, ToSet
  <2> QED BY <2>1, <2>2, <2>3 DEF AddPair
<1> HIDE DEF n, s, ip
<1> DEFINE P == {i \in Nat : i <= n => AddPairs(kept, k[i], ip, rows) = h[i]}
<1>7. 0 \in P
  <2>1. AddPairs(kept, <<>>, ip, rows) = kept
    BY <1>1, NoNamesNoPairs
  <2> QED BY <1>3, <1>5, <2>1
<1>8. ASSUME NEW i \in Nat, i \in P PROVE i + 1 \in P
  <2> SUFFICES ASSUME i + 1 <= n PROVE AddPairs(kept, k[i + 1], ip, rows) = h[i + 1]
    OBVIOUS
  <2> DEFINE name == s[i + 1]
  <2>1. /\ i + 1 \in 1..n /\ (i + 1) - 1 = i /\ i \in 0..n
        /\ AddPairs(kept, k[i], ip, rows) = h[i]
    BY <1>1, <1>8
  <2>2. k[i + 1] = KeepName(k[i], name, ip, rows) /\ k[i] \in Seq(HostNames) /\ name \in HostNames
    BY <1>1, <1>3, <2>1 DEF S
  <2>3. h[i + 1] = AddPair(h[i], name, ip, rows)
    BY <1>5, <2>1
  <2> HIDE DEF P, name
  <2>4. CASE Clashes(name, ip, rows)
    <3>1. k[i + 1] = k[i]
      BY <2>2, <2>4 DEF KeepName
    <3>2. h[i + 1] = h[i]
      BY <1>6, <2>3, <2>4
    <3> QED BY <2>1, <3>1, <3>2
  <2>5. CASE ~Clashes(name, ip, rows)
    <3>1. k[i + 1] = Append(k[i], name)
      BY <2>2, <2>5 DEF KeepName
    <3>2. AddPairs(kept, Append(k[i], name), ip, rows) = AddPair(h[i], name, ip, rows)
      BY <1>1, <2>1, <2>2, OneNameMore
    <3> QED BY <2>3, <3>1, <3>2
  <2> QED BY <2>4, <2>5
<1>9. AddPairs(kept, k[n], ip, rows) = h[n]
  <2>1. Nat \subseteq P
    <3> HIDE DEF P
    <3> QED BY <1>7, <1>8, NatSet
  <2> QED BY <1>1, <2>1
<1> QED BY <1>3, <1>5, <1>9 DEF s, ip

Views == [remarks : Seq(Lines), pairs : Seq(OneRead), inBlocks : Seq(Lines), closing : Closings]

LEMMA NoticeIsTyped ==
  ASSUME NEW x \in Views, NEW y \in Lines, NEW rows
  PROVE  Notice(x, y, rows) \in Views
<1>1. /\ x.remarks \in Seq(Lines) /\ x.pairs \in Seq(OneRead) /\ x.inBlocks \in Seq(Lines)
      /\ x.closing \in Closings
  BY DEF Views
<1>2. Append(x.remarks, y) \in Seq(Lines) /\ Append(x.inBlocks, y) \in Seq(Lines)
  BY <1>1
<1>3. AddPairs(x.pairs, y.names, y.ip, rows) \in Seq(OneRead)
  BY <1>1, FieldsOfLine, PairsAreTyped
<1>4. Closes(x.closing, y) \in Closings
  BY <1>1, ClosesIsTyped
<1> QED BY <1>1, <1>2, <1>3, <1>4 DEF Notice, Closes, Views

ViewsBy(h, lines, rows) ==
    /\ h \in [0..Len(lines) -> Views] /\ h[0] = Unseen
    /\ \A i \in 1..Len(lines) : h[i] = Notice(h[i - 1], lines[i], rows)
    /\ OfOthers(lines, rows) = h[Len(lines)]

LEMMA ViewRuns ==
  ASSUME NEW lines \in Seq(Lines), NEW rows
  PROVE  \E h : ViewsBy(h, lines, rows)
<1> DEFINE S == Views
           A == Lines
           b == Unseen
           s == lines
           n == Len(s)
           g == [p \in S \X A |-> Notice(p[1], p[2], rows)]
           Turn(f) == [t \in SUBSET (DOMAIN s) |->
                         IF t = {} THEN b ELSE Notice(f[t \ {Max(t)}], s[Max(t)], rows)]
           c == CHOOSE f : f = Turn(f)
<1>1. n \in Nat /\ DOMAIN s = 1..n /\ \A i \in 1..n : s[i] \in A
  OBVIOUS
<1>b. b \in S
  BY DEF Unseen, Views, Closings
<1>2. \A x \in S, y \in A : Notice(x, y, rows) \in S
  BY NoticeIsTyped
<1>3. OfOthers(lines, rows) = c[DOMAIN s]
  BY DEF OfOthers, FoldLeft, MapThenFoldSet
<1> HIDE DEF n, s, b, S, A
<1>4. g \in [S \X A -> S] /\ \A x \in S, y \in A : g[<<x, y>>] = Notice(x, y, rows)
  BY <1>2
<1> HIDE DEF g
<1>5. Steps(S, A, g, b, s, n)
  BY <1>1, <1>b, <1>4 DEF Steps
<1>6. \A t \in SUBSET (1..n) : t # {} => s[Max(t)] \in A
  BY <1>1, GreatestIs
<1>7. PICK f : Iterates(f, S, g, b, s, n)
  <2> HIDE DEF c, Turn
  <2> QED BY <1>5, IterExists
<1>8. f = Turn(f)
  <2>1. \A t \in SUBSET (1..n) :
            f[t] = IF t = {} THEN b ELSE Notice(f[t \ {Max(t)}], s[Max(t)], rows)
    BY <1>4, <1>6, <1>7 DEF Iterates
  <2> QED BY <1>1, <1>7, <2>1 DEF Iterates
<1>9. c = Turn(c)
  <2> HIDE DEF Turn
  <2> QED BY <1>8
<1>10. FoldsBy(c, S, g, b, s, n)
  <2> HIDE DEF c
  <2> QED BY <1>1, <1>4, <1>6, <1>9 DEF FoldsBy
<1> HIDE DEF c
<1>11. PICK h : RunsTo(h, S, g, b, s, n, c[1..n])
  BY <1>5, <1>10, RunOfIter
<1>12. \A i \in 1..n : h[i] = Notice(h[i - 1], s[i], rows)
  <2>1. n \in Nat /\ h \in [0..n -> S] /\ \A i \in 1..n : h[i] = g[<<h[i - 1], s[i]>>]
    BY <1>1, <1>11 DEF RunsTo
  <2>2. \A i \in 1..n : i - 1 \in 0..n
    BY <2>1
  <2>3. \A i \in 1..n : h[i - 1] \in S /\ s[i] \in A
    BY <1>1, <2>1, <2>2
  <2> QED BY <1>4, <2>1, <2>3
<1> QED BY <1>1, <1>3, <1>11, <1>12 DEF RunsTo, ViewsBy, n, b, s, S

(* Lines that are alike up to place n are seen alike up to there.          *)
LEMMA SeenAlike ==
  ASSUME NEW h, NEW e, NEW lines, NEW others, NEW rows,
         ViewsBy(h, lines, rows), ViewsBy(e, others, rows),
         NEW n \in Nat, n <= Len(lines), n <= Len(others), Len(lines) \in Nat, Len(others) \in Nat,
         \A i \in 1..n : lines[i] = others[i]
  PROVE  h[n] = e[n]
<1> DEFINE P == {i \in Nat : i <= n => h[i] = e[i]}
<1>1. 0 \in P
  BY DEF ViewsBy
<1>2. ASSUME NEW i \in Nat, i \in P PROVE i + 1 \in P
  <2> SUFFICES ASSUME i + 1 <= n PROVE h[i + 1] = e[i + 1]
    OBVIOUS
  <2>1. /\ i + 1 \in 1..Len(lines) /\ i + 1 \in 1..Len(others) /\ i + 1 \in 1..n
        /\ (i + 1) - 1 = i /\ h[i] = e[i]
    BY <1>2
  <2>2. /\ h[i + 1] = Notice(h[i], lines[i + 1], rows)
        /\ e[i + 1] = Notice(e[i], others[i + 1], rows)
        /\ lines[i + 1] = others[i + 1]
    BY <2>1 DEF ViewsBy
  <2> QED BY <2>1, <2>2
<1>3. Nat \subseteq P
  <2> HIDE DEF P
  <2> QED BY <1>1, <1>2, NatSet
<1> QED BY <1>3

LEMMA OneLineMore ==
  ASSUME NEW lines \in Seq(Lines), NEW y \in Lines, NEW rows
  PROVE  OfOthers(Append(lines, y), rows) = Notice(OfOthers(lines, rows), y, rows)
<1> DEFINE n == Len(lines)
           more == Append(lines, y)
<1>1. /\ n \in Nat /\ more \in Seq(Lines) /\ Len(more) = n + 1 /\ more[n + 1] = y
      /\ \A i \in 1..n : lines[i] = more[i]
  OBVIOUS
<1> HIDE DEF more
<1>2. PICK h : ViewsBy(h, lines, rows)
  BY ViewRuns
<1>3. PICK e : ViewsBy(e, more, rows)
  BY <1>1, ViewRuns
<1>4. h[n] = e[n]
  <2>1. n <= Len(lines) /\ n <= Len(more) /\ Len(lines) \in Nat /\ Len(more) \in Nat
    BY <1>1
  <2> HIDE DEF n
  <2> QED BY <1>1, <1>2, <1>3, <2>1, SeenAlike
<1>5. n + 1 \in 1..Len(more) /\ (n + 1) - 1 = n
  BY <1>1
<1>6. e[n + 1] = Notice(e[n], y, rows)
  BY <1>1, <1>3, <1>5 DEF ViewsBy
<1>7. OfOthers(lines, rows) = h[n] /\ OfOthers(more, rows) = e[n + 1]
  BY <1>1, <1>2, <1>3 DEF ViewsBy
<1> QED BY <1>4, <1>6, <1>7 DEF more

(* DropConflicting takes nothing of these away.                            *)
LEMMA DropKeepsView ==
  ASSUME NEW lines \in Seq(Plain), NEW rows \in Rows
  PROVE  OfOthers(DropConflicting(lines, rows), rows) = OfOthers(lines, rows)
<1> DEFINE n == Len(lines)
           S == CalmStates(rows)
<1>1. n \in Nat /\ lines \in Seq(Lines) /\ \A i \in 1..n : lines[i] \in Plain
  BY DEF Plain
<1>2. NothingDropped \in S /\ \A x \in S, y \in Plain : DropFromLine(x, y, rows) \in S
  BY CalmStarts, DropKeepsCalm
<1> HIDE DEF S
<1>a. PICK d : DropsBy(d, S, lines, rows)
  BY <1>2, DropRuns
<1>3. /\ d \in [0..n -> S] /\ d[0] = NothingDropped
      /\ \A i \in 1..n : d[i] = DropFromLine(d[i - 1], lines[i], rows)
      /\ DropConflicting(lines, rows) = d[n].out
  BY <1>a DEF DropsBy
<1>b. PICK h : ViewsBy(h, lines, rows)
  BY <1>1, ViewRuns
<1>4. /\ h \in [0..n -> Views] /\ h[0] = Unseen
      /\ \A i \in 1..n : h[i] = Notice(h[i - 1], lines[i], rows)
      /\ OfOthers(lines, rows) = h[n]
  BY <1>b DEF ViewsBy
<1> HIDE DEF n
<1> DEFINE Seen(i) == OfOthers(d[i].out, rows) = h[i] /\ d[i].closing = h[i].closing
           P == {i \in Nat : i <= n => Seen(i)}
<1>5. 0 \in P
  <2>1. d[0].out = <<>> /\ d[0].closing = Note /\ h[0].closing = Note
    BY <1>3, <1>4 DEF NothingDropped, Unseen
  <2>2. OfOthers(<<>>, rows) = Unseen
    <3>1. <<>> \in Seq(Lines) /\ Len(<<>>) = 0
      OBVIOUS
    <3>2. PICK e : ViewsBy(e, <<>>, rows)
      BY <3>1, ViewRuns
    <3> QED BY <3>1, <3>2 DEF ViewsBy
  <2> QED BY <1>4, <2>1, <2>2
<1>6. ASSUME NEW i \in Nat, i \in P PROVE i + 1 \in P
  <2> SUFFICES ASSUME i + 1 <= n PROVE Seen(i + 1)
    OBVIOUS
  <2> DEFINE y == lines[i + 1]
             x == d[i]
             v == h[i]
  <2>1. i + 1 \in 1..n /\ (i + 1) - 1 = i /\ i \in 0..n /\ OfOthers(x.out, rows) = v
        /\ x.closing = v.closing
    BY <1>1, <1>6
  <2>2. d[i + 1] = DropFromLine(x, y, rows) /\ h[i + 1] = Notice(v, y, rows)
    BY <1>3, <1>4, <2>1
  <2>3. y \in Plain /\ y \in Lines /\ x \in S /\ v \in Views
    BY <1>1, <1>3, <1>4, <2>1 DEF Plain
  <2>4. x.out \in Seq(Plain) /\ x.out \in Seq(Lines) /\ v.pairs \in Seq(OneRead)
    BY <2>3 DEF S, CalmStates, Views, Plain
  <2> HIDE DEF x, y, v, P
  <2>5. ASSUME NEW z \in Lines, d[i + 1] = [out |-> Append(x.out, z), closing |-> Closes(x.closing, y)],
               Notice(v, z, rows) = Notice(v, y, rows)
        PROVE  Seen(i + 1)
    <3>1. OfOthers(Append(x.out, z), rows) = Notice(v, z, rows)
      BY <2>1, <2>4, OneLineMore
    <3>2. Notice(v, y, rows).closing = Closes(x.closing, y)
      BY <2>1 DEF Notice, Closes
    <3>3. d[i + 1].out = Append(x.out, z) /\ d[i + 1].closing = Closes(x.closing, y)
      BY <2>5
    <3> QED BY <2>2, <2>5, <3>1, <3>2, <3>3
  <2>6. CASE x.closing # Note \/ ~IsMap(y)
    <3>1. d[i + 1] = [out |-> Append(x.out, y), closing |-> Closes(x.closing, y)]
      BY <2>2, <2>6 DEF DropFromLine, Closes
    <3> QED BY <2>3, <2>5, <3>1
  <2>7. CASE x.closing = Note /\ IsMap(y)
    <3> DEFINE rest == Rest(y, rows)
               z == Map(y.ip, rest)
    <3>1. OtherBlock(y) = Note /\ rest \in Seq(HostNames) /\ y.ip \in AnyAddress
      BY <2>3, <2>7, BlocksOfOthers, RestAgrees, FieldsOfLine
    <3>2. AddPairs(v.pairs, rest, y.ip, rows) = AddPairs(v.pairs, y.names, y.ip, rows)
      BY <2>3, <2>4, RestKeepsPairs
    <3> HIDE DEF rest
    <3>3. CASE rest = <<>>
      <4>1. d[i + 1] = [out |-> x.out, closing |-> Note]
        BY <2>2, <2>7, <3>1, <3>3 DEF DropFromLine, rest
      <4>2. AddPairs(v.pairs, y.names, y.ip, rows) = v.pairs
        BY <2>4, <3>1, <3>2, <3>3, NoNamesNoPairs
      <4>3. Notice(v, y, rows) = [remarks |-> v.remarks, pairs |-> v.pairs,
                                  inBlocks |-> v.inBlocks, closing |-> Note]
        BY <2>1, <2>7, <3>1, <4>2 DEF Notice
      <4>4. [remarks |-> v.remarks, pairs |-> v.pairs, inBlocks |-> v.inBlocks, closing |-> Note] = v
        BY <2>1, <2>3, <2>7 DEF Views
      <4>5. d[i + 1].out = x.out /\ d[i + 1].closing = Note
        BY <4>1
      <4> QED BY <2>1, <2>2, <2>7, <4>3, <4>4, <4>5
    <3>4. CASE rest # <<>>
      <4>1. d[i + 1] = [out |-> Append(x.out, z), closing |-> Note]
        BY <2>2, <2>7, <3>1, <3>4 DEF DropFromLine, rest
      <4>2. z \in Lines /\ IsMap(z) /\ z.names = rest /\ z.ip = y.ip
        BY <3>1, LinesAreTyped DEF Plain
      <4> HIDE DEF z
      <4>3. OtherBlock(z) = Note
        BY <4>2, BlocksOfOthers
      <4>4. Notice(v, z, rows) = Notice(v, y, rows)
        BY <2>1, <2>7, <3>1, <3>2, <4>2, <4>3 DEF Notice
      <4>5. Closes(x.closing, y) = Note
        BY <2>7, <3>1 DEF Closes
      <4> QED BY <2>5, <4>1, <4>2, <4>4, <4>5
    <3> QED BY <3>3, <3>4
  <2> QED BY <2>6, <2>7
<1>7. Seen(n)
  <2> HIDE DEF Seen
  <2>1. Nat \subseteq P
    <3> HIDE DEF P
    <3> QED BY <1>5, <1>6, NatSet
  <2> QED BY <1>1, <2>1
<1> QED BY <1>3, <1>4, <1>7

(* Of blank lines, nothing is seen.                                        *)
LEMMA BlanksUnseen ==
  ASSUME NEW h, NEW lines \in Seq(Lines), NEW rows, ViewsBy(h, lines, rows),
         NEW q \in Nat, NEW k \in Nat, q + k <= Len(lines), \A i \in 1..k : lines[q + i] = Blank
  PROVE  /\ h[q + k].remarks = h[q].remarks /\ h[q + k].pairs = h[q].pairs
         /\ h[q + k].inBlocks = h[q].inBlocks
<1> DEFINE n == Len(lines)
           P == {i \in Nat : i <= k => /\ h[q + i].remarks = h[q].remarks
                                       /\ h[q + i].pairs = h[q].pairs
                                       /\ h[q + i].inBlocks = h[q].inBlocks}
<1>1. /\ n \in Nat /\ h \in [0..n -> Views]
      /\ \A i \in 1..n : h[i] = Notice(h[i - 1], lines[i], rows)
  BY DEF ViewsBy
<1> HIDE DEF n
<1>2. 0 \in P
  OBVIOUS
<1>3. ASSUME NEW i \in Nat, i \in P PROVE i + 1 \in P
  <2> SUFFICES ASSUME i + 1 <= k
      PROVE  /\ h[q + (i + 1)].remarks = h[q].remarks /\ h[q + (i + 1)].pairs = h[q].pairs
             /\ h[q + (i + 1)].inBlocks = h[q].inBlocks
    OBVIOUS
  <2>1. /\ q + (i + 1) \in 1..n /\ (q + (i + 1)) - 1 = q + i /\ q + i \in 0..n /\ i + 1 \in 1..k
    BY <1>1 DEF n
  <2>2. /\ h[q + i].remarks = h[q].remarks /\ h[q + i].pairs = h[q].pairs
        /\ h[q + i].inBlocks = h[q].inBlocks
    BY <1>3, <2>1
  <2> HIDE DEF P
  <2>3. h[q + (i + 1)] = Notice(h[q + i], Blank, rows) /\ h[q + i] \in Views
    BY <1>1, <2>1
  <2> DEFINE x == h[q + i]
  <2>4. AddPairs(x.pairs, Blank.names, Blank.ip, rows) = x.pairs
    <3>1. Blank.names = <<>> /\ Blank.ip \in AnyAddress
      BY DEF Blank, Mark, AnyAddress
    <3>2. x.pairs \in Seq(OneRead)
      BY <2>3 DEF Views
    <3> HIDE DEF x
    <3> QED BY <3>1, <3>2, NoNamesNoPairs
  <2>5. ~IsMap(Blank)
    BY MarksDiffer
  <2> HIDE DEF x
  <2>6. /\ Notice(x, Blank, rows).remarks = x.remarks /\ Notice(x, Blank, rows).pairs = x.pairs
        /\ Notice(x, Blank, rows).inBlocks = x.inBlocks
    BY <2>4, <2>5 DEF Notice
  <2> QED BY <2>2, <2>3, <2>6 DEF x
<1>4. k \in P
  <2> HIDE DEF P
  <2> QED BY <1>2, <1>3, NatSet
<1> QED BY <1>4

LEMMA ClosingIsSeen ==
  ASSUME NEW h, NEW lines, NEW c, NEW rows, ViewsBy(h, lines, rows), Calm(lines, c, rows),
         NEW k \in 0..Len(lines)
  PROVE  h[k].closing = c[k]
<1> DEFINE n == Len(lines)
           P == {i \in Nat : i <= n => h[i].closing = c[i]}
<1>1. /\ n \in Nat /\ h[0] = Unseen /\ c[0] = Note
      /\ \A i \in 1..n : h[i] = Notice(h[i - 1], lines[i], rows) /\ c[i] = Closes(c[i - 1], lines[i])
  BY DEF ViewsBy, Calm
<1>2. 0 \in P
  BY <1>1 DEF Unseen
<1> HIDE DEF n
<1>3. ASSUME NEW i \in Nat, i \in P PROVE i + 1 \in P
  <2> SUFFICES ASSUME i + 1 <= n PROVE h[i + 1].closing = c[i + 1]
    OBVIOUS
  <2>1. i + 1 \in 1..n /\ (i + 1) - 1 = i /\ h[i].closing = c[i]
    BY <1>1, <1>3
  <2>2. h[i + 1] = Notice(h[i], lines[i + 1], rows) /\ c[i + 1] = Closes(c[i], lines[i + 1])
    BY <1>1, <2>1
  <2> QED BY <2>1, <2>2 DEF Notice, Closes
<1>4. k \in P
  <2>1. k \in Nat
    BY <1>1 DEF n
  <2> HIDE DEF P
  <2> QED BY <1>2, <1>3, <2>1, NatSet
<1>5. k <= n
  BY <1>1 DEF n
<1> QED BY <1>4, <1>5

(* The same remarks and pairs, or all the same.                            *)
Same(x, y, all) == x.remarks = y.remarks /\ x.pairs = y.pairs /\ (all => x = y)

LEMMA SeenBehind ==
  ASSUME NEW h, NEW lines, NEW e, NEW others, NEW rows,
         ViewsBy(h, lines, rows), ViewsBy(e, others, rows),
         NEW before, NEW k, NEW g, NEW after,
         Shaped(lines, before, k, after), Shaped(others, before, g, after),
         NEW all \in BOOLEAN, Same(h[Len(before) + k], e[Len(before) + g], all)
  PROVE  Same(OfOthers(lines, rows), OfOthers(others, rows), all)
<1> DEFINE q == Len(before)
           m == Len(after)
           n == Len(lines)
           l == Len(others)
<1>1. /\ q \in Nat /\ m \in Nat /\ k \in Nat /\ g \in Nat
      /\ n = q + k + m /\ l = q + g + m
      /\ \A i \in 1..m : lines[q + k + i] = after[i] /\ others[q + g + i] = after[i]
  <2>1. /\ Len(before) \in Nat /\ Len(after) \in Nat /\ k \in Nat
        /\ Len(lines) = Len(before) + k + Len(after)
        /\ \A i \in 1..Len(after) : lines[Len(before) + k + i] = after[i]
    BY ONLY Shaped(lines, before, k, after), PartsOfShape
  <2>2. /\ Len(before) \in Nat /\ Len(after) \in Nat /\ g \in Nat
        /\ Len(others) = Len(before) + g + Len(after)
        /\ \A i \in 1..Len(after) : others[Len(before) + g + i] = after[i]
    BY ONLY Shaped(others, before, g, after), PartsOfShape
  <2> QED BY <2>1, <2>2
<1>2. /\ \A i \in 1..n : h[i] = Notice(h[i - 1], lines[i], rows)
      /\ \A i \in 1..l : e[i] = Notice(e[i - 1], others[i], rows)
      /\ OfOthers(lines, rows) = h[n] /\ OfOthers(others, rows) = e[l]
  BY DEF ViewsBy
<1>3. Same(h[q + k], e[q + g], all)
  OBVIOUS
<1> HIDE DEF q, m, n, l
<1> DEFINE S(i) == Same(h[q + k + i], e[q + g + i], all)
           P == {i \in Nat : i <= m => S(i)}
<1>4. 0 \in P
  <2>1. q + k + 0 = q + k /\ q + g + 0 = q + g
    BY <1>1
  <2> QED BY <1>3, <2>1
<1>5. ASSUME NEW i \in Nat, i \in P PROVE i + 1 \in P
  <2> SUFFICES ASSUME i + 1 <= m PROVE Same(h[q + k + (i + 1)], e[q + g + (i + 1)], all)
    OBVIOUS
  <2> DEFINE x == h[q + k + i]
             z == e[q + g + i]
             y == after[i + 1]
  <2>1. /\ i + 1 \in 1..m /\ q + k + (i + 1) \in 1..n /\ q + g + (i + 1) \in 1..l
        /\ (q + k + (i + 1)) - 1 = q + k + i /\ (q + g + (i + 1)) - 1 = q + g + i
    BY <1>1
  <2>2. Same(x, z, all)
    <3>1. i <= m
      BY <1>1
    <3>2. S(i)
      <4> HIDE DEF S
      <4> QED BY <1>5, <3>1
    <3> QED BY <3>2
  <2>3. /\ h[q + k + (i + 1)] = Notice(x, y, rows)
        /\ e[q + g + (i + 1)] = Notice(z, y, rows)
    BY <1>1, <1>2, <2>1
  <2> HIDE DEF x, z, y, P
  <2>4. Same(Notice(x, y, rows), Notice(z, y, rows), all)
    <3>1. /\ Notice(x, y, rows).remarks = Notice(z, y, rows).remarks
          /\ Notice(x, y, rows).pairs = Notice(z, y, rows).pairs
      BY <2>2 DEF Same, Notice
    <3>2. all => Notice(x, y, rows) = Notice(z, y, rows)
      BY <2>2 DEF Same
    <3> QED BY <3>1, <3>2 DEF Same
  <2> QED BY <2>3, <2>4
<1>6. Same(h[q + k + m], e[q + g + m], all)
  <2>1. Nat \subseteq P
    <3> HIDE DEF P
    <3> QED BY <1>4, <1>5, NatSet
  <2> QED BY <1>1, <2>1
<1> QED BY <1>1, <1>2, <1>6

LEMMA SeenAround ==
  ASSUME NEW lines, NEW c, NEW rows, Calm(lines, c, rows),
         NEW before, NEW k, NEW after, Shaped(lines, before, k, after),
         NEW others, NEW g, Shaped(others, before, g, after), Len(before) > 0 => g > 0
  PROVE  Same(OfOthers(lines, rows), OfOthers(others, rows), c[Len(before) + k] # Blank)
<1> DEFINE q == Len(before)
           m == Len(after)
           all == c[q + k] # Blank
<1>1. /\ q \in Nat /\ m \in Nat /\ k \in Nat /\ g \in Nat
      /\ lines \in Seq(Lines) /\ others \in Seq(Lines)
      /\ Len(lines) = q + k + m /\ Len(others) = q + g + m
      /\ \A i \in 1..q : lines[i] = others[i]
      /\ \A i \in 1..k : lines[q + i] = Blank
      /\ \A i \in 1..g : others[q + i] = Blank
      /\ q > 0 => g > 0
  BY DEF Shaped, Plain
<1>2. PICK h : ViewsBy(h, lines, rows)
  BY <1>1, ViewRuns
<1>3. PICK e : ViewsBy(e, others, rows)
  BY <1>1, ViewRuns
<1> HIDE DEF q, m
<1>4. /\ q <= Len(lines) /\ q <= Len(others) /\ Len(lines) \in Nat /\ Len(others) \in Nat
      /\ q + k <= Len(lines) /\ q + g <= Len(others)
      /\ q \in 0..Len(lines) /\ q + k \in 0..Len(lines)
      /\ q \in 0..Len(others) /\ q + g \in 0..Len(others)
  BY <1>1
<1>5. h[q] = e[q]
  BY <1>1, <1>2, <1>3, <1>4, SeenAlike
<1>6. /\ h[q + k].remarks = h[q].remarks /\ h[q + k].pairs = h[q].pairs
      /\ h[q + k].inBlocks = h[q].inBlocks
  BY <1>1, <1>2, <1>4, BlanksUnseen
<1>7. /\ e[q + g].remarks = e[q].remarks /\ e[q + g].pairs = e[q].pairs
      /\ e[q + g].inBlocks = e[q].inBlocks
  BY <1>1, <1>3, <1>4, BlanksUnseen
<1>8. ASSUME all PROVE h[q + k] = e[q + g]
  <2>1. h[q + k] \in Views /\ e[q + g] \in Views
    BY <1>2, <1>3, <1>4 DEF ViewsBy
  <2>2. PICK d : Calm(others, d, rows)
    BY <1>1, <1>8, CalmAround DEF q
  <2>3. /\ h[q].closing = c[q] /\ h[q + k].closing = c[q + k]
        /\ e[q].closing = d[q] /\ e[q + g].closing = d[q + g]
    BY <1>2, <1>3, <1>4, <2>2, ClosingIsSeen
  <2>4. ClosedByBlanks(c, q, k) /\ ClosedByBlanks(d, q, g)
    BY <1>1, <1>4, <2>2, BlanksClose
  <2>5. k \in 0..k /\ g \in 0..g /\ q + 0 = q
    BY <1>1
  <2>6. /\ c[q + k] = IF k = 0 \/ c[q] # Blank THEN c[q] ELSE Note
        /\ d[q + g] = IF g = 0 \/ d[q] # Blank THEN d[q] ELSE Note
    BY <2>4, <2>5 DEF ClosedByBlanks
  <2>7. d[q] = c[q]
    BY <1>5, <2>3
  <2>8. c[q] = Blank => q > 0
    <3>1. c[0] = Note
      BY DEF Calm
    <3> QED BY <1>1, <3>1, MarksDiffer
  <2>9. c[q + k] = d[q + g]
    <3>1. CASE c[q] # Blank
      BY <2>6, <2>7, <3>1
    <3>2. CASE c[q] = Blank
      <4>1. k # 0
        BY <1>8, <2>5, <3>2
      <4>2. g # 0
        BY <1>1, <2>8, <3>2
      <4> QED BY <2>6, <2>7, <3>2, <4>1, <4>2
    <3> QED BY <3>1, <3>2
  <2>10. h[q + k].closing = e[q + g].closing
    BY <2>3, <2>9
  <2> QED BY <1>5, <1>6, <1>7, <2>1, <2>10 DEF Views
<1>9. Same(h[q + k], e[q + g], all)
  BY <1>5, <1>6, <1>7, <1>8 DEF Same
<1>10. all \in BOOLEAN
  OBVIOUS
<1> HIDE DEF all
<1>11. Same(OfOthers(lines, rows), OfOthers(others, rows), all)
  BY <1>2, <1>3, <1>9, <1>10, SeenBehind DEF q
<1> QED BY <1>11 DEF all, q

(* What is seen in the file that an apply leaves.                          *)
LEMMA SpacedIsSeen ==
  ASSUME NEW lines \in Seq(Lines), NEW rows \in Rows
  PROVE  LET old == OfOthers(RemoveBlock(lines), rows)
             new == OfOthers(RemoveBlock(Spaced(lines, rows)), rows)
         IN  Same(new, old, ~Disturbs(lines, rows))
<1> DEFINE old == RemoveBlock(lines)
           rest == DropConflicting(old, rows)
<1>1. old \in Seq(Plain)
  BY BlockIsRemoved
<1>2. rest \in Seq(Plain) /\ \E c : Calm(rest, c, rows)
  BY <1>1, ConflictsAreDropped, DropIsCalm
<1>3. OfOthers(rest, rows) = OfOthers(old, rows)
  <2> HIDE DEF old
  <2> QED BY <1>1, DropKeepsView
<1>4. Spaced(lines, rows) = Inserted(rest, rows)
  BY DEF Spaced, KeptLines
<1>5. Disturbs(lines, rows) <=> InTelegrams(rest)
  BY DEF Disturbs
<1> HIDE DEF rest, old
<1>6. PICK c : Calm(rest, c, rows)
  BY <1>2
<1>7. CASE rows = <<>>
  <2>1. Inserted(rest, rows) = rest
    BY <1>7 DEF Inserted, InsertBlock
  <2>2. RemoveBlock(rest) = rest
    BY <1>2, PlainStays
  <2> QED BY <1>3, <1>4, <2>1, <2>2 DEF Same, old
<1>8. CASE rows # <<>>
  <2>1. PICK before, k, after, others, g :
            Detours(rest, c, rows, before, k, after, others, g)
    BY <1>2, <1>6, <1>8, InsertedAndRemoved
  <2>2. Same(OfOthers(rest, rows), OfOthers(others, rows), c[Len(before) + k] # Blank)
    BY <1>6, <2>1, SeenAround DEF Detours
  <2> QED BY <1>3, <1>4, <1>5, <2>1, <2>2 DEF Same, Detours, old
<1> QED BY <1>7, <1>8

-----------------------------------------------------------------------------
(* The block behind a last line without a line end.                        *)
Glued(lines, rows) == lines \o <<BeginMark, Note>> \o RowLines(rows) \o <<EndMark>>

Sticky(lines, rows, end) ==
    /\ rows # <<>> /\ Unended(lines, rows, end)
    /\ NoMapping(KeptLines(lines, rows)) /\ Last(KeptLines(lines, rows)) # Blank

LEMMA GluedEncloses ==
  ASSUME NEW lines \in Seq(Plain), NEW rows \in Rows
  PROVE  Encloses(Glued(lines, rows), lines, rows, <<>>)
<1> DEFINE maps == RowLines(rows)
           whole == ((lines \o <<BeginMark, Note>>) \o maps) \o <<EndMark>>
<1>1. maps = [i \in DOMAIN rows |-> Map(rows[i][2], <<rows[i][1]>>)]
  BY DEF RowLines
<1>2. <<>> \in Seq(Plain)
  OBVIOUS
<1>3. Encloses(whole \o <<>>, lines, rows, <<>>)
  <2> HIDE DEF maps
  <2> QED BY <1>1, <1>2, BlockIsPlaced
<1>4. whole \in Seq(Lines)
  <2>1. \A j \in DOMAIN rows : Map(rows[j][2], <<rows[j][1]>>) \in Lines
    <3>1. \A j \in DOMAIN rows : rows[j] \in OneRow
      BY DEF Rows, OneRow
    <3> QED BY <3>1, LineOfRow
  <2>2. maps \in Seq(Lines)
    <3>1. DOMAIN rows = 1..Len(rows) /\ Len(rows) \in Nat
      BY DEF Rows
    <3> QED BY <2>1, <3>1 DEF RowLines
  <2>3. <<BeginMark, Note>> \in Seq(Lines) /\ <<EndMark>> \in Seq(Lines)
    <3>1. Note \in Plain /\ EndMark \in Plain /\ BeginMark \in Lines
      BY LinesAreTyped
    <3>2. Note \in Lines /\ EndMark \in Lines /\ BeginMark \in Lines
      BY <3>1 DEF Plain
    <3> QED BY <3>2
  <2>4. lines \in Seq(Lines)
    BY DEF Plain
  <2> HIDE DEF maps
  <2> QED BY <2>2, <2>3, <2>4
<1>5. whole \o <<>> = whole
  <2> HIDE DEF whole
  <2> QED BY <1>4
<1> QED BY <1>3, <1>5 DEF Glued

(* What is put behind the last line is the block alone, or with its gaps.  *)
LEMMA InsertsEither ==
  ASSUME NEW lines \in Seq(Plain), NEW rows \in Rows, NEW open \in BOOLEAN
  PROVE  InsertBlock(lines, rows, open)
           = IF rows # <<>> /\ open /\ lines # <<>> /\ NoMapping(lines) /\ Last(lines) # Blank
             THEN Glued(lines, rows) ELSE Inserted(lines, rows)
<1>1. CASE rows = <<>>
  BY <1>1 DEF Inserted, InsertBlock
<1>2. CASE ~open
  BY <1>2 DEF Inserted, InsertBlock
<1>3. CASE rows # <<>> /\ open
  <2>1. PICK before, k, after : Shaped(lines, before, k, after)
    BY ShapeExists
  <2> DEFINE at == FirstMapping(lines)
             head == TrimEnd(SubSeq(lines, 1, at - 1))
             tail == TrimStart(SubSeq(lines, at, Len(lines)))
             gap == IF head = <<>> \/ head = lines THEN <<>> ELSE <<Blank>>
  <2>2. head = before /\ tail = after
    BY <2>1, TrimmedAround
  <2>3. at = Len(before) + k + 1
    BY <2>1, PlaceOfBlock
  <2>4. /\ Len(before) \in Nat /\ Len(after) \in Nat /\ k \in Nat
        /\ before \in Seq(Plain) /\ after \in Seq(Plain)
        /\ Len(lines) = Len(before) + k + Len(after)
        /\ \A i \in 1..Len(before) : lines[i] = before[i]
        /\ \A i \in 1..k : lines[Len(before) + i] = Blank
        /\ Len(before) > 0 => before[Len(before)] # Blank
    BY <2>1 DEF Shaped
  <2>5. InsertBlock(lines, rows, open)
          = head \o gap \o <<BeginMark, Note>> \o RowLines(rows) \o <<EndMark>> \o Gap(tail) \o tail
    BY <1>3 DEF InsertBlock, Gap, RowLines
  <2>6. Inserted(lines, rows)
          = head \o Gap(head) \o <<BeginMark, Note>> \o RowLines(rows) \o <<EndMark>> \o Gap(tail) \o tail
    BY <1>3 DEF Inserted, InsertBlock, Gap, RowLines
  <2> HIDE DEF head, tail, at
  <2>7. CASE before = lines /\ lines # <<>>
    <3>1. Len(after) = 0 /\ k = 0 /\ Len(lines) > 0
      BY <2>4, <2>7
    <3>2. after = <<>> /\ NoMapping(lines) /\ Last(lines) # Blank
      BY <2>3, <2>4, <2>7, <3>1 DEF at, NoMapping, Last
    <3>3. Encloses(Glued(lines, rows), lines, rows, <<>>)
      BY GluedEncloses
    <3>4. Glued(lines, rows) \in Seq(Lines)
      BY <3>3 DEF Encloses, HasBlock
    <3>5. lines \o <<>> = lines
      OBVIOUS
    <3>6. Gap(tail) = <<>> /\ tail = <<>> /\ head = lines
      BY <2>2, <2>7, <3>2 DEF Gap
    <3>7. gap = <<>>
      BY <3>6
    <3> HIDE DEF gap
    <3>8. InsertBlock(lines, rows, open) = (Glued(lines, rows) \o <<>>) \o <<>>
      BY <2>5, <3>5, <3>6, <3>7 DEF Glued
    <3>9. (Glued(lines, rows) \o <<>>) \o <<>> = Glued(lines, rows)
      <4> DEFINE g == Glued(lines, rows)
      <4>1. g \in Seq(Lines)
        BY <3>4
      <4> HIDE DEF g
      <4>2. g \o <<>> = g
        BY <4>1
      <4> QED BY <4>2 DEF g
    <3> QED BY <1>3, <2>7, <3>2, <3>8, <3>9
  <2>8. CASE before # lines \/ lines = <<>>
    <3>1. ASSUME lines # <<>>, NoMapping(lines), Last(lines) # Blank PROVE FALSE
      <4>1. Len(after) = 0
        BY <2>3, <2>4, <3>1 DEF at, NoMapping
      <4>2. Len(lines) = Len(before) + k /\ Len(lines) > 0
        BY <2>4, <3>1, <4>1
      <4>3. k = 0
        <5> SUFFICES ASSUME k > 0 PROVE FALSE
          BY <2>4
        <5>1. lines[Len(before) + k] = Blank
          BY <2>4
        <5> QED BY <3>1, <4>2, <5>1 DEF Last
      <4>4. before = lines
        BY <2>4, <4>2, <4>3, SeqEqual
      <4> QED BY <2>8, <3>1, <4>4
    <3>2. gap = Gap(head)
      BY <2>2, <2>8 DEF Gap
    <3> HIDE DEF gap
    <3>3. InsertBlock(lines, rows, open) = Inserted(lines, rows)
      BY <2>5, <2>6, <3>2
    <3> QED BY <3>1, <3>3
  <2> QED BY <2>7, <2>8
<1> QED BY <1>1, <1>2, <1>3

LEMMA KeptArePlain ==
  ASSUME NEW lines \in Seq(Lines), NEW rows
  PROVE  KeptLines(lines, rows) \in Seq(Plain)
BY BlockIsRemoved, ConflictsAreDropped DEF KeptLines

LEMMA RebuiltEither ==
  ASSUME NEW lines \in Seq(Lines), NEW rows \in Rows, NEW end \in BOOLEAN
  PROVE  Rebuilt(lines, rows, end)
           = IF Sticky(lines, rows, end) THEN Glued(KeptLines(lines, rows), rows)
             ELSE Spaced(lines, rows)
<1> DEFINE K == KeptLines(lines, rows)
           open == Unended(lines, rows, end)
<1>1. K \in Seq(Plain)
  BY KeptArePlain
<1>2. open \in BOOLEAN
  BY DEF Unended
<1>3. open => K # <<>>
  <2> SUFFICES ASSUME open PROVE K # <<>>
    OBVIOUS
  <2>1. K = Append(KeptLines(Front(lines), rows), Last(lines)) /\ lines # <<>>
    BY DEF Unended
  <2>2. Front(lines) \in Seq(Lines) /\ Last(lines) \in Lines
    BY <2>1 DEF Front, Last
  <2>3. KeptLines(Front(lines), rows) \in Seq(Lines)
    BY <2>2, KeptArePlain DEF Plain
  <2> HIDE DEF K
  <2> QED BY <2>1, <2>2, <2>3
<1>4. Rebuilt(lines, rows, end) = InsertBlock(K, rows, open)
  BY DEF Rebuilt
<1>5. Sticky(lines, rows, end) <=> rows # <<>> /\ open /\ K # <<>> /\ NoMapping(K) /\ Last(K) # Blank
  BY <1>3 DEF Sticky
<1>6. Spaced(lines, rows) = Inserted(K, rows)
  BY DEF Spaced
<1> HIDE DEF K, open
<1>7. InsertBlock(K, rows, open)
        = IF rows # <<>> /\ open /\ K # <<>> /\ NoMapping(K) /\ Last(K) # Blank
          THEN Glued(K, rows) ELSE Inserted(K, rows)
  BY <1>1, <1>2, InsertsEither
<1>8. CASE Sticky(lines, rows, end)
  <2>1. InsertBlock(K, rows, open) = Glued(K, rows)
    BY <1>5, <1>7, <1>8
  <2> QED BY <1>4, <1>8, <2>1 DEF K
<1>9. CASE ~Sticky(lines, rows, end)
  <2>1. InsertBlock(K, rows, open) = Inserted(K, rows)
    BY <1>5, <1>7, <1>9
  <2> QED BY <1>4, <1>6, <1>9, <2>1
<1> QED BY <1>8, <1>9

(* Of the file that the block sticks to the lines are left, and rebuilding *)
(* it puts the blank line in between.                                      *)
LEMMA GluedIsCut ==
  ASSUME NEW lines \in Seq(Lines), NEW rows \in Rows
  PROVE  LET K == KeptLines(lines, rows)
         IN  /\ RemoveBlock(Glued(K, rows)) = K
             /\ KeptLines(Glued(K, rows), rows) = K
<1> DEFINE K == KeptLines(lines, rows)
           g == Glued(K, rows)
<1>1. RemoveBlock(lines) \in Seq(Plain)
  BY BlockIsRemoved
<1>2. K \in Seq(Plain) /\ \E c : Calm(K, c, rows)
  BY <1>1, ConflictsAreDropped, DropIsCalm DEF KeptLines
<1> HIDE DEF K
<1>3. Encloses(g, K, rows, <<>>)
  BY <1>2, GluedEncloses
<1> HIDE DEF g
<1>4. RemoveBlock(g) = K \o <<>>
  <2>1. <<>> \in Seq(Plain)
    OBVIOUS
  <2> QED BY <1>2, <1>3, <2>1, EnclosedIsCut
<1>5. K \o <<>> = K
  BY <1>2
<1>6. RemoveBlock(g) = K
  BY <1>4, <1>5
<1>7. DropConflicting(K, rows) = K
  BY <1>2, DropLeavesCalm
<1> QED BY <1>6, <1>7 DEF g, K, KeptLines

LEMMA RebuiltIsSeen ==
  ASSUME NEW lines \in Seq(Lines), NEW rows \in Rows, NEW end \in BOOLEAN
  PROVE  LET old == OfOthers(RemoveBlock(lines), rows)
             new == OfOthers(RemoveBlock(Rebuilt(lines, rows, end)), rows)
         IN  Same(new, old, ~Disturbs(lines, rows))
<1> DEFINE K == KeptLines(lines, rows)
<1>1. CASE Sticky(lines, rows, end)
  <2>1. Rebuilt(lines, rows, end) = Glued(K, rows)
    BY <1>1, RebuiltEither
  <2>2. RemoveBlock(Rebuilt(lines, rows, end)) = K
    BY <2>1, GluedIsCut
  <2>3. RemoveBlock(lines) \in Seq(Plain)
    BY BlockIsRemoved
  <2>4. OfOthers(K, rows) = OfOthers(RemoveBlock(lines), rows)
    BY <2>3, DropKeepsView DEF KeptLines
  <2> HIDE DEF K
  <2> QED BY <2>2, <2>4 DEF Same
<1>2. CASE ~Sticky(lines, rows, end)
  <2>1. Rebuilt(lines, rows, end) = Spaced(lines, rows)
    BY <1>2, RebuiltEither
  <2> QED BY <2>1, SpacedIsSeen
<1> QED BY <1>1, <1>2

-----------------------------------------------------------------------------
(* The lines outside the blocks are those that the removal leaves.         *)

(* What Bounded gives: all blocks before are whole, one behind is not.     *)
Bounds(lines, u) ==
    /\ u \in Nat /\ u <= Len(lines)
    /\ \A b \in 1..u : lines[b] = BeginMark => \E e \in b..Len(lines) : lines[e] = EndMark
    /\ u < Len(lines) => /\ lines[u + 1] = BeginMark
                         /\ \A e \in u + 1..Len(lines) : lines[e] # EndMark

LEMMA BoundedAt ==
  ASSUME NEW lines \in Seq(Lines)
  PROVE  Bounds(lines, Bounded(lines))
<1> DEFINE n == Len(lines)
           U == {b \in DOMAIN lines : lines[b] = BeginMark /\ \A e \in b..n : lines[e] # EndMark}
           S == {n + 1} \cup U
<1>1. n \in Nat /\ DOMAIN lines = 1..n
  OBVIOUS
<1>2. S \in SUBSET Nat /\ S # {} /\ \A b \in S : b \in 1..n + 1
  BY <1>1
<1>3. PICK m \in S : \A y \in S : m <= y
  BY <1>2, LeastNatural
<1>4. Min(S) = m
  BY <1>2, <1>3, LeastOne
<1>5. Bounded(lines) = m - 1 /\ m \in 1..n + 1
  BY <1>2, <1>4 DEF Bounded
<1>6. \A b \in 1..m - 1 : lines[b] = BeginMark => \E e \in b..n : lines[e] = EndMark
  <2> SUFFICES ASSUME NEW b \in 1..m - 1, lines[b] = BeginMark
               PROVE  \E e \in b..n : lines[e] = EndMark
    OBVIOUS
  <2>1. b \in 1..n /\ ~(m <= b)
    BY <1>1, <1>5
  <2>2. b \notin U
    BY <1>3, <2>1
  <2> QED BY <1>1, <2>1, <2>2
<1>7. m - 1 < n => lines[m] = BeginMark /\ \A e \in m..n : lines[e] # EndMark
  <2> SUFFICES ASSUME m - 1 < n PROVE m \in U
    OBVIOUS
  <2> QED BY <1>1, <1>3, <1>5
<1>8. (m - 1) + 1 = m /\ m - 1 \in Nat /\ m - 1 <= n
  BY <1>1, <1>5
<1> HIDE DEF U, S
<1> QED BY <1>5, <1>6, <1>7, <1>8 DEF Bounds

AddsBy(h, lines, u) ==
    /\ h \in [0..u -> Seq(Lines)] /\ h[0] = <<>>
    /\ \A i \in 1..u : h[i] = AddForeign(h[i - 1], lines, i)
    /\ Foreign(lines) = h[u]

LEMMA ForeignRuns ==
  ASSUME NEW lines \in Seq(Lines)
  PROVE  \E h : AddsBy(h, lines, Bounded(lines))
<1> DEFINE n == Bounded(lines)
           A == 1..n
           S == Seq(Lines)
           b == <<>>
           s == [i \in 1..n |-> i]
           g == [p \in S \X A |-> AddForeign(p[1], lines, p[2])]
           Turn(f) == [t \in SUBSET (DOMAIN s) |->
                         IF t = {} THEN b ELSE AddForeign(f[t \ {Max(t)}], lines, s[Max(t)])]
           c == CHOOSE f : f = Turn(f)
<1>1. n \in Nat /\ n <= Len(lines)
  BY BoundedAt DEF Bounds
<1> HIDE DEF n
<1>2. /\ DOMAIN s = 1..n /\ \A i \in 1..n : s[i] \in A /\ s[i] = i
      /\ b \in S /\ \A x \in S, i \in A : AddForeign(x, lines, i) \in S
  <2>1. DOMAIN s = 1..n /\ \A i \in 1..n : s[i] \in A /\ s[i] = i
    BY <1>1
  <2>2. \A i \in A : lines[i] \in Lines
    BY <1>1
  <2> QED BY <2>1, <2>2 DEF AddForeign
<1>3. Foreign(lines) = c[DOMAIN s]
  BY DEF Foreign, FoldLeft, MapThenFoldSet, n
<1> HIDE DEF s, b, S, A
<1>4. g \in [S \X A -> S] /\ \A x \in S, y \in A : g[<<x, y>>] = AddForeign(x, lines, y)
  BY <1>2
<1> HIDE DEF g
<1>5. Steps(S, A, g, b, s, n)
  BY <1>1, <1>2, <1>4 DEF Steps
<1>6. \A t \in SUBSET (1..n) : t # {} => s[Max(t)] \in A
  BY <1>1, <1>2, GreatestIs
<1>7. PICK f : Iterates(f, S, g, b, s, n)
  <2> HIDE DEF c, Turn
  <2> QED BY <1>5, IterExists
<1>8. f = Turn(f)
  <2>1. \A t \in SUBSET (1..n) :
            f[t] = IF t = {} THEN b ELSE AddForeign(f[t \ {Max(t)}], lines, s[Max(t)])
    BY <1>4, <1>6, <1>7 DEF Iterates
  <2> QED BY <1>2, <1>7, <2>1 DEF Iterates
<1>9. c = Turn(c)
  <2> HIDE DEF Turn
  <2> QED BY <1>8
<1>10. FoldsBy(c, S, g, b, s, n)
  <2> HIDE DEF c
  <2>1. DOMAIN s = 1..n
    BY <1>2
  <2> QED BY <1>4, <1>6, <1>9, <2>1 DEF FoldsBy
<1> HIDE DEF c
<1>11. PICK h : RunsTo(h, S, g, b, s, n, c[1..n])
  BY <1>5, <1>10, RunOfIter
<1>12. \A i \in 1..n : h[i] = AddForeign(h[i - 1], lines, i)
  <2>1. n \in Nat /\ h \in [0..n -> S] /\ \A i \in 1..n : h[i] = g[<<h[i - 1], s[i]>>]
    BY <1>1, <1>11 DEF RunsTo
  <2>2. \A i \in 1..n : i - 1 \in 0..n
    BY <2>1
  <2>3. \A i \in 1..n : h[i - 1] \in S /\ s[i] \in A /\ s[i] = i
    BY <1>2, <2>1, <2>2
  <2> QED BY <1>4, <2>1, <2>3
<1>13. AddsBy(h, lines, n)
  BY <1>2, <1>3, <1>11, <1>12 DEF RunsTo, AddsBy, b, S
<1> QED BY <1>13 DEF n

(* A block is open after line i.                                           *)
Inside(lines, i) ==
    \E b \in 1..i : lines[b] = BeginMark /\ \A j \in b..i : lines[j] # EndMark

LEMMA InsideAhead ==
  ASSUME NEW lines \in Seq(Lines), NEW u, Bounds(lines, u), NEW i \in Nat, i + 1 <= u
  PROVE  /\ InBlock(lines, i + 1) <=> lines[i + 1] = BeginMark \/ Inside(lines, i)
         /\ Inside(lines, i + 1)
              <=> lines[i + 1] = BeginMark \/ (Inside(lines, i) /\ lines[i + 1] # EndMark)
<1> DEFINE n == Len(lines)
<1>1. n \in Nat /\ u \in Nat /\ u <= n /\ i \in 1..i + 1 \cup {0}
  BY DEF Bounds
<1>2. BeginMark # EndMark
  BY LinesAreTyped DEF Plain
<1>3. ASSUME NEW b \in 1..i + 1, lines[b] = BeginMark, \A j \in b..i : lines[j] # EndMark
      PROVE  InBlock(lines, i + 1)
  <2> DEFINE E == {e \in b..n : lines[e] = EndMark}
  <2>1. b \in 1..u /\ E \in SUBSET Nat /\ E # {}
    BY <1>1, <1>3 DEF Bounds
  <2>2. PICK e \in E : \A y \in E : e <= y
    BY <2>1, LeastNatural
  <2>3. e \in i + 1..n /\ lines[e] = EndMark
    BY <1>1, <1>3, <2>2
  <2>4. \A j \in b..e - 1 : lines[j] # EndMark
    BY <1>1, <2>2
  <2> QED BY <1>3, <2>3, <2>4 DEF InBlock
<1>4. lines[i + 1] = BeginMark => InBlock(lines, i + 1)
  <2> SUFFICES ASSUME lines[i + 1] = BeginMark PROVE InBlock(lines, i + 1)
    OBVIOUS
  <2>1. i + 1 \in 1..i + 1 /\ \A j \in i + 1..i : FALSE
    BY <1>1
  <2> QED BY <1>3, <2>1
<1>5. Inside(lines, i) => InBlock(lines, i + 1)
  <2> SUFFICES ASSUME Inside(lines, i) PROVE InBlock(lines, i + 1)
    OBVIOUS
  <2>1. PICK b \in 1..i : lines[b] = BeginMark /\ \A j \in b..i : lines[j] # EndMark
    BY DEF Inside
  <2>2. b \in 1..i + 1
    BY <1>1
  <2> QED BY <1>3, <2>1, <2>2
<1>6. InBlock(lines, i + 1) => lines[i + 1] = BeginMark \/ Inside(lines, i)
  <2> SUFFICES ASSUME InBlock(lines, i + 1), lines[i + 1] # BeginMark PROVE Inside(lines, i)
    OBVIOUS
  <2>1. PICK b \in {j \in 1..i + 1 : lines[j] = BeginMark}, e \in i + 1..n :
            lines[e] = EndMark /\ \A j \in b..e - 1 : lines[j] # EndMark
    BY DEF InBlock
  <2>2. b \in 1..i /\ \A j \in b..i : j \in b..e - 1
    BY <1>1, <2>1
  <2> QED BY <2>1, <2>2 DEF Inside
<1>7. lines[i + 1] = BeginMark => Inside(lines, i + 1)
  <2> SUFFICES ASSUME lines[i + 1] = BeginMark PROVE Inside(lines, i + 1)
    OBVIOUS
  <2>1. i + 1 \in 1..i + 1 /\ \A j \in i + 1..i + 1 : j = i + 1
    BY <1>1
  <2> QED BY <1>2, <2>1 DEF Inside
<1>8. Inside(lines, i) /\ lines[i + 1] # EndMark => Inside(lines, i + 1)
  <2> SUFFICES ASSUME Inside(lines, i), lines[i + 1] # EndMark PROVE Inside(lines, i + 1)
    OBVIOUS
  <2>1. PICK b \in 1..i : lines[b] = BeginMark /\ \A j \in b..i : lines[j] # EndMark
    BY DEF Inside
  <2>2. b \in 1..i + 1 /\ \A j \in b..i + 1 : j \in b..i \/ j = i + 1
    BY <1>1
  <2> QED BY <2>1, <2>2 DEF Inside
<1>9. Inside(lines, i + 1)
        => lines[i + 1] = BeginMark \/ (Inside(lines, i) /\ lines[i + 1] # EndMark)
  <2> SUFFICES ASSUME Inside(lines, i + 1), lines[i + 1] # BeginMark
               PROVE  Inside(lines, i) /\ lines[i + 1] # EndMark
    OBVIOUS
  <2>1. PICK b \in 1..i + 1 : lines[b] = BeginMark /\ \A j \in b..i + 1 : lines[j] # EndMark
    BY DEF Inside
  <2>2. b \in 1..i /\ i + 1 \in b..i + 1 /\ \A j \in b..i : j \in b..i + 1
    BY <1>1, <2>1
  <2> QED BY <2>1, <2>2 DEF Inside
<1> QED BY <1>4, <1>5, <1>6, <1>7, <1>8, <1>9

LEMMA ForeignIsLeft ==
  ASSUME NEW lines \in Seq(Lines)
  PROVE  RemoveBlock(lines) = Foreign(lines)
<1> DEFINE n == Len(lines)
           u == Bounded(lines)
           S == [out : Seq(Lines), inside : BOOLEAN]
<1>1. Bounds(lines, u) /\ n \in Nat /\ u \in Nat /\ u <= n
  BY BoundedAt DEF Bounds
<1>2. NothingRemoved \in S /\ \A x \in S, y \in Lines : SkipBlock(x, y) \in S
  <2>1. NothingRemoved \in S
    BY DEF NothingRemoved
  <2> QED BY <2>1, SkipIsTyped
<1> HIDE DEF S
<1>3. PICK h \in [0..n -> S] :
            /\ h[0] = NothingRemoved
            /\ \A i \in 1..n : h[i] = SkipBlock(h[i - 1], lines[i])
            /\ RemoveBlock(lines) = h[n].out
  BY <1>2, SkipRuns
<1>4. PICK f : AddsBy(f, lines, u)
  BY ForeignRuns
<1> HIDE DEF n, u
<1>5. /\ f[0] = <<>> /\ Foreign(lines) = f[u]
      /\ \A i \in 1..u : f[i] = AddForeign(f[i - 1], lines, i)
  BY <1>4 DEF AddsBy
<1>6. \A i \in 0..n : h[i].inside \in BOOLEAN /\ h[i] = [out |-> h[i].out, inside |-> h[i].inside]
  BY <1>3 DEF S
<1> DEFINE P == {i \in Nat : i <= u => h[i].out = f[i] /\ (h[i].inside <=> Inside(lines, i))}
<1>7. 0 \in P
  <2>1. ~Inside(lines, 0)
    BY DEF Inside
  <2> QED BY <1>3, <1>5, <2>1 DEF NothingRemoved
<1>8. ASSUME NEW i \in Nat, i \in P PROVE i + 1 \in P
  <2> SUFFICES ASSUME i + 1 <= u
               PROVE  /\ h[i + 1].out = f[i + 1]
                      /\ h[i + 1].inside <=> Inside(lines, i + 1)
    OBVIOUS
  <2>1. i + 1 \in 1..u /\ i + 1 \in 1..n /\ (i + 1) - 1 = i /\ i <= u /\ i \in 0..n
    BY <1>1
  <2>2. /\ h[i + 1] = SkipBlock(h[i], lines[i + 1]) /\ h[i].out = f[i]
        /\ h[i].inside <=> Inside(lines, i)
    BY <1>3, <1>8, <2>1
  <2>3. f[i + 1] = IF InBlock(lines, i + 1) THEN f[i] ELSE Append(f[i], lines[i + 1])
    BY <1>5, <2>1 DEF AddForeign
  <2>4. /\ InBlock(lines, i + 1) <=> lines[i + 1] = BeginMark \/ Inside(lines, i)
        /\ Inside(lines, i + 1)
             <=> lines[i + 1] = BeginMark \/ (Inside(lines, i) /\ lines[i + 1] # EndMark)
    BY <1>1, <2>1, InsideAhead
  <2>5. h[i] = [out |-> h[i].out, inside |-> h[i].inside] /\ h[i].inside \in BOOLEAN
    BY <1>6, <2>1
  <2>6. CASE lines[i + 1] = BeginMark
    <3>1. h[i + 1] = [out |-> h[i].out, inside |-> TRUE]
      BY <2>2, <2>5, <2>6 DEF SkipBlock
    <3> QED BY <2>2, <2>3, <2>4, <2>6, <3>1
  <2>7. CASE lines[i + 1] # BeginMark /\ h[i].inside
    <3>1. h[i].inside = TRUE /\ h[i] = [out |-> h[i].out, inside |-> TRUE]
      BY <2>5, <2>7
    <3>2. h[i + 1].out = f[i] /\ (h[i + 1].inside <=> lines[i + 1] # EndMark)
      <4>1. CASE lines[i + 1] = EndMark
        <5>1. SkipBlock([out |-> h[i].out, inside |-> TRUE], EndMark)
                = [out |-> h[i].out, inside |-> FALSE]
          BY <2>7, SkipSteps
        <5>2. h[i + 1] = [out |-> h[i].out, inside |-> FALSE]
          BY <2>2, <3>1, <4>1, <5>1
        <5> QED BY <2>2, <4>1, <5>2
      <4>2. CASE lines[i + 1] # EndMark
        <5>1. h[i + 1] = [out |-> h[i].out, inside |-> TRUE]
          BY <2>2, <2>7, <3>1, <4>2, SkipSteps
        <5> QED BY <2>2, <4>2, <5>1
      <4> QED BY <4>1, <4>2
    <3> QED BY <2>2, <2>3, <2>4, <2>7, <3>2
  <2>8. CASE lines[i + 1] # BeginMark /\ ~h[i].inside
    <3>1. h[i + 1] = [out |-> Append(h[i].out, lines[i + 1]), inside |-> FALSE]
      BY <2>2, <2>5, <2>8 DEF SkipBlock
    <3>2. h[i + 1].out = Append(f[i], lines[i + 1]) /\ h[i + 1].inside = FALSE
      BY <2>2, <3>1
    <3> QED BY <2>2, <2>3, <2>4, <2>8, <3>2
  <2> QED BY <2>5, <2>6, <2>7, <2>8
<1>9. h[u].out = f[u]
  <2>1. Nat \subseteq P
    <3> HIDE DEF P
    <3> QED BY <1>7, <1>8, NatSet
  <2> QED BY <1>1, <2>1
<1> HIDE DEF P
<1> DEFINE Q == {i \in Nat : u + i <= n => h[u + i].out = f[u] /\ (i > 0 => h[u + i].inside)}
<1>10. 0 \in Q
  BY <1>1, <1>9
<1>11. ASSUME NEW i \in Nat, i \in Q PROVE i + 1 \in Q
  <2> SUFFICES ASSUME u + (i + 1) <= n
               PROVE  h[u + (i + 1)].out = f[u] /\ h[u + (i + 1)].inside
    OBVIOUS
  <2> DEFINE k == u + i
  <2>1. k + 1 \in 1..n /\ (k + 1) - 1 = k /\ k <= n /\ k \in 0..n /\ u + (i + 1) = k + 1
    BY <1>1
  <2>2. h[k + 1] = SkipBlock(h[k], lines[k + 1]) /\ h[k].out = f[u] /\ (i > 0 => h[k].inside)
    BY <1>3, <1>11, <2>1
  <2>3. h[k] = [out |-> h[k].out, inside |-> h[k].inside] /\ h[k].inside \in BOOLEAN
    BY <1>6, <2>1
  <2>4. lines[u + 1] = BeginMark /\ \A e \in u + 1..n : lines[e] # EndMark
    BY <1>1, <2>1 DEF Bounds, n
  <2>5. lines[k + 1] # EndMark /\ (lines[k + 1] = BeginMark \/ i > 0)
    <3>1. k + 1 \in u + 1..n /\ (i = 0 => k + 1 = u + 1)
      BY <1>1, <2>1
    <3> QED BY <2>4, <3>1
  <2>6. h[k + 1] = [out |-> h[k].out, inside |-> TRUE]
    <3>1. CASE lines[k + 1] = BeginMark
      BY <2>2, <2>3, <3>1 DEF SkipBlock
    <3>2. CASE lines[k + 1] # BeginMark
      <4>1. h[k].inside /\ (lines[k + 1] # EndMark) = TRUE
        BY <2>2, <2>5, <3>2
      <4>2. h[k + 1] = [out |-> h[k].out, inside |-> lines[k + 1] # EndMark]
        BY <2>2, <2>3, <3>2, <4>1 DEF SkipBlock
      <4> QED BY <4>1, <4>2
    <3> QED BY <3>1, <3>2
  <2> HIDE DEF k
  <2> QED BY <2>1, <2>2, <2>6
<1>12. h[n].out = f[u]
  <2>1. Nat \subseteq Q
    <3> HIDE DEF Q
    <3> QED BY <1>10, <1>11, NatSet
  <2>2. n - u \in Nat /\ u + (n - u) = n /\ u + (n - u) <= n
    BY <1>1
  <2>3. h[u + (n - u)].out = f[u]
    BY <2>1, <2>2
  <2> QED BY <2>2, <2>3
<1> QED BY <1>3, <1>5, <1>12

-----------------------------------------------------------------------------
(* The invariant: what was asked for last is in the file, each row once,   *)
(* before anything that begins a block.                                    *)
HostsInv ==
    /\ HostsTypeOK
    /\ wished # <<>> => Distinct(wished) /\ \E p \in Nat : HasBlock(hosts, p, wished)

LEMMA SpacedHasBlock ==
  ASSUME NEW lines \in Seq(Lines), NEW rows \in Rows
  PROVE  /\ Spaced(lines, rows) \in Seq(Lines)
         /\ rows # <<>> => \E p \in Nat : HasBlock(Spaced(lines, rows), p, rows)
<1> DEFINE rest == DropConflicting(RemoveBlock(lines), rows)
<1>1. rest \in Seq(Plain)
  BY BlockIsRemoved, ConflictsAreDropped
<1>2. Spaced(lines, rows) = Inserted(rest, rows)
  BY DEF Spaced, KeptLines
<1> HIDE DEF rest
<1>3. CASE rows = <<>>
  <2>1. Spaced(lines, rows) = rest
    BY <1>2, <1>3 DEF Inserted, InsertBlock
  <2>2. rest \in Seq(Lines)
    BY <1>1 DEF Plain
  <2> QED BY <1>3, <2>1, <2>2
<1>4. CASE rows # <<>>
  <2>1. PICK p \in Nat : HasBlock(Inserted(rest, rows), p, rows)
    BY <1>1, <1>4, BlockIsInserted
  <2>2. Inserted(rest, rows) \in Seq(Lines)
    BY <2>1 DEF HasBlock
  <2> QED BY <1>2, <2>1, <2>2
<1> QED BY <1>3, <1>4

LEMMA RebuiltHasBlock ==
  ASSUME NEW lines \in Seq(Lines), NEW rows \in Rows, NEW end \in BOOLEAN
  PROVE  /\ Rebuilt(lines, rows, end) \in Seq(Lines)
         /\ rows # <<>> => \E p \in Nat : HasBlock(Rebuilt(lines, rows, end), p, rows)
<1>1. CASE Sticky(lines, rows, end)
  <2> DEFINE K == KeptLines(lines, rows)
  <2>1. K \in Seq(Plain)
    BY KeptArePlain
  <2>2. Rebuilt(lines, rows, end) = Glued(K, rows)
    BY <1>1, RebuiltEither
  <2> HIDE DEF K
  <2>3. HasBlock(Glued(K, rows), Len(K), rows) /\ Len(K) \in Nat
    BY <2>1, GluedEncloses DEF Encloses
  <2> QED BY <2>2, <2>3 DEF HasBlock
<1>2. CASE ~Sticky(lines, rows, end)
  BY <1>2, RebuiltEither, SpacedHasBlock
<1> QED BY <1>1, <1>2

LEMMA OthersAreLines == Others \subseteq Plain /\ Others \cup {BeginMark, EndMark} \subseteq Lines
<1>1. {Blank, Note, EndMark, MaxHead, MaxEnd, TgHead} \subseteq Plain /\ BeginMark \in Lines
  BY LinesAreTyped
<1>2. Mappings \subseteq Plain
  <2>1. BeginMark.kind = "begin"
    BY DEF BeginMark, Mark
  <2>2. \A line \in Mappings : line \in Lines /\ line.kind = "map"
    BY HostsAssumption
  <2> QED BY <2>1, <2>2 DEF Plain
<1>3. Plain \subseteq Lines
  BY DEF Plain
<1> HIDE DEF Plain
<1> QED BY <1>1, <1>2, <1>3 DEF Others

LEMMA HostsInitHolds == HostsInit => HostsInv
<1> SUFFICES ASSUME HostsInit PROVE HostsInv
  OBVIOUS
<1> DEFINE L == Others \cup {BeginMark, EndMark}
<1>1. /\ hosts \in BoundedSeq(L, MaxLines) /\ wished = <<>>
      /\ readable \in BOOLEAN /\ lastEnds \in BOOLEAN
  BY DEF HostsInit
<1>2. L \subseteq Lines
  BY OthersAreLines
<1> HIDE DEF L
<1>3. PICK m \in 0..MaxLines : hosts \in [1..m -> L]
  BY <1>1 DEF BoundedSeq, SeqOf
<1>4. m \in Nat
  BY <1>3, HostsAssumption
<1>5. hosts \in Seq(L)
  BY <1>3, <1>4
<1>6. hosts \in Seq(Lines)
  BY <1>2, <1>5
<1>7. wished \in Rows
  BY <1>1 DEF Rows
<1> QED BY <1>1, <1>6, <1>7 DEF HostsInv, HostsTypeOK

LEMMA ApplyKeeps ==
  ASSUME HostsInv, ApplyRows
  PROVE  HostsInv'
<1>1. PICK rows \in Requests, allow6 \in BOOLEAN :
          /\ wished' = FilterRows(rows, allow6)
          /\ hosts' = Rebuilt(Current, wished', lastEnds)
          /\ lastEnds' = EndsLine(Current, wished', lastEnds)
  BY DEF ApplyRows
<1>2. rows \in Rows
  BY HostsAssumption
<1>3. wished' \in Rows /\ Distinct(wished')
  BY <1>1, <1>2, RowsAreDistinct
<1>4. Current \in Seq(Lines) /\ lastEnds \in BOOLEAN
  BY DEF HostsInv, HostsTypeOK, Current
<1>5. hosts' = Rebuilt(Current, wished', lastEnds)
  BY <1>1
<1>6. hosts' \in Seq(Lines) /\ (wished' # <<>> => \E p \in Nat : HasBlock(hosts', p, wished'))
  BY <1>3, <1>4, <1>5, RebuiltHasBlock
<1>7. readable' \in BOOLEAN /\ lastEnds' \in BOOLEAN
  BY <1>1 DEF ApplyRows, EndsLine
<1> QED BY <1>3, <1>6, <1>7 DEF HostsInv, HostsTypeOK

LEMMA AppendKeeps ==
  ASSUME HostsInv, OthersAppend
  PROVE  HostsInv'
<1>1. PICK line \in Others : hosts' = Append(hosts, line)
  BY DEF OthersAppend
<1>2. line \in Lines
  BY OthersAreLines DEF Plain
<1>3. /\ hosts \in Seq(Lines) /\ wished \in Rows /\ wished' = wished
      /\ readable' \in BOOLEAN /\ lastEnds' \in BOOLEAN
  BY DEF HostsInv, HostsTypeOK, OthersAppend
<1>4. /\ hosts' \in Seq(Lines) /\ Len(hosts') = Len(hosts) + 1 /\ Len(hosts) \in Nat
      /\ \A i \in 1..Len(hosts) : hosts'[i] = hosts[i]
  BY <1>1, <1>2, <1>3
<1>5. ASSUME NEW p \in Nat, HasBlock(hosts, p, wished)
      PROVE  HasBlock(hosts', p, wished')
  <2> DEFINE m == Len(wished)
  <2>1. m \in Nat /\ p + 3 + m <= Len(hosts)
    BY <1>3, <1>5 DEF HasBlock, Rows
  <2>2. \A i \in 1..p + 3 + m : hosts'[i] = hosts[i]
    <3> HIDE DEF m
    <3>1. \A i \in 1..p + 3 + m : i \in 1..Len(hosts)
      BY <1>4, <2>1
    <3> QED BY <1>4, <3>1
  <2>3. /\ p + 1 \in 1..p + 3 + m /\ p + 2 \in 1..p + 3 + m /\ p + 3 + m \in 1..p + 3 + m
        /\ \A i \in 1..p : i \in 1..p + 3 + m
        /\ \A j \in 1..m : p + 2 + j \in 1..p + 3 + m
        /\ p + 3 + m <= Len(hosts')
    <3> HIDE DEF m
    <3> QED BY <1>4, <2>1
  <2> QED BY <1>3, <1>4, <1>5, <2>2, <2>3 DEF HasBlock
<1>6. wished' # <<>> => Distinct(wished') /\ \E p \in Nat : HasBlock(hosts', p, wished')
  BY <1>3, <1>5 DEF HostsInv
<1> QED BY <1>3, <1>4, <1>6 DEF HostsInv, HostsTypeOK

LEMMA HostsInvHolds == HostsSpec => []HostsInv
<1>1. HostsInit => HostsInv
  BY HostsInitHolds
<1>2. HostsInv /\ [HostsNext]_hostsVars => HostsInv'
  <2> SUFFICES ASSUME HostsInv, [HostsNext]_hostsVars PROVE HostsInv'
    OBVIOUS
  <2>1. CASE ApplyRows
    BY <2>1, ApplyKeeps
  <2>2. CASE OthersAppend
    BY <2>2, AppendKeeps
  <2>3. CASE UNCHANGED hostsVars
    BY <2>3 DEF hostsVars, HostsInv, HostsTypeOK
  <2> QED BY <2>1, <2>2, <2>3 DEF HostsNext
<1> QED BY <1>1, <1>2, PTL DEF HostsSpec

(* Type correctness: the file is always lines the code can tell apart.     *)
THEOREM HostsTypeCorrect == HostsSpec => []HostsTypeOK
<1>1. HostsInv => HostsTypeOK
  BY DEF HostsInv
<1> QED BY <1>1, HostsInvHolds, PTL

(* The block of the hosts file, as InsertBlock writes it and ReadRow reads *)
(* it, is what was asked for, whatever was in the file before, whatever    *)
(* rows were asked for and whatever is added at the end.                   *)
THEOREM BlockHoldsWhatWasAsked == HostsSpec => []BlockHoldsRows
<1>1. HostsInv => BlockHoldsRows
  <2> SUFFICES ASSUME HostsInv, wished # <<>>
      PROVE  BlockRows(hosts) = wished /\ Distinct(wished)
    BY DEF BlockHoldsRows, Distinct
  <2>1. Distinct(wished) /\ wished \in Rows
    BY DEF HostsInv, HostsTypeOK
  <2>2. PICK p \in Nat : HasBlock(hosts, p, wished)
    BY DEF HostsInv
  <2> QED BY <2>1, <2>2, BlockIsWhole
<1> QED BY <1>1, HostsInvHolds, PTL

(* Applying the same rows again changes nothing: what is removed of the    *)
(* rebuilt file are the lines it was built of, up to blank lines at the    *)
(* place of the block, nothing in them is in the way of the rows, and the  *)
(* place is the same. Where the block stuck to a line without a line end,  *)
(* the same is said of the second apply.                                   *)
THEOREM ApplyAgainChangesNothing == HostsSpec => ApplyIsIdempotent
<1> DEFINE second == Rebuilt(hosts', wished', lastEnds')
           Again == IF Sticks(wished')
                    THEN /\ second = InsertBlock(KeptLines(Current, wished'), wished', FALSE)
                         /\ InsertBlock(KeptLines(second, wished'), wished', FALSE) = second
                    ELSE second = hosts'
<1>1. HostsInv /\ [HostsNext]_hostsVars => [ApplyRows /\ ~Splits(wished') => Again]_hostsVars
  <2> SUFFICES ASSUME HostsInv, ApplyRows, ~Splits(wished') PROVE Again
    OBVIOUS
  <2> DEFINE K == KeptLines(Current, wished')
  <2>1. /\ hosts' = Rebuilt(Current, wished', lastEnds)
        /\ lastEnds' = EndsLine(Current, wished', lastEnds)
        /\ wished' \in Rows /\ hosts' \in Seq(Lines) /\ lastEnds' \in BOOLEAN
    BY ApplyKeeps DEF ApplyRows, HostsInv, HostsTypeOK
  <2>2. Current \in Seq(Lines) /\ lastEnds \in BOOLEAN
    BY DEF HostsInv, HostsTypeOK, Current
  <2>3. ~Disturbs(Current, wished')
    <3>1. CASE readable
      BY <3>1 DEF Disturbs, InTelegrams, Splits, Current, KeptLines
    <3>2. CASE ~readable
      BY <2>1, <3>2, EmptyIsCalm DEF Current
    <3> QED BY <3>1, <3>2
  <2>4. Sticks(wished') <=> Sticky(Current, wished', lastEnds)
    BY DEF Sticks, Sticky, NoMapping
  <2>5. /\ Spaced(Spaced(Current, wished'), wished') = Spaced(Current, wished')
        /\ wished' # <<>> /\ ~NoMapping(K) => ~NoMapping(KeptLines(Spaced(Current, wished'), wished'))
    BY <2>1, <2>2, <2>3, SpacedTwice
  <2>6. lastEnds' => ~Unended(hosts', wished', lastEnds')
    BY DEF Unended
  <2>7. second = IF Sticky(hosts', wished', lastEnds') THEN Glued(KeptLines(hosts', wished'), wished')
                ELSE Spaced(hosts', wished')
    BY <2>1, RebuiltEither
  <2>8. hosts' = IF Sticky(Current, wished', lastEnds) THEN Glued(K, wished')
                 ELSE Spaced(Current, wished')
    BY <2>1, <2>2, RebuiltEither
  <2> HIDE DEF second, K
  <2>9. CASE Sticks(wished')
    <3>1. lastEnds'
      BY <2>1, <2>4, <2>9 DEF Sticky, EndsLine, NoMapping
    <3>2. ~Sticky(hosts', wished', lastEnds')
      BY <2>6, <3>1 DEF Sticky
    <3>3. hosts' = Glued(K, wished')
      BY <2>4, <2>8, <2>9
    <3>4. KeptLines(hosts', wished') = K
      BY <2>1, <2>2, <3>3, GluedIsCut DEF K
    <3>5. second = Inserted(K, wished') /\ second = Spaced(Current, wished')
      BY <2>7, <3>2, <3>4 DEF Spaced, K
    <3>6. Spaced(second, wished') = second
      BY <2>5, <3>5
    <3>7. /\ second = InsertBlock(K, wished', FALSE)
          /\ InsertBlock(KeptLines(second, wished'), wished', FALSE) = second
      BY <3>5, <3>6 DEF Spaced, Inserted
    <3> QED BY <2>9, <3>7 DEF K
  <2>10. CASE ~Sticks(wished')
    <3>1. hosts' = Spaced(Current, wished')
      BY <2>4, <2>8, <2>10
    <3>2. ~Sticky(hosts', wished', lastEnds')
      <4>1. CASE lastEnds'
        BY <2>6, <4>1 DEF Sticky
      <4>2. CASE wished' = <<>>
        BY <4>2 DEF Sticky
      <4>3. CASE ~lastEnds' /\ wished' # <<>>
        <5>1. ~NoMapping(K)
          BY <2>1, <4>3 DEF EndsLine, NoMapping, K
        <5>2. ~NoMapping(KeptLines(hosts', wished'))
          BY <2>5, <3>1, <4>3, <5>1
        <5> QED BY <5>2 DEF Sticky
      <4> QED BY <4>1, <4>2, <4>3
    <3> QED BY <2>5, <2>7, <2>10, <3>1, <3>2
  <2> QED BY <2>9, <2>10
<1>2. HostsInv /\ [HostsNext]_hostsVars
        => [ApplyRows /\ ~Splits(wished') =>
              \A again \in {Rebuilt(hosts', wished', lastEnds')} :
                  IF Sticks(wished')
                  THEN /\ again = InsertBlock(KeptLines(Current, wished'), wished', FALSE)
                       /\ InsertBlock(KeptLines(again, wished'), wished', FALSE) = again
                  ELSE again = hosts']_hostsVars
  BY <1>1
<1> QED BY <1>2, HostsInvHolds, PTL DEF HostsSpec, ApplyIsIdempotent

(* What others wrote survives: the lines outside the blocks are the file   *)
(* that the removal leaves, and what is seen of others in it is the same   *)
(* before and after an apply, for what is dropped is none of it, and the   *)
(* blank lines around the block are not, unless they end a block of others.*)
THEOREM OthersSurvive == HostsSpec => OthersKept
<1> DEFINE was == OfOthers(Foreign(hosts), wished')
           is == OfOthers(Foreign(hosts'), wished')
           Kept == /\ is.remarks = was.remarks /\ is.pairs = was.pairs
                   /\ ~Splits(wished') => is.inBlocks = was.inBlocks
<1>1. HostsInv /\ [HostsNext]_hostsVars => [ApplyRows /\ readable => Kept]_hostsVars
  <2> SUFFICES ASSUME HostsInv, ApplyRows, readable PROVE Kept
    OBVIOUS
  <2>1. /\ hosts' = Rebuilt(hosts, wished', lastEnds) /\ lastEnds \in BOOLEAN
        /\ wished' \in Rows /\ hosts \in Seq(Lines) /\ hosts' \in Seq(Lines)
    BY ApplyKeeps DEF ApplyRows, HostsInv, HostsTypeOK, Current
  <2>2. Disturbs(hosts, wished') <=> Splits(wished')
    BY DEF Disturbs, InTelegrams, Splits, KeptLines
  <2>3. Foreign(hosts) = RemoveBlock(hosts) /\ Foreign(hosts') = RemoveBlock(hosts')
    BY <2>1, ForeignIsLeft
  <2>4. Same(is, was, ~Disturbs(hosts, wished'))
    BY <2>1, <2>3, RebuiltIsSeen
  <2> HIDE DEF was, is
  <2> QED BY <2>2, <2>4 DEF Same
<1>2. HostsInv /\ [HostsNext]_hostsVars
        => [ApplyRows /\ readable =>
              \A old \in {OfOthers(Foreign(hosts), wished')},
                 new \in {OfOthers(Foreign(hosts'), wished')} :
                  /\ new.remarks = old.remarks /\ new.pairs = old.pairs
                  /\ ~Splits(wished') => new.inBlocks = old.inBlocks]_hostsVars
  BY <1>1
<1> QED BY <1>2, HostsInvHolds, PTL DEF HostsSpec, OthersKept
==============================================================================
