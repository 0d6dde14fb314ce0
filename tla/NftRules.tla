-------------------------------- MODULE NftRules --------------------------------
(***************************************************************************)
(* The nftables rules for the engine, as packets meet them: the rules of   *)
(* nft_rules_text for a choice of filters, an application's packet that    *)
(* passes the hooks of its direction, the engine that reads the queue and  *)
(* sends packets of its own, and the ICMP error one of these may bring     *)
(* back from a router.                                                     *)
(*                                                                         *)
(* Of a packet only what some rule looks at is kept; the text is not.      *)
(***************************************************************************)
EXTENDS Naturals, Sequences

CONSTANTS Filters,         (* what rules are asked for: Nfqws2NftFilters   *)
          Wans,            (* sets of families with WAN interfaces given   *)
          MaxNth           (* bound: the number of a packet in its flow    *)

VARIABLES filters, wans,
          packet,          (* what is on the way                           *)
          hooks,           (* the hooks still before it                    *)
          fate,            (* "on", "queue", "passed" or "dropped"         *)
          queued,          (* how often it was queued                      *)
          connMark,        (* the mark of its connection                   *)
          fakes            (* ghost: a tracked packet of the engine went   *)

nftVars == <<filters, wans, packet, hooks, fate, queued, connMark, fakes>>

Families == {"ip4", "ip6"}

Packets ==
    [kind : {"app", "own", "echo"}, family : Families, proto : {"tcp", "udp"},
     dir : {"out", "in"}, listed : BOOLEAN, nth : 1..MaxNth, excluded : BOOLEAN,
     viaWan : BOOLEAN, marks : SUBSET {"desync", "postnat"}, loose : BOOLEAN]

(* Type correctness. *)
NftTypeOK ==
    /\ filters \in Filters /\ wans \in Wans
    /\ packet \in Packets
    /\ fate \in {"on", "queue", "passed", "dropped"}
    /\ queued \in Nat /\ connMark \in BOOLEAN /\ fakes \in BOOLEAN

(* By the priority of the hook chains: an outgoing packet meets 99 before  *)
(* 101, an incoming one -101 before -99.                                   *)
HooksOf(dir) ==
    IF dir = "out" THEN <<"postrouting_hook", "postnat_hook">>
                   ELSE <<"prenat_hook", "prerouting_hook">>

NftInit ==
    /\ filters \in Filters /\ wans \in Wans
    /\ packet \in {p \in Packets : p.kind = "app" /\ p.marks = {} /\ ~p.loose}
    /\ hooks = HooksOf(packet.dir)
    /\ fate = "on" /\ queued = 0 /\ connMark = FALSE /\ fakes = FALSE

-----------------------------------------------------------------------------
(* The rules.                                                              *)

PostChain == IF filters.postnat THEN "postnat" ELSE "postrouting"
PreChain == IF filters.postnat THEN "prenat" ELSE "prerouting"

Enabled(family) == family \notin filters.off

(* Mutant of Jumps: packets that bear the mark of the engine jump too. *)
JumpsMarked(hook) ==
    IF /\ Enabled(packet.family) /\ ~packet.excluded
       /\ packet.family \in wans => packet.viaWan
    THEN CASE hook = "postrouting_hook" -> {PostChain}
           [] hook = "prerouting_hook" -> {PreChain}
           [] OTHER -> {}
    ELSE {}

(* hook_jump_rule: the chains this packet jumps to from a hook. The jumps  *)
(* stand in the same two hooks whatever the chain.                         *)
Jumps(hook) ==
    IF /\ Enabled(packet.family) /\ ~packet.excluded /\ "desync" \notin packet.marks
       /\ packet.family \in wans => packet.viaWan
    THEN CASE hook = "postrouting_hook" -> {PostChain}
           [] hook = "prerouting_hook" -> {PreChain}
           [] OTHER -> {}
    ELSE {}

(* The queue rules of a chain: the ports of the protocol, and the first    *)
(* packets of the direction, if any.                                       *)
QueueRule(chain) ==
    /\ packet.proto \in filters.ports /\ packet.listed /\ Enabled(packet.family)
    /\ chain = (IF packet.dir = "out" THEN PostChain ELSE PreChain)
    /\ packet.nth <= filters.first[packet.dir]

Queues(hook) ==
    packet.kind # "echo" /\ \E chain \in Jumps(hook) : QueueRule(chain)

(* predefrag: the packets of the engine that conntrack does not see. *)
Untracked == packet.kind = "own" /\ (packet.loose \/ "postnat" \in packet.marks)

(* Mutant of MarksConn: only the packets of the engine mark, in any mode. *)
MarksByOwnOnly(hook) ==
    /\ filters.ttlIcmp /\ ~Untracked
    /\ hook = "postrouting_hook" /\ "desync" \in packet.marks

(* filter_ttl_expired_icmp: packets that go to the engine, or come from    *)
(* it, mark their connection.                                              *)
MarksConn(hook) ==
    /\ filters.ttlIcmp /\ ~Untracked
    /\ \/ ~filters.postnat /\ hook = "postrouting_hook" /\ "desync" \in packet.marks
       \/ filters.postnat /\ packet.dir = "out" /\ Queues(hook)

Drops(hook) ==
    /\ filters.ttlIcmp /\ hook = "prerouting_hook"
    /\ packet.kind = "echo" /\ Enabled(packet.family) /\ connMark

(* With postnat, an IPv4 echo may be one conntrack cannot place. *)
DropsInvalid(hook) ==
    /\ filters.ttlIcmp /\ filters.postnat /\ hook = "prerouting_hook"
    /\ packet.kind = "echo" /\ packet.family = "ip4"

-----------------------------------------------------------------------------
(* A packet meets one hook. *)
Meet ==
    /\ fate = "on" /\ hooks # <<>>
    /\ LET hook == Head(hooks) IN
          /\ hooks' = Tail(hooks)
          /\ connMark' = (connMark \/ MarksConn(hook))
          /\ queued' = IF Queues(hook) THEN queued + 1 ELSE queued
          /\ packet' = IF Queues(hook) /\ filters.postnat /\ packet.dir = "out"
                       THEN [packet EXCEPT !.marks = @ \cup {"postnat"}] ELSE packet
          /\ \/ fate' = CASE Drops(hook) -> "dropped"
                          [] Queues(hook) -> "queue"
                          [] OTHER -> IF Tail(hooks) = <<>> THEN "passed" ELSE "on"
             \/ DropsInvalid(hook) /\ fate' = "dropped"
    /\ fakes' = (fakes \/ (packet.kind = "own" /\ Tail(hooks) = <<>> /\ ~Untracked))
    /\ UNCHANGED <<filters, wans>>

(* The engine lets it go, or nobody reads the queue ("bypass"). *)
LetGo ==
    /\ fate = "queue"
    /\ fate' = IF hooks = <<>> THEN "passed" ELSE "on"
    /\ UNCHANGED <<filters, wans, packet, hooks, queued, connMark, fakes>>

(* The engine sends a packet of its own in the place of one that goes out, *)
(* a fragment or one without flags perhaps.                                *)
SendOwn ==
    /\ fate = "queue" /\ packet.dir = "out"
    /\ \E loose \in BOOLEAN :
          packet' = [packet EXCEPT !.kind = "own", !.loose = loose,
                                   !.marks = @ \cup {"desync"}]
    /\ hooks' = HooksOf("out") /\ fate' = "on" /\ queued' = 0
    /\ UNCHANGED <<filters, wans, connMark, fakes>>

(* A router says that the life time of such a packet is over. *)
Expired ==
    /\ fate = "passed" /\ packet.kind = "own"
    /\ packet' = [packet EXCEPT !.kind = "echo", !.dir = "in", !.marks = {}]
    /\ hooks' = HooksOf("in") /\ fate' = "on" /\ queued' = 0
    /\ UNCHANGED <<filters, wans, connMark, fakes>>

NftNext == Meet \/ LetGo \/ SendOwn \/ Expired

NftSpec == NftInit /\ [][NftNext]_nftVars

-----------------------------------------------------------------------------
(* Properties                                                              *)

(* What the engine is to see, said without chains and hooks. *)
ForEngine(p) ==
    /\ p.kind = "app" /\ p.family \notin filters.off /\ p.proto \in filters.ports
    /\ p.listed /\ ~p.excluded /\ p.nth <= filters.first[p.dir]
    /\ p.family \in wans => p.viaWan

(* In every mode the engine gets each packet it is to see once, and no     *)
(* other; none of its own, or it would run in circles.                     *)
QueuedOnce ==
    /\ queued <= 1
    /\ fate \in {"passed", "dropped"} => (queued = 1 <=> ForEngine(packet))

(* With filter_ttl_expired_icmp a program never sees the error a fake      *)
(* packet with a short life brought: it would close the connection. (Not   *)
(* so without postnat, if conntrack saw no packet of the engine.)          *)
EchoesAreDropped ==
    filters.ttlIcmp /\ packet.kind = "echo" /\ (filters.postnat \/ fakes) => fate # "passed"
=============================================================================
