------------------------------- MODULE MCParts -------------------------------
(* The parts of the program that share no state with each other and whose  *)
(* properties need no fairness, in one run: a behaviour chooses a part and *)
(* follows its specification, the others stay as they are. Interleaving    *)
(* them would add no behaviour.                                            *)
EXTENDS LocalProxy, TgProxy, TgSplitter, MCHosts, NftRules, DomainLookup,
        TgRoutes, MCPresets

VARIABLE part

partsVars == <<part, lpVars, tgVars, tsVars, hostsVars, nftVars, dlVars,
               rtVars, psVars>>

Parts == {"local", "tunnel", "splitter", "hosts", "rules", "lookup",
          "pauses", "fronts", "presets"}

-----------------------------------------------------------------------------
(* Values of the constants.                                                *)

Message(h, b) == [head |-> h, body |-> b]

(* Whole messages, and streams with an empty one, last, between and first. *)
MCStreams ==
    {<<Message(1, 2), Message(2, 1)>>,
     <<Message(2, 3), Message(1, 1), Message(2, 2)>>,
     <<Message(1, 1), Message(2, 0), Message(1, 1)>>,
     <<Message(1, 0), Message(1, 2)>>}

(* The server asks for the first packets that go out, and for those that   *)
(* come in or for none of these.                                           *)
MCFilters ==
    [off : {{}, {"ip4"}}, postnat : BOOLEAN, ttlIcmp : BOOLEAN, ports : {{"tcp"}},
     first : {[d \in {"out", "in"} |-> IF d = "out" THEN 1 ELSE n] : n \in {0, 2}}]

MCTargets ==
    {f \in Facts :
        /\ ~f.domain => f.ip = "none" /\ ~f.road /\ f.other = "none" /\ ~f.closed
        /\ f.external = f.public
        /\ f.closed => f.public
        /\ f.domain => f.thc = f.closed
        /\ f.six => f.ip = "quick" \/ ~f.domain
        /\ f.domain => f.public /\ (f.road <=> f.other = "rest")
        /\ f.ip = "windows" => f.other = "none"}

(* Connections to a data centre with a relay, to one with fronts only and  *)
(* to one without WSS; of media, with tunnels and the user's own servers.  *)
Plain(wss, relay, upstream) ==
    [wss |-> wss, relay |-> relay, upstream |-> upstream, media |-> FALSE, home |-> "",
     ip |-> FALSE, domains |-> FALSE, workers |-> FALSE]
Media(relay, upstream, home) ==
    [wss |-> TRUE, relay |-> relay, upstream |-> upstream, media |-> TRUE, home |-> home,
     ip |-> upstream = "off", domains |-> relay, workers |-> relay]

MCPlanInputs ==
    {Plain(TRUE, TRUE, "off"), Plain(TRUE, TRUE, "always"), Plain(TRUE, FALSE, "off"),
     Plain(FALSE, FALSE, "off"), Media(TRUE, "off", "regular"), Media(FALSE, "off", "media"),
     Media(TRUE, "fallback", "media")}

MCRelayAddresses == <<"ip1", "ip2">>
MCUserDomains == <<"site">>
MCUserWorkers == <<"worker">>
MCTunnelHosts == <<"edge", "node">>

-----------------------------------------------------------------------------
Of(name) == part = name

HostsRest == hosts = <<>> /\ lastEnds = TRUE /\ readable = FALSE /\ wished = <<>>
RulesRest == /\ filters = CHOOSE f \in Filters : TRUE
             /\ wans = {}
             /\ packet = CHOOSE p \in Packets : p.kind = "app" /\ p.marks = {} /\ ~p.loose
             /\ hooks = <<>>
             /\ fate = "on" /\ queued = 0 /\ connMark = FALSE /\ fakes = FALSE
SplitterRests == /\ stream = CHOOSE s \in Streams : TRUE
                 /\ got = 0 /\ cut = 0 /\ disabled = FALSE /\ parts = <<>> /\ ended = FALSE
LookupRests == /\ target = CHOOSE t \in Targets : TRUE
               /\ at = 1 /\ filled = {} /\ userStop = FALSE /\ expired = FALSE
               /\ mark = [at |-> "open", stopped |-> FALSE, timedOut |-> FALSE]

PartsInit ==
    /\ part \in Parts
    /\ LpInit /\ TgInit /\ PsInit
    /\ RtInit /\ (frontCursor = 0 \/ Of("fronts"))
    /\ IF Of("hosts") THEN HostsInit ELSE HostsRest
    /\ IF Of("rules") THEN NftInit ELSE RulesRest
    /\ IF Of("splitter") THEN TsInit ELSE SplitterRests
    /\ IF Of("lookup") THEN DlInit ELSE LookupRests

OthersRest ==
    /\ UNCHANGED part
    /\ ~Of("local") => UNCHANGED lpVars
    /\ ~Of("tunnel") => UNCHANGED tgVars
    /\ ~Of("splitter") => UNCHANGED tsVars
    /\ ~Of("hosts") => UNCHANGED hostsVars
    /\ ~Of("rules") => UNCHANGED nftVars
    /\ ~Of("lookup") => UNCHANGED dlVars
    /\ ~(Of("pauses") \/ Of("fronts")) => UNCHANGED rtVars
    /\ ~Of("presets") => UNCHANGED psVars

PartsNext ==
    \/ Of("local") /\ LpNext /\ OthersRest
    \/ Of("tunnel") /\ TgNext /\ OthersRest
    \/ Of("splitter") /\ TsNext /\ OthersRest
    \/ Of("hosts") /\ HostsNext /\ OthersRest
    \/ Of("rules") /\ NftNext /\ OthersRest
    \/ Of("lookup") /\ DlNext /\ OthersRest
    \/ Of("pauses") /\ RtNext /\ UNCHANGED frontVars /\ OthersRest
    \/ Of("fronts") /\ RtNext /\ UNCHANGED entries /\ OthersRest
    \/ Of("presets") /\ PsNext /\ OthersRest

PartsSpec == PartsInit /\ [][PartsNext]_partsVars
=============================================================================
