------------------------------- MODULE TgProxy --------------------------------
(***************************************************************************)
(* The Telegram proxy of the server: three handlers over one config file,  *)
(* which they read and write without a lock, and the tunnel behind a       *)
(* mutex. Saving truncates the file and then writes it, and a file read in *)
(* between is no config: the handler makes up a new one, with a new secret.*)
(*                                                                         *)
(* A secret stands for the link made of it; host is left out (it goes with *)
(* the port).                                                              *)
(***************************************************************************)
EXTENDS Naturals

CONSTANTS TgCalls,         (* handler calls that may be going on at once   *)
          Ports, Domains,  (* what a start may ask for                     *)
          DefaultPort,     (* DEFAULT_PORT                                 *)
          NoDomain,        (* no domain of a worker                        *)
          MaxSecrets,      (* bound: secrets made                          *)
          TgMaxFaults      (* bound: writes that fail, kills in a write    *)

ASSUME TgAssumption ==
    /\ DefaultPort \in Ports /\ NoDomain \in Domains
    /\ MaxSecrets \in Nat /\ TgMaxFaults \in Nat

VARIABLES file,            (* the config, or NoConfig: none or cut short   *)
          tunnel,          (* the config the tunnel runs with, or NoConfig *)
          secrets,         (* how many secrets have been made              *)
          tgPc,            (* per call: what it does next                  *)
          cfg,             (* per call: the config it goes by              *)
          asked,           (* per call: the port (0: any) and domain asked *)
          told,            (* ghost: the secrets of the links answered     *)
          tgFaults,        (* ghost: faults so far                         *)
          crossed          (* ghost: two calls were going on at once, and  *)
                           (* since then none began alone with no tunnel   *)

tgVars == <<file, tunnel, secrets, tgPc, cfg, asked, told, tgFaults, crossed>>

Configs == [secret : 1..MaxSecrets, port : Ports, domain : Domains]
NoConfig == [secret |-> 0, port |-> DefaultPort, domain |-> NoDomain]

TgLabels == {"idle", "load", "truncate", "fill", "answer", "start", "resave", "refill"}

(* Type correctness. *)
TgTypeOK ==
    /\ {file, tunnel} \subseteq Configs \cup {NoConfig}
    /\ secrets \in 0..MaxSecrets
    /\ tgPc \in [TgCalls -> TgLabels]
    /\ cfg \in [TgCalls -> Configs \cup {NoConfig}]
    /\ asked \in [TgCalls -> [start : BOOLEAN, port : Ports \cup {0}, domain : Domains]]
    /\ told \subseteq 1..MaxSecrets
    /\ tgFaults \in 0..TgMaxFaults /\ crossed \in BOOLEAN

TgInit ==
    /\ file = NoConfig /\ tunnel = NoConfig
    /\ secrets = 0
    /\ tgPc = [c \in TgCalls |-> "idle"]
    /\ cfg = [c \in TgCalls |-> NoConfig]
    /\ asked = [c \in TgCalls |-> [start |-> FALSE, port |-> 0, domain |-> NoDomain]]
    /\ told = {}
    /\ tgFaults = 0 /\ crossed = FALSE

-----------------------------------------------------------------------------
TgGoto(c, label) == tgPc' = [tgPc EXCEPT ![c] = label]
TgFault == tgFaults < TgMaxFaults /\ tgFaults' = tgFaults + 1

(* GET /api/tg/proxy, or POST start with a port and a domain. *)
TgCall(c) ==
    /\ tgPc[c] = "idle"
    /\ \E start \in BOOLEAN, port \in Ports \cup {0}, domain \in Domains :
          /\ start \/ (port = 0 /\ domain = NoDomain)
          /\ asked' = [asked EXCEPT ![c] = [start |-> start, port |-> port, domain |-> domain]]
    /\ TgGoto(c, "load")
    /\ crossed' = \/ crossed /\ tunnel # NoConfig
                  \/ \E d \in TgCalls : tgPc[d] # "idle"
    /\ UNCHANGED <<file, tunnel, secrets, cfg, told, tgFaults>>

(* ensure_config: what is read, or a new config with a new secret. *)
Load(c) ==
    /\ tgPc[c] = "load"
    /\ IF file # NoConfig
       THEN cfg' = [cfg EXCEPT ![c] = file] /\ UNCHANGED secrets
       ELSE /\ secrets < MaxSecrets
            /\ secrets' = secrets + 1
            /\ cfg' = [cfg EXCEPT ![c] = [NoConfig EXCEPT !.secret = secrets + 1]]
    /\ TgGoto(c, "truncate")
    /\ UNCHANGED <<file, tunnel, asked, told, tgFaults, crossed>>

AfterEnsure(c) == IF asked[c].start THEN "start" ELSE "answer"

(* Mutant of Truncate: ensure_config saves nothing. *)
NoSave(c) ==
    /\ tgPc[c] = "truncate"
    /\ TgGoto(c, AfterEnsure(c))
    /\ UNCHANGED <<file, tunnel, secrets, cfg, asked, told, tgFaults, crossed>>

(* ensure_config always saves, and goes on if it cannot open the file. *)
Truncate(c) ==
    /\ tgPc[c] = "truncate"
    /\ \/ file' = NoConfig /\ TgGoto(c, "fill") /\ UNCHANGED tgFaults
       \/ TgFault /\ TgGoto(c, AfterEnsure(c)) /\ UNCHANGED file
    /\ UNCHANGED <<tunnel, secrets, cfg, asked, told, crossed>>

Fill(c) ==
    /\ tgPc[c] = "fill"
    /\ \/ file' = cfg[c] /\ UNCHANGED tgFaults
       \/ TgFault /\ UNCHANGED file
    /\ TgGoto(c, AfterEnsure(c))
    /\ UNCHANGED <<tunnel, secrets, cfg, asked, told, crossed>>

(* proxy: the link is of the config read, the port of the running tunnel. *)
AnswerPoll(c) ==
    /\ tgPc[c] = "answer"
    /\ told' = told \cup {cfg[c].secret}
    /\ TgGoto(c, "idle")
    /\ UNCHANGED <<file, tunnel, secrets, cfg, asked, tgFaults, crossed>>

PortOf(c) == IF asked[c].port = 0 THEN cfg[c].port ELSE asked[c].port

(* Mutant of StartTunnel: a second start is not refused, it changes the    *)
(* config of what runs.                                                    *)
StartAgain(c) ==
    /\ tgPc[c] = "start"
    /\ cfg' = [cfg EXCEPT ![c].port = PortOf(c), ![c].domain = asked[c].domain]
    /\ tunnel' = IF tunnel = NoConfig THEN cfg'[c] ELSE tunnel
    /\ TgGoto(c, "resave")
    /\ UNCHANGED <<file, secrets, asked, told, tgFaults, crossed>>

(* Tunnel::start, under its mutex: refused while one runs; the port may be *)
(* taken by another program.                                               *)
StartTunnel(c) ==
    /\ tgPc[c] = "start"
    /\ \/ /\ tunnel = NoConfig
          /\ cfg' = [cfg EXCEPT ![c].port = PortOf(c), ![c].domain = asked[c].domain]
          /\ tunnel' = cfg'[c]
          /\ TgGoto(c, "resave")
       \/ TgGoto(c, "idle") /\ UNCHANGED <<tunnel, cfg>>
    /\ UNCHANGED <<file, secrets, asked, told, tgFaults, crossed>>

(* Saving what was started; if it fails the start answers with an error,   *)
(* though the tunnel runs.                                                 *)
Resave(c) ==
    /\ tgPc[c] = "resave"
    /\ \/ file' = NoConfig /\ TgGoto(c, "refill") /\ UNCHANGED tgFaults
       \/ TgFault /\ TgGoto(c, "idle") /\ UNCHANGED file
    /\ UNCHANGED <<tunnel, secrets, cfg, asked, told, crossed>>

Refill(c) ==
    /\ tgPc[c] = "refill"
    /\ \/ file' = cfg[c] /\ told' = told \cup {cfg[c].secret} /\ UNCHANGED tgFaults
       \/ TgFault /\ UNCHANGED <<file, told>>
    /\ TgGoto(c, "idle")
    /\ UNCHANGED <<tunnel, secrets, cfg, asked, crossed>>

(* POST stop, one critical section of the mutex. *)
StopTunnel ==
    /\ tunnel # NoConfig
    /\ tunnel' = NoConfig
    /\ UNCHANGED <<file, secrets, tgPc, cfg, asked, told, tgFaults, crossed>>

(* The server ends and is started again; in a save it leaves a cut file. *)
TgRestart ==
    /\ IF \E c \in TgCalls : tgPc[c] \in {"fill", "refill"} THEN TgFault ELSE UNCHANGED tgFaults
    /\ tunnel' = NoConfig
    /\ tgPc' = [c \in TgCalls |-> "idle"]
    /\ UNCHANGED <<file, secrets, cfg, asked, told, crossed>>

TgStep(c) ==
    \/ Load(c) \/ Truncate(c) \/ Fill(c) \/ AnswerPoll(c)
    \/ StartTunnel(c) \/ Resave(c) \/ Refill(c)

TgNext ==
    \/ \E c \in TgCalls : TgCall(c) \/ TgStep(c)
    \/ StopTunnel
    \/ TgRestart

TgSpec == TgInit /\ [][TgNext]_tgVars

-----------------------------------------------------------------------------
(* Properties                                                              *)

(* The link of a user who set it up once works for good: as long as saving *)
(* works and no kill falls into a save, every link ever answered is one and*)
(* the same, over starts, stops and restarts of the server, and it is the  *)
(* one the tunnel lets in.                                                 *)
LinkStable ==
    tgFaults = 0 => /\ \A s, t \in told : s = t
                    /\ tunnel # NoConfig => told \subseteq {tunnel.secret}

(* While the tunnel runs the file says what it runs with, so that the next *)
(* start brings the same port and worker back; as long as saving works, and*)
(* unless the handlers of two calls crossed. What they did to the file is  *)
(* over once a call, alone, starts the tunnel again.                       *)
FileFollowsTunnel ==
    tgFaults = 0 /\ ~crossed /\ (\A c \in TgCalls : tgPc[c] = "idle") =>
        (tunnel # NoConfig => file = tunnel)
=============================================================================
