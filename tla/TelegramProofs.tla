--------------------------- MODULE TelegramProofs ---------------------------
(* Theorems about the Telegram tunnel: the link the API hands out, the     *)
(* frames of its splitter, and the pauses of the routes.                   *)
EXTENDS TgProxy, TgSplitter, TgRoutes, SequenceLemmas, FiniteSetTheorems, SequenceTheorems, TLAPS

-----------------------------------------------------------------------------
(* The link of the Telegram tunnel is one and the same for good, as long as*)
(* no two calls of the API cross and saving works; calls that cross break  *)
(* it. The strengthening says which secret every holder of a config has:   *)
(* the file unless it is being written, and the handler from its load on,  *)
(* also while the file is empty. The config of the tunnel is in the file   *)
(* in less: no two calls may have crossed since a call, alone, found no    *)
(* tunnel.                                                                 *)

Busy(c) == tgPc[c] # "idle"

OneAtATime == \A c, d \in TgCalls : Busy(c) /\ Busy(d) => c = d

(* All links answered, and the tunnel, go by the secret of f. *)
Agrees(f) ==
    /\ told \subseteq {f.secret}
    /\ tunnel # NoConfig => tunnel.secret = f.secret

NobodyWrites == \A c \in TgCalls : tgPc[c] \notin {"fill", "refill"}

FileInv == NobodyWrites => Agrees(file)

CallInv(c) ==
    /\ tgPc[c] \notin {"idle", "load"} => Agrees(cfg[c])
    /\ tgPc[c] = "truncate" => file = NoConfig \/ file = cfg[c]
    /\ tgPc[c] \in {"answer", "start", "resave"} => file.secret = cfg[c].secret

(* What runs is what the file says, or what the call that is at it says. *)
RunInv ==
    tunnel # NoConfig =>
        /\ (\A c \in TgCalls : tgPc[c] \notin {"fill", "resave", "refill"}) => file = tunnel
        /\ \A c \in TgCalls : tgPc[c] \notin {"idle", "load"} => cfg[c] = tunnel

Working == {c \in TgCalls : tgPc[c] \notin {"idle", "load"}}

TypeInv == TgTypeOK /\ \A c \in Working : cfg[c] \in Configs

TgInv ==
    /\ TypeInv
    /\ tgFaults = 0 => FileInv /\ \A c \in TgCalls : CallInv(c)

FollowInv ==
    /\ TypeInv
    /\ ~crossed => OneAtATime
    /\ ~crossed /\ tgFaults = 0 => RunInv

-----------------------------------------------------------------------------
LEMMA NoConfigIsNone == NoConfig \notin Configs /\ NoConfig.secret = 0
  BY DEF NoConfig, Configs

LEMMA NewConfig ==
    ASSUME NEW s \in 1..MaxSecrets
    PROVE  /\ [NoConfig EXCEPT !.secret = s] \in Configs
           /\ [NoConfig EXCEPT !.secret = s].secret = s
  BY TgAssumption DEF NoConfig, Configs

(* What a start asks for changes the port and the worker, not the secret. *)
LEMMA StartedConfig ==
    ASSUME TypeInv, NEW c \in Working
    PROVE  LET new == [cfg[c] EXCEPT !.port = PortOf(c), !.domain = asked[c].domain]
           IN  new \in Configs /\ new.secret = cfg[c].secret
  BY TgAssumption DEF TypeInv, TgTypeOK, Working, PortOf, Configs

LEMMA TgInitInv == TgInit => TgInv /\ FollowInv
<1> SUFFICES ASSUME TgInit PROVE TgInv /\ FollowInv
  OBVIOUS
<1>1. TypeInv
  <2>1. file = NoConfig /\ tunnel = NoConfig /\ secrets = 0 /\ told = {} /\ tgFaults = 0
        /\ crossed = FALSE
    BY DEF TgInit
  <2>2. /\ tgPc = [c \in TgCalls |-> "idle"] /\ cfg = [c \in TgCalls |-> NoConfig]
        /\ asked \in [TgCalls -> [start : BOOLEAN, port : Ports \cup {0}, domain : Domains]]
    BY TgAssumption DEF TgInit
  <2>3. Working = {}
    BY <2>2 DEF Working
  <2>4. told \subseteq 1..MaxSecrets /\ secrets \in 0..MaxSecrets /\ tgFaults \in 0..TgMaxFaults
    BY <2>1, TgAssumption
  <2>5. tgPc \in [TgCalls -> TgLabels] /\ cfg \in [TgCalls -> Configs \cup {NoConfig}]
    BY <2>2 DEF TgLabels
  <2> QED BY <2>1, <2>2, <2>3, <2>4, <2>5 DEF TypeInv, TgTypeOK
<1>2. FileInv /\ RunInv /\ \A c \in TgCalls : CallInv(c)
  BY DEF TgInit, FileInv, RunInv, CallInv, Agrees
<1>3. OneAtATime
  BY DEF TgInit, OneAtATime, Busy
<1> QED BY <1>1, <1>2, <1>3 DEF TgInv, FollowInv

(* Handlers, saves that fail and restarts keep the variables well-typed. *)
LEMMA TgStepType == TypeInv /\ [TgNext]_tgVars => TypeInv'
<1> SUFFICES ASSUME TypeInv, [TgNext]_tgVars PROVE TypeInv'
  OBVIOUS
<1> USE TgAssumption DEF TypeInv, TgTypeOK, TgLabels, TgGoto, TgFault, Working
<1>1. ASSUME NEW c \in TgCalls, TgCall(c) PROVE TypeInv'
  BY <1>1 DEF TgCall
<1>2. ASSUME NEW c \in TgCalls, Load(c) PROVE TypeInv'
  <2>1. CASE file # NoConfig
    BY <1>2, <2>1 DEF Load
  <2>2. CASE file = NoConfig
    <3>1. secrets + 1 \in 1..MaxSecrets
      BY <1>2, <2>2 DEF Load
    <3> DEFINE new == [NoConfig EXCEPT !.secret = secrets + 1]
    <3>2. new \in Configs /\ cfg' = [cfg EXCEPT ![c] = new]
      BY <1>2, <2>2, <3>1, NewConfig DEF Load
    <3> HIDE DEF new
    <3> QED BY <1>2, <2>2, <3>1, <3>2 DEF Load
  <2> QED BY <2>1, <2>2
<1>3. ASSUME NEW c \in TgCalls, Truncate(c) PROVE TypeInv'
  BY <1>3 DEF Truncate, AfterEnsure
<1>4. ASSUME NEW c \in TgCalls, Fill(c) PROVE TypeInv'
  BY <1>4 DEF Fill, AfterEnsure
<1>5. ASSUME NEW c \in TgCalls, AnswerPoll(c) PROVE TypeInv'
  <2>1. cfg[c].secret \in 1..MaxSecrets
    BY <1>5 DEF AnswerPoll, Configs
  <2> QED BY <1>5, <2>1 DEF AnswerPoll
<1>6. ASSUME NEW c \in TgCalls, StartTunnel(c) PROVE TypeInv'
  <2>1. CASE UNCHANGED <<tunnel, cfg>>
    BY <1>6, <2>1 DEF StartTunnel
  <2>2. CASE ~ UNCHANGED <<tunnel, cfg>>
    <3> DEFINE new == [cfg[c] EXCEPT !.port = PortOf(c), !.domain = asked[c].domain]
    <3>1. new \in Configs
      BY <1>6, StartedConfig DEF StartTunnel
    <3>2. cfg' = [cfg EXCEPT ![c] = new] /\ tunnel' = new
      BY <1>6, <2>2 DEF StartTunnel
    <3>3. tgPc' = [tgPc EXCEPT ![c] = "resave"] /\ UNCHANGED <<file, secrets, asked, told, tgFaults,
                                                                    crossed>>
      BY <1>6, <2>2 DEF StartTunnel
    <3> HIDE DEF new
    <3> QED BY <3>1, <3>2, <3>3
  <2> QED BY <2>1, <2>2
<1>7. ASSUME NEW c \in TgCalls, Resave(c) PROVE TypeInv'
  BY <1>7 DEF Resave
<1>8. ASSUME NEW c \in TgCalls, Refill(c) PROVE TypeInv'
  <2>1. cfg[c] \in Configs /\ cfg[c].secret \in 1..MaxSecrets
    BY <1>8 DEF Refill, Configs
  <2>2. file' \in Configs \cup {NoConfig} /\ told' \subseteq 1..MaxSecrets
    BY <1>8, <2>1 DEF Refill
  <2> QED BY <1>8, <2>2 DEF Refill
<1>9. CASE StopTunnel
  BY <1>9 DEF StopTunnel
<1>10. CASE TgRestart
  BY <1>10 DEF TgRestart
<1>11. CASE UNCHANGED tgVars
  BY <1>11 DEF tgVars
<1> QED BY <1>1, <1>2, <1>3, <1>4, <1>5, <1>6, <1>7, <1>8, <1>9, <1>10, <1>11
        DEF TgNext, TgStep

-----------------------------------------------------------------------------
(* One call at a time, no fault: what file, tunnel and call agree on. *)
LEMMA TgStepInv == OneAtATime /\ OneAtATime' /\ TgInv /\ [TgNext]_tgVars => TgInv'
<1> SUFFICES ASSUME OneAtATime, OneAtATime', TgInv, [TgNext]_tgVars, tgFaults' = 0
             PROVE  FileInv' /\ \A d \in TgCalls : CallInv(d)'
  BY TgStepType DEF TgInv
<1>1. TypeInv /\ TypeInv'
  BY TgStepType DEF TgInv
<1>2. TgTypeOK
  BY <1>1 DEF TypeInv
<1>3. tgFaults = 0 /\ ~TgFault
  <2>1. ~TgFault
    BY <1>2 DEF TgTypeOK, TgFault
  <2>2. UNCHANGED tgFaults
    BY <2>1 DEF TgNext, TgStep, TgCall, Load, Truncate, Fill, AnswerPoll, StartTunnel,
            Resave, Refill, StopTunnel, TgRestart, tgVars
  <2> QED BY <2>1, <2>2
<1>4. FileInv /\ \A d \in TgCalls : CallInv(d)
  BY <1>3 DEF TgInv
<1> USE DEF Busy, FileInv, NobodyWrites, CallInv, TgGoto
<1>5. ASSUME NEW c \in TgCalls, TgCall(c)
      PROVE FileInv' /\ \A d \in TgCalls : CallInv(d)'
  BY <1>2, <1>4, <1>5, OneAtATime DEF TgCall, OneAtATime, TgTypeOK, Agrees
<1>6. ASSUME NEW c \in TgCalls, Load(c)
      PROVE FileInv' /\ \A d \in TgCalls : CallInv(d)'
  <2>1. Agrees(file)
    BY <1>4, <1>6, OneAtATime DEF Load, OneAtATime
  <2>2. CASE file # NoConfig
    BY <1>2, <1>4, <1>6, <2>1, <2>2, OneAtATime DEF Load, OneAtATime, TgTypeOK, Agrees
  <2>3. CASE file = NoConfig
    <3>1. told = {} /\ tunnel = NoConfig
      BY <1>2, <2>1, <2>3, NoConfigIsNone DEF Agrees, TgTypeOK, Configs
    <3> QED BY <1>2, <1>6, <2>3, <3>1, OneAtATime DEF Load, OneAtATime, TgTypeOK, Agrees
  <2> QED BY <2>2, <2>3
<1>7. ASSUME NEW c \in TgCalls, Truncate(c)
      PROVE FileInv' /\ \A d \in TgCalls : CallInv(d)'
  BY <1>2, <1>3, <1>4, <1>7, OneAtATime DEF Truncate, AfterEnsure, OneAtATime, TgTypeOK,
     Agrees
<1>8. ASSUME NEW c \in TgCalls, Fill(c)
      PROVE FileInv' /\ \A d \in TgCalls : CallInv(d)'
  BY <1>2, <1>3, <1>4, <1>8, OneAtATime DEF Fill, AfterEnsure, OneAtATime, TgTypeOK, Agrees
<1>9. ASSUME NEW c \in TgCalls, AnswerPoll(c)
      PROVE FileInv' /\ \A d \in TgCalls : CallInv(d)'
  BY <1>2, <1>4, <1>9, OneAtATime DEF AnswerPoll, OneAtATime, TgTypeOK, Agrees
<1>10. ASSUME NEW c \in TgCalls, StartTunnel(c)
       PROVE FileInv' /\ \A d \in TgCalls : CallInv(d)'
  <2>1. CASE UNCHANGED <<tunnel, cfg>>
    BY <1>2, <1>4, <1>10, <2>1, OneAtATime DEF StartTunnel, OneAtATime, TgTypeOK, Agrees
  <2>2. CASE ~ UNCHANGED <<tunnel, cfg>>
    <3> DEFINE new == [cfg[c] EXCEPT !.port = PortOf(c), !.domain = asked[c].domain]
    <3>1. new.secret = cfg[c].secret
      BY <1>1, <1>10, StartedConfig DEF StartTunnel, Working
    <3>2. cfg' = [cfg EXCEPT ![c] = new] /\ tunnel' = new
      BY <1>2, <1>10, <2>2 DEF StartTunnel, TgTypeOK
    <3>3. tgPc' = [tgPc EXCEPT ![c] = "resave"] /\ UNCHANGED <<file, told>>
      BY <1>10, <2>2 DEF StartTunnel
    <3>4. told \subseteq {cfg[c].secret} /\ file.secret = cfg[c].secret
      BY <1>4, <1>10 DEF StartTunnel, Agrees
    <3> HIDE DEF new
    <3> QED BY <1>2, <3>1, <3>2, <3>3, <3>4, OneAtATime DEF OneAtATime, TgTypeOK, Agrees
  <2> QED BY <2>1, <2>2
<1>11. ASSUME NEW c \in TgCalls, Resave(c)
       PROVE FileInv' /\ \A d \in TgCalls : CallInv(d)'
  BY <1>2, <1>3, <1>4, <1>11, OneAtATime DEF Resave, OneAtATime, TgTypeOK, Agrees
<1>12. ASSUME NEW c \in TgCalls, Refill(c)
       PROVE FileInv' /\ \A d \in TgCalls : CallInv(d)'
  BY <1>2, <1>3, <1>4, <1>12, OneAtATime DEF Refill, OneAtATime, TgTypeOK, Agrees
<1>13. CASE StopTunnel
  BY <1>2, <1>4, <1>13 DEF StopTunnel, TgTypeOK, Agrees
<1>14. CASE TgRestart
  BY <1>2, <1>3, <1>4, <1>14 DEF TgRestart, TgTypeOK, Agrees
<1>15. CASE UNCHANGED tgVars
  BY <1>4, <1>15 DEF tgVars, Agrees
<1> QED BY <1>5, <1>6, <1>7, <1>8, <1>9, <1>10, <1>11, <1>12, <1>13, <1>14, <1>15
        DEF TgNext, TgStep

(* What every step but the call itself leaves alone. *)
LEMMA CrossedKept ==
    ASSUME OneAtATime, TgTypeOK, NEW c \in TgCalls, TgStep(c)
    PROVE  /\ UNCHANGED crossed
           /\ \A d \in TgCalls : d # c => tgPc[d] = "idle" /\ tgPc'[d] = "idle"
           /\ OneAtATime'
<1>1. Busy(c) /\ UNCHANGED crossed /\ \E label \in TgLabels : tgPc' = [tgPc EXCEPT ![c] = label]
  BY DEF TgStep, Load, Truncate, Fill, AnswerPoll, StartTunnel, Resave, Refill, TgGoto,
         AfterEnsure, TgLabels, Busy
<1>2. \A d \in TgCalls : d # c => tgPc[d] = "idle" /\ tgPc'[d] = "idle"
  BY <1>1 DEF OneAtATime, Busy, TgTypeOK
<1> QED BY <1>1, <1>2 DEF OneAtATime, Busy

(* A call that found no tunnel, alone, heals what calls that crossed left. *)
LEMMA FollowStep == FollowInv /\ [TgNext]_tgVars => FollowInv'
<1> SUFFICES ASSUME FollowInv, [TgNext]_tgVars, ~crossed'
             PROVE  OneAtATime' /\ (tgFaults' = 0 => RunInv')
  BY TgStepType DEF FollowInv
<1>1. TypeInv /\ TypeInv' /\ TgTypeOK
  BY TgStepType DEF FollowInv, TypeInv
<1>2. ASSUME NEW c \in TgCalls, TgCall(c) PROVE OneAtATime' /\ (tgFaults' = 0 => RunInv')
  <2>1. \A d \in TgCalls : tgPc[d] = "idle"
    BY <1>2 DEF TgCall
  <2>2. tgPc' = [tgPc EXCEPT ![c] = "load"] /\ UNCHANGED <<file, tunnel, cfg, tgFaults>>
    BY <1>2 DEF TgCall, TgGoto
  <2>3. tunnel = NoConfig \/ (~crossed /\ (tgFaults = 0 => RunInv))
    BY <1>2 DEF TgCall, FollowInv
  <2>4. OneAtATime'
    BY <1>1, <2>1, <2>2 DEF OneAtATime, Busy, TgTypeOK
  <2>5. tgFaults' = 0 => RunInv'
    BY <1>1, <2>1, <2>2, <2>3 DEF RunInv, TgTypeOK
  <2> QED BY <2>4, <2>5
<1>3. ASSUME NEW c \in TgCalls, TgStep(c) PROVE OneAtATime' /\ (tgFaults' = 0 => RunInv')
  <2>1. ~crossed /\ OneAtATime
    BY <1>3 DEF TgStep, Load, Truncate, Fill, AnswerPoll, StartTunnel, Resave, Refill, FollowInv
  <2>2. OneAtATime' /\ \A d \in TgCalls : d # c => tgPc[d] = "idle" /\ tgPc'[d] = "idle"
    BY <1>1, <1>3, <2>1, CrossedKept
  <2> SUFFICES ASSUME tgFaults' = 0 PROVE RunInv'
    BY <2>2
  <2>3. tgFaults = 0 /\ ~TgFault
    <3>1. ~TgFault
      BY <1>1 DEF TgTypeOK, TgFault
    <3> QED BY <1>3, <3>1 DEF TgStep, Load, Truncate, Fill, AnswerPoll, StartTunnel,
                 Resave, Refill
  <2>4. RunInv
    BY <2>1, <2>3 DEF FollowInv
  <2>5. CASE Load(c)
    <3>1. tunnel # NoConfig => file = tunnel
      BY <2>2, <2>4, <2>5 DEF RunInv, Load
    <3>2. tgPc'[c] = "truncate" /\ UNCHANGED <<file, tunnel>> /\ (file # NoConfig => cfg'[c] = file)
      BY <1>1, <2>5 DEF Load, TgGoto, TgTypeOK
    <3> QED BY <2>2, <3>1, <3>2 DEF RunInv
  <2>6. CASE Truncate(c)
    BY <1>1, <2>2, <2>3, <2>4, <2>6 DEF RunInv, Truncate, TgGoto, TgTypeOK
  <2>7. CASE Fill(c)
    BY <1>1, <2>2, <2>3, <2>4, <2>7 DEF RunInv, Fill, TgGoto, TgTypeOK, AfterEnsure
  <2>8. CASE AnswerPoll(c)
    BY <1>1, <2>2, <2>4, <2>8 DEF RunInv, AnswerPoll, TgGoto, TgTypeOK
  <2>9. CASE StartTunnel(c)
    <3>1. CASE tunnel = NoConfig /\ tunnel' # NoConfig
      <4>1. tgPc'[c] = "resave" /\ tunnel' = cfg'[c]
        BY <1>1, <2>9, <3>1 DEF StartTunnel, TgGoto, TgTypeOK
      <4> QED BY <2>2, <4>1 DEF RunInv
    <3>2. CASE UNCHANGED <<tunnel, cfg>> /\ tgPc'[c] = "idle"
      BY <1>1, <2>2, <2>4, <2>9, <3>2 DEF RunInv, StartTunnel, TgGoto, TgTypeOK
    <3>3. CASE tunnel' = NoConfig
      BY <3>3 DEF RunInv
    <3> QED BY <1>1, <2>9, <3>1, <3>2, <3>3 DEF StartTunnel, TgGoto, TgTypeOK
  <2>10. CASE Resave(c)
    BY <1>1, <2>2, <2>3, <2>4, <2>10 DEF RunInv, Resave, TgGoto, TgTypeOK
  <2>11. CASE Refill(c)
    BY <1>1, <2>2, <2>3, <2>4, <2>11 DEF RunInv, Refill, TgGoto, TgTypeOK
  <2> QED BY <1>3, <2>5, <2>6, <2>7, <2>8, <2>9, <2>10, <2>11 DEF TgStep
<1>4. CASE StopTunnel
  BY <1>4 DEF StopTunnel, FollowInv, RunInv, OneAtATime, Busy
<1>5. CASE TgRestart
  <2>1. OneAtATime'
    BY <1>5 DEF TgRestart, OneAtATime, Busy
  <2> QED BY <1>5, <2>1 DEF TgRestart, RunInv
<1>6. CASE UNCHANGED tgVars
  BY <1>6 DEF tgVars, FollowInv, RunInv, OneAtATime, Busy
<1> QED BY <1>2, <1>3, <1>4, <1>5, <1>6 DEF TgNext

-----------------------------------------------------------------------------
(* The file, the tunnel, the calls' configs and the links are well-typed,  *)
(* with any number of calls at once: no link is of an empty config.        *)
THEOREM TgTypeCorrect == TgSpec => []TgTypeOK
<1>1. TgInit => TypeInv
  BY TgInitInv DEF TgInv
<1>2. TypeInv => TgTypeOK
  BY DEF TypeInv
<1> QED BY <1>1, <1>2, TgStepType, PTL DEF TgSpec

(* ensure_config, Tunnel::start and stop: when no two calls are going on at*)
(* the same time and saving works, every link ever answered is the same    *)
(* one, and it is the one the tunnel lets in.                              *)
THEOREM LinkStableAlone == TgSpec /\ []OneAtATime => []LinkStable
<1>1. TgInv => LinkStable
  <2> SUFFICES ASSUME TgInv, tgFaults = 0
               PROVE  /\ \A s, t \in told : s = t
                      /\ tunnel # NoConfig => told \subseteq {tunnel.secret}
    BY DEF LinkStable
  <2>1. CASE NobodyWrites
    BY <2>1 DEF TgInv, FileInv, Agrees
  <2>2. CASE ~NobodyWrites
    BY <2>2 DEF TgInv, NobodyWrites, CallInv, Agrees
  <2> QED BY <2>1, <2>2
<1> QED BY <1>1, TgInitInv, TgStepInv, PTL DEF TgSpec

(* save_config after start and after each poll, any number of handlers at  *)
(* once: as long as saving works, the file says what the tunnel runs with, *)
(* unless two calls crossed since a call, alone, found no tunnel.          *)
THEOREM FileFollows == TgSpec => []FileFollowsTunnel
<1>1. FollowInv => FileFollowsTunnel
  BY DEF FollowInv, RunInv, FileFollowsTunnel
<1> QED BY <1>1, TgInitInv, FollowStep, PTL DEF TgSpec

-----------------------------------------------------------------------------
(* Frames are messages, for any streams and reads of any length. The       *)
(* strengthening is about the loop of split: what it has cut so far ends   *)
(* where a message ends, and it stops only where the next one is not there.*)

(* The folds, through their intermediate values.                           *)
LEMMA SumRun ==
  ASSUME NEW s \in Seq(Nat)
  PROVE  \E h \in [0..Len(s) -> Nat] :
            /\ h[0] = 0 /\ \A i \in 1..Len(s) : h[i] = h[i - 1] + s[i]
            /\ FoldLeft(+, 0, s) = h[Len(s)]
<1> DEFINE S == Nat
           g == [p \in S \X S |-> p[1] + p[2]]
           n == Len(s)
           Turn(f) == [t \in SUBSET (DOMAIN s) |->
                         IF t = {} THEN 0 ELSE f[t \ {Max(t)}] + s[Max(t)]]
           c == CHOOSE f : f = Turn(f)
<1>1. n \in Nat /\ DOMAIN s = 1..n /\ \A i \in 1..n : s[i] \in S
  OBVIOUS
<1>2. g \in [S \X S -> S] /\ 0 \in S /\ \A x, y \in S : g[<<x, y>>] = x + y
  OBVIOUS
<1>3. FoldLeft(+, 0, s) = c[DOMAIN s]
  BY DEF FoldLeft, MapThenFoldSet
<1> HIDE DEF n, g, S
<1>a. Steps(S, S, g, 0, s, n)
  BY <1>1, <1>2 DEF Steps
<1>4. PICK f : Iterates(f, S, g, 0, s, n)
  <2> HIDE DEF c, Turn
  <2> QED BY <1>a, IterExists
<1>5. \A t \in SUBSET (1..n) : t # {} => s[Max(t)] \in S
  BY <1>1, GreatestIs
<1>6. f = Turn(f)
  <2>1. \A t \in SUBSET (1..n) :
            f[t] = IF t = {} THEN 0 ELSE f[t \ {Max(t)}] + s[Max(t)]
    BY <1>2, <1>4, <1>5 DEF Iterates
  <2> QED BY <1>1, <1>4, <2>1 DEF Iterates
<1>7. c = Turn(c)
  <2> HIDE DEF Turn
  <2> QED BY <1>6
<1>8. FoldsBy(c, S, g, 0, s, n)
  <2> HIDE DEF c
  <2> QED BY <1>1, <1>2, <1>5, <1>7 DEF FoldsBy
<1> HIDE DEF c
<1>9. PICK h \in [0..n -> S] : /\ h[0] = 0
                               /\ \A i \in 1..n : h[i] = g[<<h[i - 1], s[i]>>]
                               /\ c[1..n] = h[n]
  <2>1. PICK k : RunsTo(k, S, g, 0, s, n, c[1..n])
    BY <1>a, <1>8, RunOfIter
  <2> QED BY <2>1 DEF RunsTo
<1>10. \A i \in 1..n : h[i] = h[i - 1] + s[i]
  <2>1. \A i \in 1..n : h[i - 1] \in S /\ s[i] \in S
    BY <1>1
  <2> QED BY <1>2, <1>9, <2>1
<1> QED BY <1>1, <1>3, <1>9, <1>10 DEF n, S

LEMMA TotalRun ==
  ASSUME NEW s \in Seq(Messages)
  PROVE  \E h \in [0..Len(s) -> Nat] :
            /\ h[0] = 0 /\ \A i \in 1..Len(s) : h[i] = h[i - 1] + Size(s[i])
            /\ Total(s) = h[Len(s)]
<1> DEFINE S == Nat
           A == Messages
           g == [p \in S \X A |-> p[1] + Size(p[2])]
           n == Len(s)
           Turn(f) == [t \in SUBSET (DOMAIN s) |->
                         IF t = {} THEN 0 ELSE f[t \ {Max(t)}] + Size(s[Max(t)])]
           c == CHOOSE f : f = Turn(f)
<1>1. n \in Nat /\ DOMAIN s = 1..n /\ \A i \in 1..n : s[i] \in A
  OBVIOUS
<1>2. g \in [S \X A -> S] /\ 0 \in S /\ \A x \in S, y \in A : g[<<x, y>>] = x + Size(y)
  <2>1. \A x \in S, y \in A : x + Size(y) \in S
    BY DEF Messages, Size
  <2> QED BY <2>1
<1>3. Total(s) = c[DOMAIN s]
  BY DEF Total, FoldLeft, MapThenFoldSet
<1> HIDE DEF n, g, S, A
<1>a. Steps(S, A, g, 0, s, n)
  BY <1>1, <1>2 DEF Steps
<1>4. PICK f : Iterates(f, S, g, 0, s, n)
  <2> HIDE DEF c, Turn
  <2> QED BY <1>a, IterExists
<1>5. \A t \in SUBSET (1..n) : t # {} => s[Max(t)] \in A
  BY <1>1, GreatestIs
<1>6. f = Turn(f)
  <2>1. \A t \in SUBSET (1..n) :
            f[t] = IF t = {} THEN 0 ELSE f[t \ {Max(t)}] + Size(s[Max(t)])
    BY <1>2, <1>4, <1>5 DEF Iterates
  <2> QED BY <1>1, <1>4, <2>1 DEF Iterates
<1>7. c = Turn(c)
  <2> HIDE DEF Turn
  <2> QED BY <1>6
<1>8. FoldsBy(c, S, g, 0, s, n)
  <2> HIDE DEF c
  <2> QED BY <1>1, <1>2, <1>5, <1>7 DEF FoldsBy
<1> HIDE DEF c
<1>9. PICK h \in [0..n -> S] : /\ h[0] = 0
                               /\ \A i \in 1..n : h[i] = g[<<h[i - 1], s[i]>>]
                               /\ c[1..n] = h[n]
  <2>1. PICK k : RunsTo(k, S, g, 0, s, n, c[1..n])
    BY <1>a, <1>8, RunOfIter
  <2> QED BY <2>1 DEF RunsTo
<1>10. \A i \in 1..n : h[i] = h[i - 1] + Size(s[i])
  <2>1. \A i \in 1..n : h[i - 1] \in S /\ s[i] \in A
    BY <1>1
  <2> QED BY <1>2, <1>9, <2>1
<1> QED BY <1>1, <1>3, <1>9, <1>10 DEF n, S

SumOf(s) == FoldLeft(+, 0, s)

LEMMA SumOfAppend ==
  /\ SumOf(<<>>) = 0
  /\ \A s \in Seq(Nat), x \in Nat : SumOf(s) \in Nat /\ SumOf(Append(s, x)) = SumOf(s) + x
<1>1. SumOf(<<>>) = 0
  <2>1. <<>> \in Seq(Nat) /\ Len(<<>>) = 0
    OBVIOUS
  <2> QED BY <2>1, SumRun DEF SumOf
<1>2. ASSUME NEW s \in Seq(Nat), NEW x \in Nat
      PROVE  SumOf(s) \in Nat /\ SumOf(Append(s, x)) = SumOf(s) + x
  <2> DEFINE n == Len(s)
             z == Append(s, x)
             g == [p \in Nat \X Nat |-> p[1] + p[2]]
  <2>1. /\ n \in Nat /\ z \in Seq(Nat) /\ Len(z) = n + 1 /\ z[n + 1] = x
        /\ \A i \in 1..n : z[i] = s[i] /\ s[i] \in Nat
    OBVIOUS
  <2>2. PICK h \in [0..n -> Nat] : /\ h[0] = 0 /\ \A i \in 1..n : h[i] = h[i - 1] + s[i]
                                   /\ SumOf(s) = h[n]
    BY SumRun DEF SumOf
  <2> HIDE DEF z
  <2>3. PICK k \in [0..Len(z) -> Nat] :
            /\ k[0] = 0 /\ \A i \in 1..Len(z) : k[i] = k[i - 1] + z[i]
            /\ SumOf(z) = k[Len(z)]
    BY <2>1, SumRun DEF SumOf
  <2>4. Alike(h, k, g, s, z, n)
    <3>1. ASSUME NEW i \in 1..n
          PROVE  h[i] = g[<<h[i - 1], s[i]>>] /\ k[i] = g[<<k[i - 1], z[i]>>]
      <4>0. n \in Nat /\ i - 1 \in 0..n /\ i - 1 \in 0..Len(z)
        BY <2>1
      <4>1. h[i - 1] \in Nat /\ k[i - 1] \in Nat /\ s[i] \in Nat /\ z[i] \in Nat
        BY <2>1, <4>0
      <4>2. h[i] = h[i - 1] + s[i] /\ k[i] = k[i - 1] + z[i]
        BY <2>1, <2>2, <2>3
      <4>3. g[<<h[i - 1], s[i]>>] = h[i - 1] + s[i] /\ g[<<k[i - 1], z[i]>>] = k[i - 1] + z[i]
        BY <4>1
      <4> HIDE DEF g
      <4> QED BY <4>2, <4>3
    <3>2. h[0] = k[0] /\ n \in Nat /\ \A i \in 1..n : s[i] = z[i]
      BY <2>1, <2>2, <2>3
    <3> HIDE DEF g, n
    <3> QED BY <3>1, <3>2 DEF Alike
  <2> HIDE DEF g, n
  <2>5. \A i \in 0..n : h[i] = k[i]
    BY <2>4, RunsAgree
  <2>6. k[n + 1] = k[n] + x /\ h[n] = k[n]
    BY <2>1, <2>3, <2>5
  <2> QED BY <2>1, <2>2, <2>3, <2>6 DEF z
<1> QED BY <1>1, <1>2

LEMMA TotalOfAppend ==
  /\ Total(<<>>) = 0
  /\ \A s \in Seq(Messages), m \in Messages :
        Total(s) \in Nat /\ Total(Append(s, m)) = Total(s) + Size(m)
<1>1. Total(<<>>) = 0
  <2>1. <<>> \in Seq(Messages) /\ Len(<<>>) = 0
    OBVIOUS
  <2> QED BY <2>1, TotalRun
<1>2. ASSUME NEW s \in Seq(Messages), NEW m \in Messages
      PROVE  Total(s) \in Nat /\ Total(Append(s, m)) = Total(s) + Size(m)
  <2> DEFINE n == Len(s)
             z == Append(s, m)
             g == [p \in Nat \X Messages |-> p[1] + Size(p[2])]
  <2>1. /\ n \in Nat /\ z \in Seq(Messages) /\ Len(z) = n + 1 /\ z[n + 1] = m
        /\ \A i \in 1..n : z[i] = s[i] /\ s[i] \in Messages
    OBVIOUS
  <2>2. PICK h \in [0..n -> Nat] : /\ h[0] = 0 /\ \A i \in 1..n : h[i] = h[i - 1] + Size(s[i])
                                   /\ Total(s) = h[n]
    BY TotalRun
  <2> HIDE DEF z
  <2>3. PICK k \in [0..Len(z) -> Nat] :
            /\ k[0] = 0 /\ \A i \in 1..Len(z) : k[i] = k[i - 1] + Size(z[i])
            /\ Total(z) = k[Len(z)]
    BY <2>1, TotalRun
  <2>4. Alike(h, k, g, s, z, n)
    <3>1. ASSUME NEW i \in 1..n
          PROVE  h[i] = g[<<h[i - 1], s[i]>>] /\ k[i] = g[<<k[i - 1], z[i]>>]
      <4>0. n \in Nat /\ i - 1 \in 0..n /\ i - 1 \in 0..Len(z)
        BY <2>1
      <4>1. h[i - 1] \in Nat /\ k[i - 1] \in Nat /\ s[i] \in Messages /\ z[i] \in Messages
        BY <2>1, <4>0
      <4>2. h[i] = h[i - 1] + Size(s[i]) /\ k[i] = k[i - 1] + Size(z[i])
        BY <2>1, <2>2, <2>3
      <4>3. g[<<h[i - 1], s[i]>>] = h[i - 1] + Size(s[i]) /\ g[<<k[i - 1], z[i]>>] = k[i - 1] + Size(z[i])
        BY <4>1
      <4> HIDE DEF g
      <4> QED BY <4>2, <4>3
    <3>2. h[0] = k[0] /\ n \in Nat /\ \A i \in 1..n : s[i] = z[i]
      BY <2>1, <2>2, <2>3
    <3> HIDE DEF g, n
    <3> QED BY <3>1, <3>2 DEF Alike
  <2> HIDE DEF g, n
  <2>5. \A i \in 0..n : h[i] = k[i]
    BY <2>4, RunsAgree
  <2>6. k[n + 1] = k[n] + Size(m) /\ h[n] = k[n]
    BY <2>1, <2>3, <2>5
  <2> QED BY <2>1, <2>2, <2>3, <2>6 DEF z
<1> QED BY <1>1, <1>2

-----------------------------------------------------------------------------
(* Where messages end.                                                     *)
EndOf(s, n) == Total(SubSeq(s, 1, n))

LEMMA MessageHasLength ==
  ASSUME NEW m \in Messages
  PROVE  /\ m.head \in Nat \ {0} /\ m.body \in Nat
         /\ Size(m) \in Nat \ {0} /\ m.head <= Size(m) /\ (m.body # 0 => m.head < Size(m))
BY DEF Messages, Size

LEMMA EndsAreSums ==
  ASSUME NEW s \in Seq(Messages)
  PROVE  /\ EndOf(s, 0) = 0 /\ EndOf(s, Len(s)) = Total(s)
         /\ \A n \in 1..Len(s) : /\ EndOf(s, n - 1) \in Nat /\ EndOf(s, n) \in Nat
                                 /\ s[n] \in Messages
                                 /\ EndOf(s, n) = EndOf(s, n - 1) + Size(s[n])
<1>1. SubSeq(s, 1, 0) = <<>> /\ SubSeq(s, 1, Len(s)) = s
  OBVIOUS
<1>2. ASSUME NEW n \in 1..Len(s)
      PROVE  /\ SubSeq(s, 1, n - 1) \in Seq(Messages) /\ s[n] \in Messages
             /\ SubSeq(s, 1, n) = Append(SubSeq(s, 1, n - 1), s[n])
  <2>1. SubSeq(s, 1, n - 1) \in Seq(Messages) /\ s[n] \in Messages
    OBVIOUS
  <2>2. SubSeq(s, 1, n) = Append(SubSeq(s, 1, n - 1), s[n])
    OBVIOUS
  <2> QED BY <2>1, <2>2
<1>3. ASSUME NEW n \in 1..Len(s)
      PROVE  /\ EndOf(s, n - 1) \in Nat /\ EndOf(s, n) \in Nat /\ s[n] \in Messages
             /\ EndOf(s, n) = EndOf(s, n - 1) + Size(s[n])
  <2>1. Size(s[n]) \in Nat \ {0} /\ s[n] \in Messages
    BY <1>2, MessageHasLength
  <2>2. /\ EndOf(s, n - 1) \in Nat
        /\ Total(Append(SubSeq(s, 1, n - 1), s[n])) = EndOf(s, n - 1) + Size(s[n])
    BY <1>2, TotalOfAppend DEF EndOf
  <2>3. EndOf(s, n) = Total(Append(SubSeq(s, 1, n - 1), s[n]))
    BY <1>2 DEF EndOf
  <2> QED BY <2>1, <2>2, <2>3
<1> QED BY <1>1, <1>3, TotalOfAppend DEF EndOf

LEMMA EndsGrow ==
  ASSUME NEW s \in Seq(Messages)
  PROVE  /\ \A n \in 0..Len(s) : EndOf(s, n) \in Nat
         /\ \A i, j \in 0..Len(s) : i < j => EndOf(s, i) < EndOf(s, j)
<1> DEFINE N == {j \in Nat : j <= Len(s) =>
                    \A i \in 0..j : EndOf(s, i) \in Nat /\ (i < j => EndOf(s, i) < EndOf(s, j))}
<1>1. 0 \in N
  BY EndsAreSums
<1>2. ASSUME NEW j \in Nat, j \in N PROVE j + 1 \in N
  <2> SUFFICES ASSUME j + 1 <= Len(s), NEW i \in 0..j + 1
      PROVE  EndOf(s, i) \in Nat /\ (i < j + 1 => EndOf(s, i) < EndOf(s, j + 1))
    OBVIOUS
  <2>1. /\ j + 1 \in 1..Len(s) /\ (j + 1) - 1 = j
        /\ \A k \in 0..j : EndOf(s, k) \in Nat /\ (k < j => EndOf(s, k) < EndOf(s, j))
    BY <1>2
  <2>2. /\ EndOf(s, j) \in Nat /\ EndOf(s, j + 1) \in Nat /\ Size(s[j + 1]) \in Nat \ {0}
        /\ EndOf(s, j + 1) = EndOf(s, j) + Size(s[j + 1])
    BY <2>1, EndsAreSums, MessageHasLength
  <2>3. EndOf(s, j) < EndOf(s, j + 1)
    BY <2>2
  <2>4. CASE i \in 0..j
    <3>1. EndOf(s, i) \in Nat /\ (EndOf(s, i) < EndOf(s, j) \/ i = j)
      BY <2>1, <2>4
    <3> QED BY <2>2, <2>3, <3>1
  <2>5. CASE i = j + 1
    BY <2>2, <2>5
  <2> QED BY <2>4, <2>5
<1>3. Nat \subseteq N
  <2> HIDE DEF N
  <2> QED BY <1>1, <1>2, NatSet
<1>4. Len(s) \in Nat
  OBVIOUS
<1> QED BY <1>3, <1>4

(* next_len at the end of a message is about the message that follows.     *)
LEMMA NextLenAtEnd ==
  ASSUME stream \in Seq(Messages), NEW n \in Nat, n < Len(stream), NEW available \in Nat
  PROVE  LET m == stream[n + 1]
         IN  /\ m \in Messages /\ Size(m) < More /\ More \in Nat
             /\ EndOf(stream, n + 1) = EndOf(stream, n) + Size(m)
             /\ NextLen(EndOf(stream, n), available) =
                   IF available < m.head THEN More
                   ELSE IF m.body = 0 THEN 0
                   ELSE IF available >= Size(m) THEN Size(m) ELSE More
<1> DEFINE Here(i) == EndOf(stream, i - 1) <= EndOf(stream, n) /\ EndOf(stream, n) < EndOf(stream, i)
           c == CHOOSE i \in 1..Len(stream) : Here(i)
           m == stream[n + 1]
<1>1. /\ n + 1 \in 1..Len(stream) /\ (n + 1) - 1 = n /\ n \in 0..Len(stream)
      /\ n + 1 \in 0..Len(stream) /\ Len(stream) \in 0..Len(stream)
  OBVIOUS
<1>2. /\ EndOf(stream, n) \in Nat /\ EndOf(stream, n + 1) \in Nat /\ m \in Messages
      /\ EndOf(stream, n + 1) = EndOf(stream, n) + Size(m)
      /\ Size(m) \in Nat \ {0}
  BY <1>1, EndsAreSums, MessageHasLength
<1>3. Size(m) < More /\ More \in Nat
  <2>1. EndOf(stream, n + 1) <= EndOf(stream, Len(stream)) /\ EndOf(stream, Len(stream)) \in Nat
    BY <1>1, EndsGrow
  <2>2. EndOf(stream, Len(stream)) = Total(stream)
    BY EndsAreSums
  <2> QED BY <1>2, <2>1, <2>2 DEF More
<1>4. Here(n + 1)
  BY <1>1, <1>2
<1>5. \A i \in 1..Len(stream) : Here(i) => i = n + 1
  <2> SUFFICES ASSUME NEW i \in 1..Len(stream), Here(i), i # n + 1 PROVE FALSE
    OBVIOUS
  <2>1. i \in 0..Len(stream) /\ i - 1 \in 0..Len(stream)
    OBVIOUS
  <2>2. EndOf(stream, i) \in Nat /\ EndOf(stream, i - 1) \in Nat
    BY <2>1, EndsGrow
  <2>3. CASE i < n + 1
    <3>1. EndOf(stream, i) <= EndOf(stream, n)
      <4>1. i = n \/ i < n
        BY <2>3
      <4> QED BY <1>1, <1>2, <2>1, <4>1, EndsGrow
    <3> QED BY <1>2, <2>2, <3>1
  <2>4. CASE n + 1 < i
    <3>1. n < i - 1
      BY <2>4
    <3>2. EndOf(stream, n) < EndOf(stream, i - 1)
      BY <1>1, <2>1, <3>1, EndsGrow
    <3> QED BY <1>2, <2>2, <3>2
  <2> QED BY <2>3, <2>4
<1>6. c = n + 1
  <2> HIDE DEF Here
  <2> QED BY <1>1, <1>4, <1>5
<1>7. NextLen(EndOf(stream, n), available) =
        IF available < stream[c].head THEN More
        ELSE IF stream[c].body = 0 THEN 0
        ELSE IF available >= Size(stream[c]) THEN Size(stream[c]) ELSE More
  BY DEF NextLen, EndOf
<1> HIDE DEF c
<1> QED BY <1>2, <1>3, <1>6, <1>7

-----------------------------------------------------------------------------
(* The loop of split.                                                      *)

(* p are the sizes of the first messages, none of which is empty.          *)
AreMessages(p) == Whole(Len(p)) /\ \A i \in DOMAIN p : p[i] = Size(stream[i])

LoopRecords(upTo) ==
    [out : Seq(Nat \ {0}), at : 0..upTo, off : BOOLEAN, over : BOOLEAN]

(* What the loop has cut so far, after the frames that are sent already.   *)
CutRightly(acc, upTo) ==
    LET p == parts \o acc.out
    IN  /\ SumOf(p) = acc.at
        /\ acc.off => acc.over /\ acc.at = upTo
        /\ ~acc.off => AreMessages(p) /\ acc.at = EndOf(stream, Len(p))
        /\ acc.over /\ ~acc.off =>
              acc.at = upTo \/ NextLen(acc.at, upTo - acc.at) = More

LoopStates(upTo) == {acc \in LoopRecords(upTo) : CutRightly(acc, upTo)}

LEMMA FrameAdded ==
  ASSUME NEW p \in Seq(Nat \ {0}), NEW q \in Seq(Nat \ {0}), NEW x \in Nat \ {0}
  PROVE  /\ p \o q \in Seq(Nat \ {0}) /\ Append(q, x) \in Seq(Nat \ {0})
         /\ p \o Append(q, x) = Append(p \o q, x)
         /\ Len(p \o Append(q, x)) = Len(p \o q) + 1
         /\ SumOf(p \o Append(q, x)) = SumOf(p \o q) + x
<1>1. p \o q \in Seq(Nat \ {0}) /\ Append(q, x) \in Seq(Nat \ {0}) /\ p \o q \in Seq(Nat)
  OBVIOUS
<1>2. p \o Append(q, x) = Append(p \o q, x)
  OBVIOUS
<1>3. Len(Append(p \o q, x)) = Len(p \o q) + 1
  BY <1>1
<1>4. SumOf(Append(p \o q, x)) = SumOf(p \o q) + x
  BY <1>1, SumOfAppend
<1> QED BY <1>1, <1>2, <1>3, <1>4

LEMMA MessageAdded ==
  ASSUME NEW p \in Seq(Nat \ {0}), AreMessages(p), Len(p) < Len(stream),
         stream \in Seq(Messages), stream[Len(p) + 1].body # 0
  PROVE  AreMessages(Append(p, Size(stream[Len(p) + 1])))
<1> DEFINE n == Len(p)
           x == Size(stream[n + 1])
           z == Append(p, x)
<1>1. /\ n \in Nat /\ Len(z) = n + 1 /\ DOMAIN z = 1..(n + 1) /\ z[n + 1] = x
      /\ \A i \in 1..n : z[i] = p[i]
  OBVIOUS
<1>2. Whole(n) /\ \A i \in 1..n : p[i] = Size(stream[i])
  BY DEF AreMessages
<1>3. Whole(n + 1)
  BY <1>1, <1>2 DEF Whole
<1>4. \A i \in 1..(n + 1) : z[i] = Size(stream[i])
  BY <1>1, <1>2
<1> HIDE DEF z
<1> QED BY <1>1, <1>3, <1>4 DEF AreMessages

LEMMA TurnKeeps ==
  ASSUME stream \in Seq(Messages), parts \in Seq(Nat \ {0}),
         NEW upTo \in 0..Total(stream), NEW acc \in LoopStates(upTo)
  PROVE  /\ CutNext(acc, upTo) \in LoopStates(upTo)
         /\ CutNext(acc, upTo).over \/ CutNext(acc, upTo).at > acc.at
<1> DEFINE length == NextLen(acc.at, upTo - acc.at)
           p == parts \o acc.out
           n == Len(p)
           m == stream[n + 1]
           new == CutNext(acc, upTo)
<1>1. /\ acc \in LoopRecords(upTo) /\ CutRightly(acc, upTo)
      /\ acc.out \in Seq(Nat \ {0}) /\ acc.at \in 0..upTo /\ acc.off \in BOOLEAN
      /\ acc.over \in BOOLEAN
  BY DEF LoopStates, LoopRecords
<1>2. Total(stream) \in Nat /\ upTo \in Nat /\ acc.at \in Nat /\ p \in Seq(Nat \ {0}) /\ n \in Nat
  <2>1. Total(stream) \in Nat
    BY EndsAreSums, EndsGrow
  <2> QED BY <1>1, <2>1
<1>3. CASE acc.over \/ acc.at = upTo \/ length = More
  <2>1. new = [acc EXCEPT !.over = TRUE]
    BY <1>3 DEF CutNext
  <2>2. /\ new \in LoopRecords(upTo) /\ new.over
        /\ new.out = acc.out /\ new.at = acc.at /\ new.off = acc.off
    BY <1>1, <2>1 DEF LoopRecords
  <2>3. CutRightly(new, upTo)
    <3> HIDE DEF new
    <3> QED BY <1>1, <1>3, <2>2 DEF CutRightly
  <2> QED BY <2>2, <2>3 DEF LoopStates
<1>4. CASE ~(acc.over \/ acc.at = upTo \/ length = More)
  <2>1. /\ ~acc.off /\ SumOf(p) = acc.at /\ AreMessages(p)
        /\ acc.at = EndOf(stream, n) /\ acc.at < upTo /\ upTo - acc.at \in Nat \ {0}
    BY <1>1, <1>2, <1>4 DEF CutRightly
  <2>2. n < Len(stream)
    <3>1. n <= Len(stream) /\ Len(stream) \in Nat
      BY <2>1 DEF AreMessages, Whole
    <3>2. n # Len(stream)
      BY <1>2, <2>1, EndsAreSums
    <3> QED BY <1>2, <3>1, <3>2
  <2>3. /\ m \in Messages /\ Size(m) < More /\ More \in Nat
        /\ EndOf(stream, n + 1) = EndOf(stream, n) + Size(m)
        /\ length = IF upTo - acc.at < m.head THEN More
                    ELSE IF m.body = 0 THEN 0
                    ELSE IF upTo - acc.at >= Size(m) THEN Size(m) ELSE More
    <3> HIDE DEF p, n
    <3> QED BY <1>2, <2>1, <2>2, NextLenAtEnd
  <2>4. Size(m) \in Nat \ {0}
    BY <2>3, MessageHasLength
  <2>5. CASE length = 0
    <3>1. new = [out |-> Append(acc.out, upTo - acc.at), at |-> upTo, off |-> TRUE, over |-> TRUE]
      BY <1>4, <2>5 DEF CutNext
    <3>2. new.out = Append(acc.out, upTo - acc.at) /\ new.at = upTo /\ new.off /\ new.over
      BY <3>1
    <3>3. new \in LoopRecords(upTo)
      <4>1. Append(acc.out, upTo - acc.at) \in Seq(Nat \ {0})
        BY <1>1, <2>1, FrameAdded
      <4> QED BY <1>2, <3>1, <4>1 DEF LoopRecords
    <3>4. SumOf(parts \o new.out) = acc.at + (upTo - acc.at)
      BY <1>1, <2>1, <3>2, FrameAdded
    <3>5. CutRightly(new, upTo)
      <4>1. SumOf(parts \o new.out) = upTo
        BY <1>2, <3>4
      <4> HIDE DEF new
      <4> QED BY <3>2, <4>1 DEF CutRightly
    <3> QED BY <3>2, <3>3, <3>5 DEF LoopStates
  <2>6. CASE length # 0
    <3>1. length = Size(m) /\ m.body # 0 /\ Size(m) <= upTo - acc.at
      BY <1>4, <2>1, <2>3, <2>4, <2>6
    <3>2. new = [acc EXCEPT !.out = Append(acc.out, length), !.at = acc.at + length]
      BY <1>4, <2>6 DEF CutNext
    <3>3. /\ new.out = Append(acc.out, Size(m)) /\ new.at = acc.at + Size(m)
          /\ new.off = acc.off /\ new.over = acc.over
      BY <1>1, <3>1, <3>2 DEF LoopRecords
    <3>4. acc.at + Size(m) \in 0..upTo /\ acc.at + Size(m) > acc.at
      BY <1>1, <1>2, <2>4, <3>1
    <3>5. new \in LoopRecords(upTo)
      <4>1. Append(acc.out, Size(m)) \in Seq(Nat \ {0})
        BY <1>1, <2>4, FrameAdded
      <4> QED BY <1>1, <3>1, <3>2, <3>4, <4>1 DEF LoopRecords
    <3>6. /\ parts \o new.out = Append(p, Size(m)) /\ Len(parts \o new.out) = n + 1
          /\ SumOf(parts \o new.out) = acc.at + Size(m)
      <4> DEFINE x == Size(m)
                 q == acc.out
      <4>1. q \in Seq(Nat \ {0}) /\ x \in Nat \ {0} /\ new.out = Append(q, x)
        BY <1>1, <2>4, <3>3
      <4>2. SumOf(parts \o q) = acc.at /\ n = Len(parts \o q) /\ p = parts \o q
        BY <2>1
      <4> HIDE DEF new, p, n, m, q, x
      <4>3. /\ parts \o Append(q, x) = Append(parts \o q, x)
            /\ Len(parts \o Append(q, x)) = Len(parts \o q) + 1
            /\ SumOf(parts \o Append(q, x)) = SumOf(parts \o q) + x
        BY <4>1, FrameAdded
      <4> QED BY <4>1, <4>2, <4>3 DEF x
    <3>7. AreMessages(parts \o new.out)
      <4> HIDE DEF p, new
      <4> QED BY <1>2, <2>1, <2>2, <3>1, <3>6, MessageAdded
    <3>8. CutRightly(new, upTo)
      <4>1. acc.at + Size(m) = EndOf(stream, n + 1)
        BY <2>1, <2>3
      <4>2. ~new.off /\ ~new.over
        BY <1>4, <2>1, <3>3
      <4> HIDE DEF new, n, m, p
      <4> QED BY <3>3, <3>6, <3>7, <4>1, <4>2 DEF CutRightly
    <3> QED BY <3>3, <3>4, <3>5, <3>8 DEF LoopStates
  <2> QED BY <2>5, <2>6
<1> QED BY <1>3, <1>4

(* Every turn but the last cuts off a byte at least, so the turns suffice. *)
LEMMA CutsAreRight ==
  ASSUME stream \in Seq(Messages), parts \in Seq(Nat \ {0}),
         NEW upTo \in 0..Total(stream), NEW from \in 0..upTo,
         NothingCut(from) \in LoopStates(upTo)
  PROVE  /\ Cuts(from, upTo) \in LoopStates(upTo)
         /\ Cuts(from, upTo).over \/ Cuts(from, upTo).at = upTo
<1> DEFINE S == LoopStates(upTo)
           b == NothingCut(from)
           n == upTo - from
           s == [i \in 1..n |-> i]
           g == [q \in S \X Nat |-> CutNext(q[1], upTo)]
           Turn(f) == [t \in SUBSET (DOMAIN s) |->
                         IF t = {} THEN b ELSE CutNext(f[t \ {Max(t)}], upTo)]
           c == CHOOSE f : f = Turn(f)
<1>0. Total(stream) \in Nat
  BY EndsAreSums, EndsGrow
<1>1. n \in Nat /\ DOMAIN s = 1..n /\ \A i \in 1..n : s[i] \in Nat
  BY <1>0
<1>2. g \in [S \X Nat -> S] /\ b \in S /\ \A x \in S, y \in Nat : g[<<x, y>>] = CutNext(x, upTo)
  <2>1. \A x \in S : CutNext(x, upTo) \in S
    BY TurnKeeps
  <2> HIDE DEF S
  <2> QED BY <2>1 DEF S
<1>3. Cuts(from, upTo) = c[DOMAIN s]
  BY DEF Cuts, FoldLeft, MapThenFoldSet
<1> HIDE DEF n, g, S, s, b
<1>a. Steps(S, Nat, g, b, s, n)
  BY <1>1, <1>2 DEF Steps
<1>4. PICK f : Iterates(f, S, g, b, s, n)
  <2> HIDE DEF c, Turn
  <2> QED BY <1>a, IterExists
<1>5. \A t \in SUBSET (1..n) : t # {} => s[Max(t)] \in Nat
  BY <1>1, GreatestIs
<1>6. f = Turn(f)
  <2>1. \A t \in SUBSET (1..n) :
            f[t] = IF t = {} THEN b ELSE CutNext(f[t \ {Max(t)}], upTo)
    BY <1>2, <1>4, <1>5 DEF Iterates
  <2> QED BY <1>1, <1>4, <2>1 DEF Iterates
<1>7. c = Turn(c)
  <2> HIDE DEF Turn
  <2> QED BY <1>6
<1>8. FoldsBy(c, S, g, b, s, n)
  <2> HIDE DEF c
  <2> QED BY <1>1, <1>2, <1>5, <1>7 DEF FoldsBy
<1> HIDE DEF c
<1>9. PICK h \in [0..n -> S] : /\ h[0] = b
                               /\ \A i \in 1..n : h[i] = g[<<h[i - 1], s[i]>>]
                               /\ c[1..n] = h[n]
  <2>1. PICK k : RunsTo(k, S, g, b, s, n, c[1..n])
    BY <1>a, <1>8, RunOfIter
  <2> QED BY <2>1 DEF RunsTo
<1>10. \A i \in 1..n : h[i] = CutNext(h[i - 1], upTo)
  <2>1. \A i \in 1..n : h[i - 1] \in S /\ s[i] \in Nat
    BY <1>1
  <2> QED BY <1>2, <1>9, <2>1
<1> DEFINE N == {i \in Nat : i <= n => h[i].over \/ h[i].at >= from + i}
<1>11. 0 \in N
  <2>1. h[0].at = from
    BY <1>9 DEF b, NothingCut
  <2> QED BY <1>0, <2>1
<1>12. ASSUME NEW i \in Nat, i \in N PROVE i + 1 \in N
  <2> SUFFICES ASSUME i + 1 <= n PROVE h[i + 1].over \/ h[i + 1].at >= from + (i + 1)
    OBVIOUS
  <2>1. /\ i + 1 \in 1..n /\ (i + 1) - 1 = i /\ h[i] \in S /\ h[i + 1] \in S
        /\ h[i].over \/ h[i].at >= from + i
    BY <1>1, <1>12
  <2>2. h[i + 1] = CutNext(h[i], upTo)
    BY <1>10, <2>1
  <2>3. h[i + 1].over \/ h[i + 1].at > h[i].at
    BY <2>1, <2>2, TurnKeeps DEF S
  <2>4. h[i].over => h[i + 1].over
    BY <2>1, <2>2 DEF CutNext, S, LoopStates, LoopRecords
  <2>5. h[i].at \in Nat /\ h[i + 1].at \in Nat /\ from \in Nat
    BY <1>0, <2>1 DEF S, LoopStates, LoopRecords
  <2> QED BY <2>1, <2>3, <2>4, <2>5
<1>13. Nat \subseteq N
  <2> HIDE DEF N
  <2> QED BY <1>11, <1>12, NatSet
<1>14. h[n] \in S /\ (h[n].over \/ h[n].at >= from + n)
  BY <1>1, <1>13
<1>15. h[n].at \in 0..upTo /\ from + n = upTo /\ upTo \in Nat
  BY <1>0, <1>14 DEF S, LoopStates, LoopRecords, n
<1>16. Cuts(from, upTo) = h[n]
  BY <1>1, <1>3, <1>9
<1> QED BY <1>14, <1>15, <1>16 DEF S

-----------------------------------------------------------------------------
(* What FramesAreMessages says of a stream of which so much was read, cut  *)
(* and sent, beyond the sum of the frames.                                 *)
FramesMatch(s, g, c, p, off, over) ==
    /\ off \/ over => c = g
    /\ ~off /\ ~over =>
          /\ Len(p) <= Len(s) /\ \A i \in 1..Len(p) : s[i].body # 0
          /\ \A i \in DOMAIN p : p[i] = Size(s[i])
          /\ Len(p) < Len(s) => \/ s[Len(p) + 1].body = 0 /\ g - c < s[Len(p) + 1].head
                                \/ g - c < Size(s[Len(p) + 1])

FramesHold == SumOf(parts) = cut /\ FramesMatch(stream, got, cut, parts, disabled, ended)

LEMMA FramesInWords == FramesAreMessages <=> FramesHold
<1>1. FramesAreMessages <=>
        FoldLeft(+, 0, parts) = cut /\ FramesMatch(stream, got, cut, parts, disabled, ended)
  BY Zenon DEF FramesAreMessages, FramesMatch, Whole
<1> QED BY <1>1 DEF SumOf, FramesHold

(* What is cut ends where a message ends, as long as the splitter works.   *)
TsInv ==
    /\ TsTypeOK
    /\ FramesHold
    /\ ~disabled /\ ~ended => cut = EndOf(stream, Len(parts))

LEMMA StreamIsTyped ==
  ASSUME stream \in Streams
  PROVE  stream \in Seq(Messages) /\ Total(stream) \in Nat /\ Len(stream) \in Nat
<1>1. stream \in Seq(Messages)
  BY TsAssumption
<1> QED BY <1>1, EndsAreSums, EndsGrow

LEMMA TsInitInv == TsInit => TsInv
<1> SUFFICES ASSUME TsInit PROVE TsInv
  OBVIOUS
<1> USE DEF TsInit
<1>1. stream \in Seq(Messages) /\ Total(stream) \in Nat /\ Len(stream) \in Nat
  BY StreamIsTyped
<1>2. TsTypeOK
  <2>1. parts \in Seq(Nat \ {0}) /\ 0 \in 0..Total(stream) /\ 0 \in 0..0
    BY <1>1
  <2> QED BY <2>1 DEF TsTypeOK
<1>3. parts = <<>> /\ Len(parts) = 0 /\ DOMAIN parts = {}
  OBVIOUS
<1>4. Len(stream) > 0 => Size(stream[1]) \in Nat \ {0}
  BY <1>1, MessageHasLength
<1>5. FramesHold
  <2>1. SumOf(parts) = cut
    BY SumOfAppend
  <2>2. Len(parts) < Len(stream) => got - cut < Size(stream[Len(parts) + 1])
    BY <1>1, <1>3, <1>4
  <2> QED BY <1>1, <1>3, <2>1, <2>2 DEF FramesHold, FramesMatch
<1>6. cut = EndOf(stream, Len(parts))
  BY <1>1, <1>3, EndsAreSums
<1> QED BY <1>2, <1>5, <1>6 DEF TsInv

LEMMA ReadKeeps ==
  ASSUME TsInv, Read
  PROVE  TsInv'
<1> USE DEF TsInv
<1>1. /\ stream \in Streams /\ stream \in Seq(Messages) /\ Total(stream) \in Nat
      /\ parts \in Seq(Nat \ {0}) /\ cut \in Nat /\ got \in Nat /\ cut <= got
      /\ disabled \in BOOLEAN /\ ended \in BOOLEAN /\ Len(stream) \in Nat
  BY StreamIsTyped DEF TsTypeOK
<1>2. PICK upTo \in (got + 1)..Total(stream) :
          /\ got' = upTo
          /\ IF disabled
             THEN parts' = Append(parts, upTo - got) /\ cut' = upTo /\ UNCHANGED disabled
             ELSE LET cuts == Cuts(cut, upTo)
                  IN  parts' = parts \o cuts.out /\ cut' = cuts.at /\ disabled' = cuts.off
  BY DEF Read
<1>3. ~ended /\ stream' = stream /\ ended' = ended
  BY DEF Read
<1>4. /\ upTo \in Nat /\ upTo > got /\ upTo \in 0..Total(stream) /\ cut \in 0..upTo
      /\ upTo - got \in Nat \ {0} /\ got' \in 0..Total(stream)
  BY <1>1, <1>2
<1>5. CASE disabled
  <2>1. parts' = Append(parts, upTo - got) /\ cut' = upTo /\ disabled' = disabled /\ cut = got
    BY <1>2, <1>5 DEF FramesHold, FramesMatch
  <2>2. TsTypeOK'
    BY <1>1, <1>2, <1>3, <1>4, <2>1 DEF TsTypeOK
  <2>3. SumOf(parts') = cut'
    <3>1. parts \in Seq(Nat) /\ upTo - got \in Nat
      BY <1>1, <1>4
    <3>2. SumOf(parts) = got
      BY <2>1 DEF FramesHold
    <3>3. SumOf(parts') = got + (upTo - got)
      BY <2>1, <3>1, <3>2, SumOfAppend
    <3> QED BY <1>1, <1>4, <2>1, <3>3
  <2>5. FramesMatch(stream', got', cut', parts', disabled', ended')
    BY <1>2, <1>5, <2>1 DEF FramesMatch
  <2> QED BY <1>5, <2>1, <2>2, <2>3, <2>5 DEF FramesHold
<1>6. CASE ~disabled
  <2> DEFINE cuts == Cuts(cut, upTo)
  <2>1. parts' = parts \o cuts.out /\ cut' = cuts.at /\ disabled' = cuts.off
    BY <1>2, <1>6
  <2>2. NothingCut(cut) \in LoopStates(upTo)
    <3> DEFINE acc == NothingCut(cut)
    <3>1. /\ acc.out = <<>> /\ acc.at = cut /\ ~acc.off /\ ~acc.over
          /\ acc \in LoopRecords(upTo)
      BY <1>4 DEF NothingCut, LoopRecords
    <3>2. parts \o acc.out = parts
      BY <1>1, <3>1
    <3>3. SumOf(parts) = cut /\ AreMessages(parts) /\ cut = EndOf(stream, Len(parts))
      BY <1>3, <1>6 DEF FramesHold, FramesMatch, AreMessages, Whole
    <3>4. CutRightly(acc, upTo)
      <4> HIDE DEF acc
      <4> QED BY <3>1, <3>2, <3>3 DEF CutRightly
    <3> QED BY <3>1, <3>4 DEF LoopStates
  <2>3. cuts \in LoopStates(upTo) /\ (cuts.over \/ cuts.at = upTo)
    BY <1>1, <1>4, <2>2, CutsAreRight
  <2> HIDE DEF cuts
  <2>4. /\ cuts \in LoopRecords(upTo) /\ CutRightly(cuts, upTo)
        /\ cuts.out \in Seq(Nat \ {0}) /\ cuts.at \in 0..upTo /\ cuts.off \in BOOLEAN
    BY <2>3 DEF LoopStates, LoopRecords
  <2>5. parts' \in Seq(Nat \ {0})
    BY <1>1, <2>1, <2>4
  <2>6. TsTypeOK'
    BY <1>1, <1>2, <1>3, <1>4, <2>1, <2>4, <2>5 DEF TsTypeOK
  <2>7. /\ SumOf(parts') = cut'
        /\ disabled' => cut' = got'
        /\ ~disabled' => AreMessages(parts') /\ cut' = EndOf(stream, Len(parts'))
        /\ ~disabled' => cut' = got' \/ NextLen(cut', upTo - cut') = More
    BY <1>2, <2>1, <2>3, <2>4 DEF CutRightly
  <2>8. ASSUME ~disabled', Len(parts') < Len(stream)
        PROVE  \/ /\ stream[Len(parts') + 1].body = 0
                  /\ got' - cut' < stream[Len(parts') + 1].head
               \/ got' - cut' < Size(stream[Len(parts') + 1])
    <3> DEFINE k == Len(parts')
               m == stream[k + 1]
               available == upTo - cut'
    <3>1. k \in Nat /\ available \in Nat /\ got' = upTo
      BY <1>2, <1>4, <2>1, <2>4, <2>5
    <3>2. /\ m \in Messages /\ Size(m) < More /\ More \in Nat
          /\ NextLen(EndOf(stream, k), available) =
                IF available < m.head THEN More
                ELSE IF m.body = 0 THEN 0
                ELSE IF available >= Size(m) THEN Size(m) ELSE More
      <4> HIDE DEF k, available
      <4> QED BY <1>1, <2>8, <3>1, NextLenAtEnd DEF k
    <3>3. m.head \in Nat /\ Size(m) \in Nat \ {0} /\ m.head <= Size(m)
      BY <3>2, MessageHasLength
    <3>4. cut' = got' \/ NextLen(EndOf(stream, k), available) = More
      BY <2>7, <2>8
    <3>5. CASE cut' = got'
      <4>1. got' - cut' = 0
        BY <1>2, <1>4, <3>5
      <4> QED BY <3>3, <4>1
    <3>6. CASE NextLen(EndOf(stream, k), available) = More
      <4>1. available < m.head \/ available < Size(m)
        <5> HIDE DEF m, available, k
        <5> QED BY <3>1, <3>2, <3>3, <3>6
      <4>2. available < Size(m)
        <5> HIDE DEF m, available, k
        <5> QED BY <3>1, <3>3, <4>1
      <4> QED BY <3>1, <4>2
    <3> QED BY <3>4, <3>5, <3>6
  <2>9. ~disabled' => /\ Len(parts') <= Len(stream)
                      /\ \A i \in 1..Len(parts') : stream[i].body # 0
                      /\ \A i \in DOMAIN parts' : parts'[i] = Size(stream[i])
    BY <2>7 DEF AreMessages, Whole
  <2>10. FramesMatch(stream, got', cut', parts', disabled', ended')
    BY <1>3, <2>7, <2>8, <2>9 DEF FramesMatch
  <2>11. FramesHold'
    BY <1>3, <2>7, <2>10 DEF FramesHold
  <2>12. ~disabled' => cut' = EndOf(stream', Len(parts'))
    BY <1>3, <2>7
  <2> QED BY <2>6, <2>11, <2>12
<1> QED BY <1>1, <1>5, <1>6

LEMMA FlushKeeps ==
  ASSUME TsInv, Flush
  PROVE  TsInv'
<1> USE DEF TsInv
<1>1. /\ stream \in Streams /\ got \in 0..Total(stream) /\ got' = got /\ stream' = stream
      /\ disabled' = disabled /\ ended' /\ cut' = got
      /\ parts' = IF cut = got THEN parts ELSE Append(parts, got - cut)
      /\ ended' \in BOOLEAN /\ disabled \in BOOLEAN
      /\ parts \in Seq(Nat \ {0}) /\ cut \in 0..got
  BY DEF Flush, TsTypeOK
<1>2. Total(stream) \in Nat /\ got \in Nat /\ cut \in Nat
  BY <1>1, StreamIsTyped
<1>3. cut # got => got - cut \in Nat \ {0}
  BY <1>1, <1>2
<1>4. parts' \in Seq(Nat \ {0}) /\ parts \in Seq(Nat)
  BY <1>1, <1>3
<1>5. SumOf(parts) = cut
  BY DEF FramesHold
<1>6. SumOf(parts') = cut'
  <2>1. CASE cut = got
    BY <1>1, <1>5, <2>1
  <2>2. CASE cut # got
    <3>1. SumOf(Append(parts, got - cut)) = SumOf(parts) + (got - cut)
      BY <1>3, <1>4, <2>2, SumOfAppend
    <3>2. SumOf(parts') = cut + (got - cut)
      BY <1>1, <1>5, <2>2, <3>1
    <3> QED BY <1>1, <1>2, <3>2
  <2> QED BY <2>1, <2>2
<1>7. TsTypeOK'
  <2>1. cut' \in 0..got'
    BY <1>1, <1>2
  <2> QED BY <1>1, <1>4, <2>1 DEF TsTypeOK
<1>8. FramesMatch(stream', got', cut', parts', disabled', ended')
  BY <1>1 DEF FramesMatch
<1> QED BY <1>1, <1>6, <1>7, <1>8 DEF FramesHold

LEMMA TsInvariant == TsSpec => []TsInv
<1>1. TsInit => TsInv
  BY TsInitInv
<1>2. TsInv /\ [TsNext]_tsVars => TsInv'
  <2>1. ASSUME TsInv, UNCHANGED tsVars PROVE TsInv'
    BY <2>1 DEF TsInv, TsTypeOK, FramesHold, tsVars
  <2> QED BY <2>1, ReadKeeps, FlushKeeps DEF TsNext
<1> QED BY <1>1, <1>2, PTL DEF TsSpec

(* What is cut never passes what was read, and frames are never empty, for *)
(* any streams.                                                            *)
THEOREM TsTypeCorrect == TsSpec => []TsTypeOK
<1>1. TsInv => TsTypeOK
  BY DEF TsInv
<1> QED BY <1>1, TsInvariant, PTL

(* For any streams of the client and reads of any length the frames are    *)
(* its messages, in order and whole, up to the first empty one; none that  *)
(* is there in full waits, and at the end no byte is lost or sent twice    *)
(* (splitter.rs: split, flush).                                            *)
THEOREM FramesFollowMessages == TsSpec => []FramesAreMessages
<1>1. TsInv => FramesAreMessages
  BY FramesInWords DEF TsInv
<1> QED BY <1>1, TsInvariant, PTL

-----------------------------------------------------------------------------
(* The pauses of the routes, for any keys, thresholds and pauses and any   *)
(* number of fronts. What the file says of a key is what the memory says;  *)
(* the time left may be longer in it, for a start cuts it.                 *)

(* Two to the power of n is a natural number: there are as many subsets. *)
LEMMA PowerIsNatural ==
  ASSUME NEW n \in Nat
  PROVE  2 ^ n \in Nat
<1>1. IsFiniteSet(1..n) /\ Cardinality(1..n) = n
  BY FS_Interval
<1>2. IsFiniteSet(SUBSET (1..n)) /\ Cardinality(SUBSET (1..n)) = 2 ^ Cardinality(1..n)
  BY <1>1, FS_SUBSET
<1>3. Cardinality(SUBSET (1..n)) \in Nat
  BY <1>2, FS_CardinalityType
<1> QED BY <1>1, <1>2, <1>3, Zenon

(* A pause lasts at most SuppressMax. *)
LEMMA PauseIsBounded ==
  ASSUME NEW n \in Nat
  PROVE  Pause(n) \in 0..SuppressMax
<1> DEFINE d == Min({n, MaxDoublings})
<1>1. d \in Nat
  BY MinOfTwo, RtAssumption
<1>2. 2 ^ d \in Nat
  BY <1>1, PowerIsNatural
<1> DEFINE p == 2 ^ d
<1>3. Pause(n) = Min({p, SuppressMax})
  BY DEF Pause
<1>4. p \in Nat
  BY <1>2
<1> HIDE DEF p
<1> QED BY <1>3, <1>4, MinOfTwo, RtAssumption

-----------------------------------------------------------------------------
(* Types and the file together are inductive. *)
RtInv == RtTypeOK /\ CrashLosesNothing

Health == [failures : Nat, suppressions : 0..MaxDoublings, left : 0..SuppressMax,
           burst : BOOLEAN]
BelowThreshold(es) == \A k \in HealthKeys : es[k].failures < ThresholdOf(k)

LEMMA ThresholdIsPositive == \A k : ThresholdOf(k) \in Nat \ {0}
  BY RtAssumption DEF ThresholdOf

LEMMA UnharmedIsHealth == Unharmed \in Health /\ Unharmed.failures = 0
  BY RtAssumption DEF Health, Unharmed

LEMMA FieldsOfHealth ==
  ASSUME NEW e \in Health
  PROVE  /\ e.failures \in Nat /\ e.suppressions \in 0..MaxDoublings /\ e.suppressions \in Nat
         /\ e.left \in 0..SuppressMax /\ e.left \in Nat /\ e.burst \in BOOLEAN
  BY RtAssumption DEF Health

(* An entry with one failure more, and one without. *)
LEMMA CountedFailure ==
  ASSUME NEW e \in Health, NEW n \in Nat, NEW b \in BOOLEAN
  PROVE  LET c == [e EXCEPT !.failures = n, !.burst = b]
         IN  /\ c \in Health /\ c.failures = n
             /\ c.suppressions = e.suppressions /\ c.left = e.left
  BY DEF Health

LEMMA OnlyFailures ==
  ASSUME NEW e \in Health, NEW n \in Nat
  PROVE  LET c == [e EXCEPT !.failures = n]
         IN  /\ c \in Health /\ c.failures = n
             /\ c.suppressions = e.suppressions /\ c.left = e.left
  BY DEF Health

LEMMA RtInitInv == RtInit => RtInv
<1> SUFFICES ASSUME RtInit PROVE RtInv
  OBVIOUS
<1>1. entries \in [HealthKeys -> Health] /\ BelowThreshold(entries)
  BY UnharmedIsHealth, ThresholdIsPositive DEF RtInit, BelowThreshold
<1>2. healthFile \in Seq(HealthFiles) /\ Len(healthFile) <= 1 /\ DOMAIN healthFile = {}
  BY DEF RtInit
<1>3. CrashLosesNothing
  BY <1>2 DEF CrashLosesNothing
<1> QED BY <1>1, <1>2, <1>3 DEF RtInit, RtInv, RtTypeOK, Health, BelowThreshold, NoAddress, NoFamily

(* What a save writes is what the process knows. *)
LEMMA SavedIsKnown ==
  ASSUME entries' \in [HealthKeys -> Health],
         frontCursor' \in 0..(FrontSlots - 1), frontFamily' \in {0, 1, NoFamily}, Save
  PROVE  healthFile' \in Seq(HealthFiles) /\ Len(healthFile') <= 1 /\ CrashLosesNothing'
<1> DEFINE f == Snapshotted(entries', frontCursor', frontFamily')
<1>1. f \in HealthFiles
  BY DEF Snapshotted, HealthFiles, Health
<1>2. \A k \in HealthKeys : /\ f.pauses[k].suppressions = entries'[k].suppressions
                           /\ f.pauses[k].left = entries'[k].left
  BY DEF Snapshotted
<1>3. f.cursor = frontCursor' /\ f.family = frontFamily'
  BY DEF Snapshotted
<1>4. \A k \in HealthKeys : entries'[k].left \in Nat
  BY RtAssumption DEF Health
<1> HIDE DEF f
<1>5. healthFile' = <<f>>
  BY DEF Save, f
<1>6. DOMAIN healthFile' = {1} /\ healthFile'[1] = f /\ Len(healthFile') = 1
  BY <1>5
<1>7. CrashLosesNothing'
  BY <1>2, <1>3, <1>4, <1>6 DEF CrashLosesNothing
<1> QED BY <1>1, <1>5, <1>6, <1>7

(* The file stays right while no pause gets longer and none is forgotten. *)
LEMMA FileStaysRight ==
  ASSUME RtInv, Unwritten, frontCursor' = frontCursor, frontFamily' = frontFamily,
         entries' \in [HealthKeys -> Health],
         \A k \in HealthKeys : /\ entries'[k].suppressions = entries[k].suppressions
                               /\ entries'[k].left <= entries[k].left
  PROVE  healthFile' \in Seq(HealthFiles) /\ Len(healthFile') <= 1 /\ CrashLosesNothing'
<1>1. healthFile' = healthFile
  BY DEF Unwritten
<1>2. \A n \in DOMAIN healthFile : healthFile[n] \in HealthFiles
  BY DEF RtInv, RtTypeOK
<1>3. \A n \in DOMAIN healthFile : \A k \in HealthKeys : healthFile[n].pauses[k].left \in Nat
  BY <1>2, RtAssumption DEF HealthFiles
<1>4. \A k \in HealthKeys : entries[k].left \in Nat /\ entries'[k].left \in Nat
  BY RtAssumption DEF RtInv, RtTypeOK, Health
<1>5. CrashLosesNothing
  BY DEF RtInv
<1>6. CrashLosesNothing'
  BY <1>1, <1>3, <1>4, <1>5 DEF CrashLosesNothing
<1> QED BY <1>1, <1>6 DEF RtInv, RtTypeOK

(* What each report does, in the words of the invariant. *)
Rest == /\ tcpOk' \subseteq Addresses /\ failedRelays' \subseteq Addresses
        /\ preferred' \in Addresses \union {NoAddress}
        /\ frontCursor' \in 0..(FrontSlots - 1) /\ frontFamily' \in {0, 1, NoFamily}
        /\ familyFailures' \in 0..1

LEMMA InvFromParts ==
  ASSUME entries' \in [HealthKeys -> Health], BelowThreshold(entries'), Rest,
         healthFile' \in Seq(HealthFiles), Len(healthFile') <= 1, CrashLosesNothing'
  PROVE  RtInv'
  BY DEF RtInv, RtTypeOK, Rest, Health, BelowThreshold

LEMMA FailureKeeps ==
  ASSUME RtInv, NEW k \in Failing, NEW reached \in BOOLEAN,
         NEW a \in Addresses \union {NoAddress}, NoteFailure(k, reached, a)
  PROVE  RtInv'
<1>0. k \in HealthKeys
  BY RtAssumption
<1>1. entries \in [HealthKeys -> Health] /\ BelowThreshold(entries)
  BY DEF RtInv, RtTypeOK, Health, BelowThreshold
<1>2. Rest /\ frontCursor' = frontCursor /\ frontFamily' = frontFamily
  BY DEF RtInv, RtTypeOK, NoteFailure, frontVars, Rest
<1> DEFINE e == entries[k]
           ignored == (~reached /\ a \in tcpOk) \/ e.burst
           last == e.failures + 1 >= ThresholdOf(k)
<1>3. e \in Health
  BY <1>0, <1>1
<1>4. CASE ignored
  <2>1. UNCHANGED entries /\ Unwritten
    BY <1>4 DEF NoteFailure
  <2>2. \A j \in HealthKeys : entries[j].left <= entries[j].left
    BY <1>1, RtAssumption DEF Health
  <2> QED BY <1>1, <1>2, <2>1, <2>2, FileStaysRight, InvFromParts DEF BelowThreshold
<1>5. CASE ~ignored /\ ~last
  <2>1. entries' = [entries EXCEPT ![k].failures = @ + 1, ![k].burst = TRUE] /\ Unwritten
    BY <1>5 DEF NoteFailure, EndsSeries
  <2>2. /\ entries'[k] = [e EXCEPT !.failures = e.failures + 1, !.burst = TRUE]
        /\ \A j \in HealthKeys : j # k => entries'[j] = entries[j]
        /\ DOMAIN entries' = HealthKeys
    BY <1>0, <1>1, <2>1
  <2> DEFINE c == [e EXCEPT !.failures = e.failures + 1, !.burst = TRUE]
  <2>c. /\ c \in Health /\ c.failures = e.failures + 1
        /\ c.suppressions = e.suppressions /\ c.left = e.left
    <3> HIDE DEF e
    <3>1. e.failures + 1 \in Nat
      BY <1>3, FieldsOfHealth
    <3> QED BY <1>3, <3>1, CountedFailure
  <2> HIDE DEF c
  <2>3. /\ entries'[k] \in Health /\ entries'[k].failures = e.failures + 1
        /\ entries'[k].suppressions = e.suppressions /\ entries'[k].left = e.left
    BY <2>2, <2>c DEF c
  <2>4. entries' \in [HealthKeys -> Health]
    BY <1>1, <2>1, <2>2, <2>3
  <2>5. BelowThreshold(entries')
    <3>1. entries'[k].failures < ThresholdOf(k)
      BY <1>3, <1>5, <2>3, ThresholdIsPositive, FieldsOfHealth
    <3> QED BY <1>1, <2>2, <3>1 DEF BelowThreshold
  <2>6. \A j \in HealthKeys : /\ entries'[j].suppressions = entries[j].suppressions
                              /\ entries'[j].left <= entries[j].left
    <3>1. \A j \in HealthKeys : entries[j] \in Health
      BY <1>1
    <3>2. \A j \in HealthKeys : entries[j].left <= entries[j].left
      BY <3>1, FieldsOfHealth
    <3> QED BY <2>2, <2>3, <3>2
  <2> QED BY <1>2, <2>1, <2>4, <2>5, <2>6, FileStaysRight, InvFromParts
<1>6. CASE ~ignored /\ last
  <2> DEFINE new == [failures |-> 0, suppressions |-> Min({e.suppressions + 1, MaxDoublings}),
                     left |-> Pause(e.suppressions), burst |-> TRUE]
  <2>1. entries' = [entries EXCEPT ![k] = new] /\ Save
    BY <1>6, <1>0, <1>1 DEF NoteFailure, EndsSeries
  <2>2. new \in Health /\ new.failures = 0
    <3>1. Min({e.suppressions + 1, MaxDoublings}) \in 0..MaxDoublings
      BY <1>3, MinOfTwo, FieldsOfHealth, RtAssumption
    <3>2. Pause(e.suppressions) \in 0..SuppressMax
      BY <1>3, PauseIsBounded, FieldsOfHealth
    <3> QED BY <3>1, <3>2 DEF Health
  <2> HIDE DEF new
  <2>3. entries' \in [HealthKeys -> Health]
    BY <1>1, <2>1, <2>2
  <2>4. BelowThreshold(entries')
    BY <1>1, <2>1, <2>2, ThresholdIsPositive DEF BelowThreshold
  <2> QED BY <1>2, <2>1, <2>3, <2>4, SavedIsKnown, InvFromParts DEF Rest
<1> QED BY <1>4, <1>5, <1>6

LEMMA AnswerKeeps ==
  ASSUME RtInv, NEW k \in Failing, NoteAnswer(k)
  PROVE  RtInv'
<1>0. k \in HealthKeys
  BY RtAssumption
<1>1. entries \in [HealthKeys -> Health] /\ BelowThreshold(entries)
  BY DEF RtInv, RtTypeOK, Health, BelowThreshold
<1>2. Rest /\ frontCursor' = frontCursor /\ frontFamily' = frontFamily /\ Unwritten
  BY DEF RtInv, RtTypeOK, NoteAnswer, frontVars, Rest
<1>3. /\ entries'[k] = [entries[k] EXCEPT !.failures = 0]
      /\ \A j \in HealthKeys : j # k => entries'[j] = entries[j]
      /\ entries' = [j \in HealthKeys |-> entries'[j]]
  BY <1>0, <1>1 DEF NoteAnswer
<1>4. /\ entries'[k] \in Health /\ entries'[k].failures = 0
      /\ entries'[k].suppressions = entries[k].suppressions /\ entries'[k].left = entries[k].left
  BY <1>0, <1>1, <1>3, OnlyFailures
<1>5. entries' \in [HealthKeys -> Health] /\ BelowThreshold(entries')
  <2>1. entries'[k].failures < ThresholdOf(k)
    BY <1>4, ThresholdIsPositive
  <2> QED BY <1>1, <1>3, <1>4, <2>1 DEF BelowThreshold
<1>6. \A j \in HealthKeys : /\ entries'[j].suppressions = entries[j].suppressions
                            /\ entries'[j].left <= entries[j].left
  BY <1>1, <1>3, <1>4, RtAssumption DEF Health
<1> QED BY <1>2, <1>5, <1>6, FileStaysRight, InvFromParts

(* A route that was never paused is not in the file either. *)
LEMMA ProvenKeeps ==
  ASSUME RtInv, NEW k \in Failing, NoteProven(k)
  PROVE  RtInv'
<1>0. k \in HealthKeys
  BY RtAssumption
<1>1. entries \in [HealthKeys -> Health] /\ BelowThreshold(entries)
  BY DEF RtInv, RtTypeOK, Health, BelowThreshold
<1>2. Rest /\ frontCursor' = frontCursor /\ frontFamily' = frontFamily
  BY DEF RtInv, RtTypeOK, NoteProven, frontVars, Rest
<1>3. entries' = [entries EXCEPT ![k] = Unharmed]
  BY DEF NoteProven
<1>4. entries' \in [HealthKeys -> Health] /\ BelowThreshold(entries')
  <2>1. Unharmed \in Health /\ Unharmed.failures < ThresholdOf(k)
    BY UnharmedIsHealth, ThresholdIsPositive
  <2> QED BY <1>1, <1>3, <2>1 DEF BelowThreshold
<1>5. CASE entries[k].suppressions > 0
  <2>1. Save
    BY <1>5 DEF NoteProven
  <2> QED BY <1>2, <1>4, <2>1, SavedIsKnown, InvFromParts DEF Rest
<1>6. CASE ~(entries[k].suppressions > 0)
  <2>1. Unwritten
    BY <1>6 DEF NoteProven
  <2>2. entries[k].suppressions = 0 /\ entries[k].left \in Nat
    BY <1>0, <1>1, <1>6, RtAssumption DEF Health
  <2>3. Unharmed.suppressions = 0 /\ Unharmed.left = 0
    BY DEF Unharmed
  <2>4. \A j \in HealthKeys : /\ entries'[j].suppressions = entries[j].suppressions
                              /\ entries'[j].left <= entries[j].left
    BY <1>1, <1>3, <2>2, <2>3, RtAssumption DEF Health
  <2> QED BY <1>2, <1>4, <2>1, <2>4, FileStaysRight, InvFromParts
<1> QED BY <1>5, <1>6

LEMMA RelayReportKeeps ==
  ASSUME RtInv, NEW a \in Addresses,
         NoteTcpConnected(a) \/ NoteRelayFailed(a) \/ NoteRelayAnswered(a)
  PROVE  RtInv'
<1>1. entries \in [HealthKeys -> Health] /\ BelowThreshold(entries)
  BY DEF RtInv, RtTypeOK, Health, BelowThreshold
<1>2. UNCHANGED <<entries, frontCursor, frontFamily>> /\ Unwritten
  BY DEF NoteTcpConnected, NoteRelayFailed, NoteRelayAnswered
<1>3. Rest
  BY DEF RtInv, RtTypeOK, NoteTcpConnected, NoteRelayFailed, NoteRelayAnswered, Rest
<1>4. \A j \in HealthKeys : entries[j].left <= entries[j].left
  BY <1>1, RtAssumption DEF Health
<1> QED BY <1>1, <1>2, <1>3, <1>4, FileStaysRight, InvFromParts

LEMMA AddressOfFront ==
  ASSUME NEW c \in Nat \ {0}, NEW m \in 0..(c - 1), NEW f \in {0, 1}
  PROVE  2 * m + f \in 0..(2 * c - 1)
  OBVIOUS

LEMMA FrontKeeps ==
  ASSUME RtInv, NEW i \in 0..(FrontCount - 1), NEW fam \in {0, 1},
         NEW reached \in BOOLEAN, NEW answered \in BOOLEAN,
         NoteFrontResult(i, fam, reached, answered)
  PROVE  RtInv'
<1>1. entries \in [HealthKeys -> Health] /\ BelowThreshold(entries)
  BY DEF RtInv, RtTypeOK, Health, BelowThreshold
<1>2. UNCHANGED <<entries, tcpOk, preferred, failedRelays>> /\ Save
  BY DEF NoteFrontResult
<1>3. frontFamily' \in {0, 1, NoFamily} /\ familyFailures' \in 0..1
  BY DEF RtInv, RtTypeOK, NoteFrontResult, NoFamily
<1>4. frontCursor' \in 0..(FrontSlots - 1)
  <2>1. (i + 1) % FrontCount \in 0..(FrontCount - 1)
    BY RtAssumption
  <2>2. (2 * i + fam + 1) % FrontSlots \in 0..(FrontSlots - 1)
    BY RtAssumption DEF FrontSlots
  <2>3. 2 * i + fam \in 0..(FrontSlots - 1)
    BY RtAssumption DEF FrontSlots
  <2>4. frontFamily' # NoFamily =>
           2 * ((i + 1) % FrontCount) + frontFamily' \in 0..(FrontSlots - 1)
    <3>1. frontFamily' # NoFamily => frontFamily' \in {0, 1}
      BY <1>3
    <3> QED BY <2>1, <3>1, AddressOfFront, RtAssumption DEF FrontSlots
  <2> QED BY <2>2, <2>3, <2>4 DEF NoteFrontResult
<1> QED BY <1>1, <1>2, <1>3, <1>4, SavedIsKnown, InvFromParts
        DEF RtInv, RtTypeOK, Rest, BelowThreshold

(* What a process restores is what the file says, or less of it. *)
LEMMA RestoredIsLess ==
  ASSUME NEW p \in [suppressions : 0..MaxDoublings, left : 0..SuppressMax],
         NEW shift \in ClockShifts
  PROVE  LET r == Restored(p, shift)
         IN  /\ r \in Health /\ r.failures = 0
             /\ r.suppressions = p.suppressions /\ r.left <= p.left
<1>1. p.suppressions \in 0..MaxDoublings /\ p.left \in 0..SuppressMax /\ shift \in Nat
  BY RtAssumption
<1>2. CASE p.suppressions = 0
  <2>1. Restored(p, shift) = Unharmed
    BY <1>2 DEF Restored
  <2>2. Unharmed.suppressions = 0 /\ Unharmed.left = 0
    BY DEF Unharmed
  <2> QED BY <1>1, <1>2, <2>1, <2>2, UnharmedIsHealth, RtAssumption
<1>3. CASE p.suppressions # 0
  <2> DEFINE left == Min({Max({p.left - shift, 0}), RestoredMax})
  <2>1. left \in 0..SuppressMax /\ left <= p.left
    BY <1>1, MinOfTwo, MaxOfTwo, RtAssumption
  <2>2. Restored(p, shift) = [Unharmed EXCEPT !.suppressions = p.suppressions, !.left = left]
    BY <1>3 DEF Restored
  <2> HIDE DEF left
  <2>3. Restored(p, shift) = [failures |-> 0, suppressions |-> p.suppressions, left |-> left,
                              burst |-> FALSE]
    BY <2>2 DEF Unharmed
  <2> QED BY <1>1, <2>1, <2>3 DEF Health
<1> QED BY <1>2, <1>3

LEMMA OneFile ==
  ASSUME NEW s \in Seq(HealthFiles), Len(s) <= 1, s # <<>>
  PROVE  DOMAIN s = {1} /\ s[1] \in HealthFiles /\ s = [n \in {1} |-> s[1]]
<1>1. Len(s) \in Nat /\ Len(s) # 0 /\ DOMAIN s = 1..Len(s)
  BY EmptySeq, LenProperties
<1>2. Len(s) = 1
  BY <1>1
<1>3. 1..Len(s) = {1}
  BY <1>2
<1> QED BY <1>1, <1>2, <1>3, ElementOfSeq

LEMMA NewProcessKeeps ==
  ASSUME RtInv, NewProcess
  PROVE  RtInv'
<1>1. PICK shift \in ClockShifts : LoadHealth(healthFile, shift)
  BY DEF NewProcess
<1>2. healthFile' = healthFile /\ healthFile \in Seq(HealthFiles) /\ Len(healthFile) <= 1
  BY DEF NewProcess, RtInv, RtTypeOK
<1>3. tcpOk' = {} /\ failedRelays' = {} /\ preferred' = NoAddress /\ familyFailures' = 0
  BY <1>1 DEF LoadHealth
<1>4. CASE healthFile = <<>>
  <2>1. /\ entries' = [k \in HealthKeys |-> Unharmed]
        /\ frontCursor' \in 0..(FrontSlots - 1) /\ frontFamily' = NoFamily
    BY <1>1, <1>4 DEF LoadHealth
  <2>2. entries' \in [HealthKeys -> Health] /\ BelowThreshold(entries')
    BY <2>1, UnharmedIsHealth, ThresholdIsPositive DEF BelowThreshold
  <2>3. DOMAIN healthFile' = {}
    BY <1>2, <1>4
  <2>4. CrashLosesNothing'
    BY <2>3 DEF CrashLosesNothing
  <2> QED BY <1>2, <1>3, <2>1, <2>2, <2>4, InvFromParts DEF Rest
<1>5. CASE healthFile # <<>>
  <2>1. DOMAIN healthFile = {1} /\ healthFile[1] \in HealthFiles
    BY <1>2, <1>5, OneFile
  <2> DEFINE f == healthFile[1]
  <2>2. /\ \A k \in HealthKeys :
              f.pauses[k] \in [suppressions : 0..MaxDoublings, left : 0..SuppressMax]
        /\ f.cursor \in 0..(FrontSlots - 1) /\ f.family \in {0, 1, NoFamily}
    BY <2>1 DEF HealthFiles
  <2>3. /\ entries' = [k \in HealthKeys |-> Restored(f.pauses[k], shift)]
        /\ frontCursor' = f.cursor /\ frontFamily' = f.family
    BY <1>1, <1>5 DEF LoadHealth
  <2> HIDE DEF f
  <2>4. \A k \in HealthKeys :
           /\ entries'[k] = Restored(f.pauses[k], shift)
           /\ entries'[k] \in Health /\ entries'[k].failures = 0
           /\ entries'[k].suppressions = f.pauses[k].suppressions
           /\ entries'[k].left <= f.pauses[k].left
    BY <2>2, <2>3, RestoredIsLess
  <2>5. \A k \in HealthKeys : f.pauses[k].left \in Nat /\ entries'[k].left \in Nat
    BY <2>2, <2>4, FieldsOfHealth, RtAssumption
  <2>6. entries' \in [HealthKeys -> Health] /\ BelowThreshold(entries')
    BY <2>3, <2>4, ThresholdIsPositive DEF BelowThreshold
  <2>7. DOMAIN healthFile' = {1} /\ healthFile'[1] = f
    BY <1>2, <2>1 DEF f
  <2>8. CrashLosesNothing'
    BY <2>3, <2>4, <2>5, <2>7 DEF CrashLosesNothing
  <2> QED BY <1>2, <1>3, <2>2, <2>3, <2>6, <2>8, InvFromParts DEF Rest
<1> QED BY <1>4, <1>5

LEMMA SoonerIsLess ==
  ASSUME NEW n \in Nat
  PROVE  Sooner(n) \in Nat /\ Sooner(n) <= n
  BY MaxOfTwo DEF Sooner

LEMMA SoonerKeepsOrder ==
  ASSUME NEW m \in Nat, NEW n \in Nat, m <= n
  PROVE  Sooner(m) <= Sooner(n)
  BY MaxOfTwo DEF Sooner

LEMMA SecondsKeep ==
  ASSUME RtInv, SecondsPass
  PROVE  RtInv'
<1>1. entries \in [HealthKeys -> Health] /\ BelowThreshold(entries)
  BY DEF RtInv, RtTypeOK, Health, BelowThreshold
<1>2. Rest /\ frontCursor' = frontCursor /\ frontFamily' = frontFamily /\ Unwritten
  BY DEF RtInv, RtTypeOK, SecondsPass, frontVars, Rest
<1>3. \A e \in Health : LET c == [e EXCEPT !.burst = FALSE]
                        IN  /\ c \in Health /\ c.failures = e.failures
                            /\ c.suppressions = e.suppressions /\ c.left = e.left
  BY DEF Health
<1>4. /\ entries' = [k \in HealthKeys |-> entries'[k]]
      /\ \A k \in HealthKeys : entries'[k] = [entries[k] EXCEPT !.burst = FALSE]
  BY DEF SecondsPass
<1>5. \A k \in HealthKeys :
         /\ entries'[k] \in Health /\ entries'[k].failures = entries[k].failures
         /\ entries'[k].suppressions = entries[k].suppressions
         /\ entries'[k].left = entries[k].left /\ entries[k].left \in Nat
  <2> SUFFICES ASSUME NEW k \in HealthKeys
      PROVE  /\ entries'[k] \in Health /\ entries'[k].failures = entries[k].failures
             /\ entries'[k].suppressions = entries[k].suppressions
             /\ entries'[k].left = entries[k].left /\ entries[k].left \in Nat
    OBVIOUS
  <2>1. entries[k] \in Health
    BY <1>1
  <2> QED BY <1>3, <1>4, <2>1, FieldsOfHealth
<1>6. entries' \in [HealthKeys -> Health] /\ BelowThreshold(entries')
  BY <1>1, <1>4, <1>5 DEF BelowThreshold
<1> QED BY <1>2, <1>5, <1>6, FileStaysRight, InvFromParts

(* A pause ends for the process and for the file at the same time. *)
LEMMA MinutesKeep ==
  ASSUME RtInv, MinutesPass
  PROVE  RtInv'
<1>1. entries \in [HealthKeys -> Health] /\ BelowThreshold(entries)
  BY DEF RtInv, RtTypeOK, Health, BelowThreshold
<1>2. Rest /\ frontCursor' = frontCursor /\ frontFamily' = frontFamily
  BY DEF RtInv, RtTypeOK, MinutesPass, Rest
<1>3. \A e \in Health :
         LET c == [e EXCEPT !.burst = FALSE, !.left = Sooner(e.left)]
         IN  /\ c \in Health /\ c.failures = e.failures
             /\ c.suppressions = e.suppressions /\ c.left = Sooner(e.left)
  <2> SUFFICES ASSUME NEW e \in Health
      PROVE  LET c == [e EXCEPT !.burst = FALSE, !.left = Sooner(e.left)]
             IN  /\ c \in Health /\ c.failures = e.failures
                 /\ c.suppressions = e.suppressions /\ c.left = Sooner(e.left)
    OBVIOUS
  <2>1. Sooner(e.left) \in 0..SuppressMax
    BY FieldsOfHealth, SoonerIsLess, RtAssumption
  <2> DEFINE l == Sooner(e.left)
  <2> HIDE DEF l
  <2>2. l \in 0..SuppressMax
    BY <2>1 DEF l
  <2>3. LET c == [e EXCEPT !.burst = FALSE, !.left = l]
        IN  /\ c \in Health /\ c.failures = e.failures
            /\ c.suppressions = e.suppressions /\ c.left = l
    BY <2>2 DEF Health
  <2> QED BY <2>3 DEF l
<1>4. /\ entries' = [k \in HealthKeys |-> entries'[k]]
      /\ \A k \in HealthKeys :
            entries'[k] = [entries[k] EXCEPT !.burst = FALSE, !.left = Sooner(entries[k].left)]
  BY DEF MinutesPass
<1>5. \A k \in HealthKeys :
         /\ entries'[k] \in Health /\ entries'[k].failures = entries[k].failures
         /\ entries'[k].suppressions = entries[k].suppressions
         /\ entries'[k].left = Sooner(entries[k].left) /\ entries[k].left \in Nat
  <2> SUFFICES ASSUME NEW k \in HealthKeys
      PROVE  /\ entries'[k] \in Health /\ entries'[k].failures = entries[k].failures
             /\ entries'[k].suppressions = entries[k].suppressions
             /\ entries'[k].left = Sooner(entries[k].left) /\ entries[k].left \in Nat
    OBVIOUS
  <2>1. entries[k] \in Health
    BY <1>1
  <2> QED BY <1>3, <1>4, <2>1, FieldsOfHealth
<1>6. entries' \in [HealthKeys -> Health] /\ BelowThreshold(entries')
  BY <1>1, <1>4, <1>5 DEF BelowThreshold
<1>7. healthFile \in Seq(HealthFiles) /\ Len(healthFile) <= 1 /\ CrashLosesNothing
  BY DEF RtInv, RtTypeOK
<1>8. CASE healthFile = <<>>
  <2>1. healthFile' = <<>>
    <3>1. DOMAIN healthFile = {}
      BY <1>8
    <3>2. healthFile' = [n \in {} |-> {}]
      BY <3>1, Zenon DEF MinutesPass
    <3> QED BY <3>2
  <2>2. DOMAIN healthFile' = {}
    BY <2>1
  <2>3. CrashLosesNothing'
    BY <2>2 DEF CrashLosesNothing
  <2> QED BY <1>2, <1>6, <2>1, <2>3, InvFromParts
<1>9. CASE healthFile # <<>>
  <2> DEFINE f == healthFile[1]
             g == [f EXCEPT !.pauses = [k \in HealthKeys |-> Waned(f.pauses[k])]]
  <2>1. DOMAIN healthFile = {1} /\ f \in HealthFiles
    BY <1>7, <1>9, OneFile
  <2>2. healthFile' = [n \in {1} |-> g]
    BY <2>1 DEF MinutesPass
  <2>3. \A p \in [suppressions : 0..MaxDoublings, left : 0..SuppressMax] :
           /\ Waned(p) \in [suppressions : 0..MaxDoublings, left : 0..SuppressMax]
           /\ Waned(p).suppressions = p.suppressions /\ Waned(p).left = Sooner(p.left)
           /\ p.left \in Nat
    BY SoonerIsLess, RtAssumption DEF Waned
  <2>4. \A k \in HealthKeys :
           f.pauses[k] \in [suppressions : 0..MaxDoublings, left : 0..SuppressMax]
    BY <2>1 DEF HealthFiles
  <2> DEFINE ps == [k \in HealthKeys |-> Waned(f.pauses[k])]
  <2>5. ps \in [HealthKeys -> [suppressions : 0..MaxDoublings, left : 0..SuppressMax]]
    BY <2>3, <2>4
  <2>6. \A k \in HealthKeys : /\ ps[k].suppressions = f.pauses[k].suppressions
                              /\ ps[k].left = Sooner(f.pauses[k].left)
    BY <2>3, <2>4
  <2> HIDE DEF ps
  <2>7. g \in HealthFiles /\ g.pauses = ps /\ g.cursor = f.cursor /\ g.family = f.family
    <3>1. g = [f EXCEPT !.pauses = ps]
      BY DEF ps
    <3> HIDE DEF g, f
    <3> QED BY <2>1, <2>5, <3>1 DEF HealthFiles
  <2> HIDE DEF g
  <2>8. healthFile' = <<g>>
    BY <2>2
  <2>9. CrashLosesNothing'
    <3>1. DOMAIN healthFile' = {1} /\ healthFile'[1] = g
      BY <2>2
    <3>2. /\ \A k \in HealthKeys : /\ f.pauses[k].suppressions = entries[k].suppressions
                                   /\ f.pauses[k].left >= entries[k].left
          /\ f.cursor = frontCursor /\ f.family = frontFamily
      BY <1>7, <2>1 DEF CrashLosesNothing
    <3>3. \A k \in HealthKeys : g.pauses[k].left >= entries'[k].left
      BY <1>5, <2>3, <2>4, <2>6, <2>7, <3>2, SoonerKeepsOrder, SoonerIsLess
    <3> HIDE DEF f
    <3> QED BY <1>2, <1>5, <2>6, <2>7, <3>1, <3>2, <3>3 DEF CrashLosesNothing
  <2> QED BY <1>2, <1>6, <2>7, <2>8, <2>9, InvFromParts
<1> QED BY <1>8, <1>9

LEMMA RtStepInv == RtInv /\ [RtNext]_rtVars => RtInv'
<1> SUFFICES ASSUME RtInv, [RtNext]_rtVars PROVE RtInv'
  OBVIOUS
<1>1. CASE Report
  BY <1>1, FailureKeeps, AnswerKeeps, ProvenKeeps, RelayReportKeeps, FrontKeeps DEF Report
<1>2. CASE SecondsPass
  BY <1>2, SecondsKeep
<1>3. CASE MinutesPass
  BY <1>3, MinutesKeep
<1>4. CASE NewProcess
  BY <1>4, NewProcessKeeps
<1>5. CASE UNCHANGED rtVars
  BY <1>5 DEF RtInv, RtTypeOK, CrashLosesNothing, rtVars, frontVars
<1> QED BY <1>1, <1>2, <1>3, <1>4, <1>5 DEF RtNext

LEMMA RtInvariant == RtSpec => []RtInv
<1>1. RtInit => RtInv
  BY RtInitInv
<1>2. RtInv /\ [RtNext]_rtVars => RtInv'
  BY RtStepInv
<1> QED BY <1>1, <1>2, PTL DEF RtSpec

(* The health of the routes keeps its types: no series of failures reaches *)
(* its threshold, no pause outlasts the longest, and the front that is     *)
(* first exists, after any reports and restarts.                           *)
THEOREM RtTypeCorrect == RtSpec => []RtTypeOK
<1>1. RtInv => RtTypeOK
  BY DEF RtInv
<1> QED BY <1>1, RtInvariant, PTL

(* Whatever connections report and whenever the process dies, the file     *)
(* names every pause with what is left of it, and the front.               *)
THEOREM CrashKeepsPauses == RtSpec => []CrashLosesNothing
<1>1. RtInv => CrashLosesNothing
  BY DEF RtInv
<1> QED BY <1>1, RtInvariant, PTL

-----------------------------------------------------------------------------
(* The plan of a connection.                                               *)

(* A filter, through the part of the sequence it has seen.                 *)
FiltersTo(h, T, q, K, z) ==
    /\ h \in [0..Len(q) -> Seq(T)] /\ h[0] = <<>> /\ z = h[Len(q)]
    /\ \A i \in 1..Len(q) : h[i] = IF q[i] \in K THEN Append(h[i - 1], q[i]) ELSE h[i - 1]

LEMMA KeptRuns ==
  ASSUME NEW T, NEW q \in Seq(T), NEW K
  PROVE  \E h : FiltersTo(h, T, q, K, Kept(q, K))
<1> DEFINE S == Seq(T)
           A == T
           b == <<>>
           s == q
           n == Len(s)
           g == [p \in S \X A |-> (IF p[2] \in K THEN Append(p[1], p[2]) ELSE p[1])]
           Turn(f) == [t \in SUBSET (DOMAIN s) |->
                         IF t = {} THEN b ELSE (IF s[Max(t)] \in K THEN Append(f[t \ {Max(t)}], s[Max(t)]) ELSE f[t \ {Max(t)}])]
           c == CHOOSE f : f = Turn(f)
<1>1. n \in Nat /\ DOMAIN s = 1..n /\ \A i \in 1..n : s[i] \in A
  OBVIOUS
<1>b. b \in S
  OBVIOUS
<1>2. \A x \in S, y \in A : (IF y \in K THEN Append(x, y) ELSE x) \in S
  <2> SUFFICES ASSUME NEW x \in S, NEW y \in A PROVE Append(x, y) \in S
    OBVIOUS
  <2> QED OBVIOUS
<1>3. Kept(q, K) = c[DOMAIN s]
  BY DEF Kept, FoldLeft, MapThenFoldSet
<1> HIDE DEF n, S, A, s, b
<1>4. g \in [S \X A -> S] /\ \A x \in S, y \in A : g[<<x, y>>] = (IF y \in K THEN Append(x, y) ELSE x)
  BY <1>2
<1> HIDE DEF g
<1>5. Steps(S, A, g, b, s, n)
  BY <1>1, <1>b, <1>4 DEF Steps
<1>6. \A t \in SUBSET (1..n) : t # {} => s[Max(t)] \in A
  BY <1>1, GreatestIs
<1>7. PICK f : Iterates(f, S, g, b, s, n)
  <2> HIDE DEF c, Turn
  <2> QED BY <1>5, IterExists
<1>8. f = Turn(f)
  <2>1. \A t \in SUBSET (1..n) :
            f[t] = IF t = {} THEN b ELSE (IF s[Max(t)] \in K THEN Append(f[t \ {Max(t)}], s[Max(t)]) ELSE f[t \ {Max(t)}])
    BY <1>4, <1>6, <1>7 DEF Iterates
  <2> QED BY <1>1, <1>7, <2>1 DEF Iterates
<1>9. c = Turn(c)
  <2> HIDE DEF Turn
  <2> QED BY <1>8
<1>10. FoldsBy(c, S, g, b, s, n)
  <2> HIDE DEF c
  <2> QED BY <1>1, <1>4, <1>6, <1>9 DEF FoldsBy
<1> HIDE DEF c
<1>11. PICK h : RunsTo(h, S, g, b, s, n, c[1..n])
  BY <1>5, <1>10, RunOfIter
<1>12. \A i \in 1..n : h[i] = (IF s[i] \in K THEN Append(h[i - 1], s[i]) ELSE h[i - 1])
  <2>1. \A i \in 1..n : h[i - 1] \in S /\ s[i] \in A
    BY <1>1, <1>11 DEF RunsTo
  <2> QED BY <1>4, <1>11, <2>1 DEF RunsTo
<1> QED BY <1>1, <1>3, <1>11, <1>12 DEF RunsTo, FiltersTo, n, S, b, s

(* How many of the first i members are in K. *)
Rank(q, K, i) == Cardinality({m \in 1..i : q[m] \in K})

RanksCount(q, K) ==
    /\ Rank(q, K, 0) = 0
    /\ \A i \in Nat : Rank(q, K, i) \in Nat
    /\ \A i \in Nat : Rank(q, K, i + 1) = IF q[i + 1] \in K THEN Rank(q, K, i) + 1
                                           ELSE Rank(q, K, i)

LEMMA RankSteps ==
  ASSUME NEW q, NEW K
  PROVE  RanksCount(q, K)
<1>1. Rank(q, K, 0) = 0
  <2>1. {m \in 1..0 : q[m] \in K} = {}
    OBVIOUS
  <2> QED BY <2>1, FS_EmptySet DEF Rank
<1>2. \A i \in Nat : IsFiniteSet({m \in 1..i : q[m] \in K})
  <2> SUFFICES ASSUME NEW i \in Nat PROVE IsFiniteSet({m \in 1..i : q[m] \in K})
    OBVIOUS
  <2>1. IsFiniteSet(1..i)
    BY FS_Interval
  <2> QED BY <2>1, FS_Subset
<1>3. \A i \in Nat : Rank(q, K, i) \in Nat
  BY <1>2, FS_CardinalityType DEF Rank
<1>4. ASSUME NEW i \in Nat
      PROVE  Rank(q, K, i + 1) = IF q[i + 1] \in K THEN Rank(q, K, i) + 1 ELSE Rank(q, K, i)
  <2> DEFINE Before == {m \in 1..i : q[m] \in K}
             Now == {m \in 1..i + 1 : q[m] \in K}
  <2>1. i + 1 \notin Before /\ IsFiniteSet(Before)
    BY <1>2
  <2>2. CASE q[i + 1] \in K
    <3>1. Now = Before \cup {i + 1}
      BY <2>2
    <3> HIDE DEF Now, Before
    <3>2. Cardinality(Now) = Cardinality(Before) + 1
      BY <2>1, <3>1, FS_AddElement
    <3> QED BY <2>2, <3>2 DEF Rank, Now, Before
  <2>3. CASE q[i + 1] \notin K
    <3>1. Now = Before
      BY <2>3
    <3> QED BY <2>3, <3>1 DEF Rank
  <2> QED BY <2>2, <2>3
<1> QED BY <1>1, <1>3, <1>4 DEF RanksCount

(* What a filter keeps: the members in K, each at the place of its rank.   *)
KeptFrom(kept, q, K, n) ==
    /\ Len(kept) = Rank(q, K, n)
    /\ \A i \in 1..n : q[i] \in K =>
          Rank(q, K, i) \in 1..Len(kept) /\ kept[Rank(q, K, i)] = q[i]
    /\ \A m \in 1..Len(kept) : \E i \in 1..n : q[i] \in K /\ Rank(q, K, i) = m
    /\ \A i, j \in 1..n : q[i] \in K /\ q[j] \in K /\ Rank(q, K, i) = Rank(q, K, j) => i = j

LEMMA KeptIs ==
  ASSUME NEW T, NEW q \in Seq(T), NEW K
  PROVE  Kept(q, K) \in Seq(T) /\ KeptFrom(Kept(q, K), q, K, Len(q))
<1>0. PICK h : FiltersTo(h, T, q, K, Kept(q, K))
  BY KeptRuns
<1>1. /\ h \in [0..Len(q) -> Seq(T)] /\ h[0] = <<>> /\ Kept(q, K) = h[Len(q)]
      /\ \A i \in 1..Len(q) :
            h[i] = IF q[i] \in K THEN Append(h[i - 1], q[i]) ELSE h[i - 1]
  BY <1>0 DEF FiltersTo
<1>2. /\ Rank(q, K, 0) = 0
      /\ \A i \in Nat : Rank(q, K, i) \in Nat
      /\ \A i \in Nat : Rank(q, K, i + 1) = IF q[i + 1] \in K THEN Rank(q, K, i) + 1
                                             ELSE Rank(q, K, i)
  <2>1. RanksCount(q, K)
    BY RankSteps
  <2> QED BY <2>1 DEF RanksCount
<1> DEFINE N == {i \in Nat : i <= Len(q) => KeptFrom(h[i], q, K, i)}
<1>3. 0 \in N
  <2>1. h[0] = <<>> /\ Len(h[0]) = 0 /\ 1..0 = {}
    BY <1>1
  <2> QED BY <1>2, <2>1 DEF KeptFrom
<1>4. ASSUME NEW k \in Nat, k \in N PROVE k + 1 \in N
  <2> SUFFICES ASSUME k + 1 <= Len(q) PROVE KeptFrom(h[k + 1], q, K, k + 1)
    OBVIOUS
  <2>1. /\ k + 1 \in 1..Len(q) /\ k \in 0..Len(q) /\ (k + 1) - 1 = k
        /\ q[k + 1] \in T /\ KeptFrom(h[k], q, K, k) /\ h[k] \in Seq(T)
    BY <1>1, <1>4
  <2> DEFINE r == Rank(q, K, k)
             old == h[k]
             new == h[k + 1]
  <2>2. /\ r \in Nat /\ old \in Seq(T)
        /\ Rank(q, K, k + 1) = IF q[k + 1] \in K THEN r + 1 ELSE r
        /\ new = IF q[k + 1] \in K THEN Append(old, q[k + 1]) ELSE old
    <3>1. r \in Nat /\ Rank(q, K, k + 1) = IF q[k + 1] \in K THEN r + 1 ELSE r
      BY <1>2
    <3> HIDE DEF r
    <3>2. new = IF q[k + 1] \in K THEN Append(old, q[k + 1]) ELSE old
      BY <1>1, <2>1
    <3> QED BY <2>1, <3>1, <3>2
  <2>3. /\ Len(old) = r
        /\ \A i \in 1..k : q[i] \in K => Rank(q, K, i) \in 1..r /\ old[Rank(q, K, i)] = q[i]
        /\ \A m \in 1..r : \E i \in 1..k : q[i] \in K /\ Rank(q, K, i) = m
        /\ \A i, j \in 1..k : q[i] \in K /\ q[j] \in K /\ Rank(q, K, i) = Rank(q, K, j) => i = j
    BY <2>1, <2>2 DEF KeptFrom
  <2> HIDE DEF r, old, new
  <2>4. CASE q[k + 1] \in K
    <3>1. /\ new = Append(old, q[k + 1]) /\ Len(new) = r + 1 /\ new[r + 1] = q[k + 1]
          /\ \A m \in 1..r : new[m] = old[m]
      BY <2>1, <2>2, <2>3, <2>4
    <3>2. \A i \in 1..k + 1 : q[i] \in K =>
              Rank(q, K, i) \in 1..r + 1 /\ new[Rank(q, K, i)] = q[i]
      <4> SUFFICES ASSUME NEW i \in 1..k + 1, q[i] \in K
          PROVE  Rank(q, K, i) \in 1..r + 1 /\ new[Rank(q, K, i)] = q[i]
        OBVIOUS
      <4>1. CASE i \in 1..k
        BY <2>2, <2>3, <3>1, <4>1
      <4>2. CASE i = k + 1
        BY <2>2, <2>4, <3>1, <4>2
      <4> QED BY <2>1, <4>1, <4>2
    <3>3. \A m \in 1..r + 1 : \E i \in 1..k + 1 : q[i] \in K /\ Rank(q, K, i) = m
      <4> SUFFICES ASSUME NEW m \in 1..r + 1
          PROVE  \E i \in 1..k + 1 : q[i] \in K /\ Rank(q, K, i) = m
        OBVIOUS
      <4>1. CASE m \in 1..r
        <5>1. PICK i \in 1..k : q[i] \in K /\ Rank(q, K, i) = m
          BY <2>3, <4>1
        <5>2. i \in 1..k + 1
          BY <2>1
        <5> QED BY <5>1, <5>2
      <4>2. CASE m = r + 1
        <5>1. k + 1 \in 1..k + 1 /\ Rank(q, K, k + 1) = m
          BY <2>1, <2>2, <2>4, <4>2
        <5> QED BY <2>4, <5>1
      <4> QED BY <2>2, <4>1, <4>2
    <3>4. \A i, j \in 1..k + 1 :
              q[i] \in K /\ q[j] \in K /\ Rank(q, K, i) = Rank(q, K, j) => i = j
      <4>1. \A i \in 1..k : q[i] \in K => Rank(q, K, i) # Rank(q, K, k + 1)
        BY <2>2, <2>3, <2>4
      <4>2. \A i \in 1..k + 1 : i \in 1..k \/ i = k + 1
        BY <2>1
      <4> QED BY <2>3, <4>1, <4>2
    <3>5. Len(new) = Rank(q, K, k + 1)
      BY <2>2, <2>4, <3>1
    <3> QED BY <3>1, <3>2, <3>3, <3>4, <3>5 DEF KeptFrom, new
  <2>5. CASE q[k + 1] \notin K
    <3>1. new = old /\ Len(new) = r /\ Rank(q, K, k + 1) = r
      BY <2>2, <2>3, <2>5
    <3>2. \A i \in 1..k + 1 : q[i] \in K => i \in 1..k
      BY <2>1, <2>5
    <3>3. \A i \in 1..k : i \in 1..k + 1
      BY <2>1
    <3> QED BY <2>3, <3>1, <3>2, <3>3 DEF KeptFrom, new
  <2> QED BY <2>4, <2>5
<1>5. Nat \subseteq N
  <2> HIDE DEF N
  <2> QED BY <1>3, <1>4, NatSet
<1>6. Len(q) \in Nat /\ h[Len(q)] \in Seq(T)
  BY <1>1
<1>7. KeptFrom(h[Len(q)], q, K, Len(q))
  BY <1>5, <1>6
<1> QED BY <1>1, <1>6, <1>7

(* Its members are members of the sequence, and in K. *)
LEMMA KeptMembers ==
  ASSUME NEW T, NEW q \in Seq(T), NEW K
  PROVE  Kept(q, K) \in Seq(T \cap K)
<1>1. Kept(q, K) \in Seq(T) /\ KeptFrom(Kept(q, K), q, K, Len(q))
  BY KeptIs
<1>2. \A m \in 1..Len(Kept(q, K)) : Kept(q, K)[m] \in T \cap K
  <2> SUFFICES ASSUME NEW m \in 1..Len(Kept(q, K)) PROVE Kept(q, K)[m] \in T \cap K
    OBVIOUS
  <2>1. PICK i \in 1..Len(q) : q[i] \in K /\ Rank(q, K, i) = m
    BY <1>1 DEF KeptFrom
  <2>2. Kept(q, K)[m] = q[i]
    BY <1>1, <2>1 DEF KeptFrom
  <2> QED BY <2>1, <2>2
<1> QED BY <1>1, <1>2

-----------------------------------------------------------------------------
(* Another order of the same routes.                                       *)

Permutes(to, plan, raw) ==
    /\ to \in [1..Len(raw) -> 1..Len(raw)]
    /\ \A n, m \in 1..Len(raw) : to[n] = to[m] => n = m
    /\ \A i \in 1..Len(raw) : \E n \in 1..Len(raw) : to[n] = i
    /\ DOMAIN plan = 1..Len(raw) /\ \A n \in 1..Len(raw) : plan[n] = raw[to[n]]

(* Members of C take the places of members of C. *)
KeepsSorts(plan, raw, C) ==
    \A m \in 1..Len(raw) : IF raw[m] \in C THEN plan[m] \in C ELSE plan[m] = raw[m]

Reordered(raw, A, B) ==
    LET ours == Kept(raw, A) \o Kept(raw, B) IN
    [n \in 1..Len(raw) |-> IF raw[n] \in A \cup B THEN ours[Rank(raw, A \cup B, n)] ELSE raw[n]]

(* Where members of A, before those of B, have their place among both.     *)
Place(raw, A, B, i) ==
    IF raw[i] \in A THEN Rank(raw, A, i) ELSE Rank(raw, A, Len(raw)) + Rank(raw, B, i)

Places(raw, A, B, ours, p) ==
    /\ \A i \in 1..Len(raw) : raw[i] \in A \cup B =>
          Place(raw, A, B, i) \in 1..p /\ ours[Place(raw, A, B, i)] = raw[i]
    /\ \A m \in 1..p : \E i \in 1..Len(raw) :
          raw[i] \in A \cup B /\ Place(raw, A, B, i) = m
    /\ \A i, j \in 1..Len(raw) :
          raw[i] \in A \cup B /\ raw[j] \in A \cup B
            /\ Place(raw, A, B, i) = Place(raw, A, B, j) => i = j

LEMMA PlacesAreOneToOne ==
  ASSUME NEW T, NEW raw \in Seq(T), NEW A, NEW B, A \cap B = {}
  PROVE  Places(raw, A, B, Kept(raw, A) \o Kept(raw, B), Rank(raw, A \cup B, Len(raw)))
<1> DEFINE n == Len(raw)
           N == 1..n
           a == Rank(raw, A, n)
           b == Rank(raw, B, n)
           p == Rank(raw, A \cup B, n)
           KA == Kept(raw, A)
           KB == Kept(raw, B)
           ours == KA \o KB
           Chosen == {i \in N : raw[i] \in A \cup B}
           At(i) == Place(raw, A, B, i)
<1>1. n \in Nat /\ a \in Nat /\ b \in Nat /\ p \in Nat
  <2>1. n \in Nat
    OBVIOUS
  <2>2. \A K : \A i \in Nat : Rank(raw, K, i) \in Nat
    <3> SUFFICES ASSUME NEW K PROVE \A i \in Nat : Rank(raw, K, i) \in Nat
      OBVIOUS
    <3>1. RanksCount(raw, K)
      BY RankSteps
    <3> QED BY <3>1 DEF RanksCount
  <2> HIDE DEF n
  <2> QED BY <2>1, <2>2
<1>2. KA \in Seq(T) /\ KeptFrom(KA, raw, A, n) /\ KB \in Seq(T) /\ KeptFrom(KB, raw, B, n)
  BY KeptIs
<1>3. p = a + b
  <2> DEFINE InA == {i \in N : raw[i] \in A}
             InB == {i \in N : raw[i] \in B}
  <2>1. IsFiniteSet(N)
    BY <1>1, FS_Interval
  <2>2. IsFiniteSet(InA) /\ IsFiniteSet(InB)
    BY <2>1, FS_Subset
  <2>3. InA \cap InB = {} /\ Chosen = InA \cup InB
    OBVIOUS
  <2> HIDE DEF InA, InB, Chosen, N
  <2>4. Cardinality(InA \cup InB) = Cardinality(InA) + Cardinality(InB) - Cardinality(InA \cap InB)
    BY <2>2, FS_Union
  <2>5. Cardinality(InA \cap InB) = 0
    BY <2>3, FS_EmptySet
  <2>6. Cardinality(InA) = a /\ Cardinality(InB) = b /\ Cardinality(Chosen) = p
    BY DEF Rank, InA, InB, Chosen, N
  <2> HIDE DEF a, b, p
  <2> QED BY <1>1, <2>3, <2>4, <2>5, <2>6
<1>4. /\ Len(KA) = a /\ Len(KB) = b
      /\ \A i \in N : raw[i] \in A => Rank(raw, A, i) \in 1..a /\ KA[Rank(raw, A, i)] = raw[i]
      /\ \A i \in N : raw[i] \in B => Rank(raw, B, i) \in 1..b /\ KB[Rank(raw, B, i)] = raw[i]
      /\ \A m \in 1..a : \E i \in N : raw[i] \in A /\ Rank(raw, A, i) = m
      /\ \A m \in 1..b : \E i \in N : raw[i] \in B /\ Rank(raw, B, i) = m
      /\ \A i, j \in N : raw[i] \in A /\ raw[j] \in A /\ Rank(raw, A, i) = Rank(raw, A, j) => i = j
      /\ \A i, j \in N : raw[i] \in B /\ raw[j] \in B /\ Rank(raw, B, i) = Rank(raw, B, j) => i = j
  <2>1. Len(KA) = a /\ Len(KB) = b
    BY <1>2 DEF KeptFrom
  <2> HIDE DEF KA, KB, N, a, b
  <2> QED BY <1>2, <2>1 DEF KeptFrom, N
<1> HIDE DEF KA, KB, a, b, p
<1>5. /\ \A m \in 1..a : ours[m] = KA[m]
      /\ \A m \in 1..b : ours[a + m] = KB[m]
  BY <1>1, <1>2, <1>4
<1>6. /\ \A i \in N : raw[i] \in A => At(i) = Rank(raw, A, i)
      /\ \A i \in N : raw[i] \in B => raw[i] \notin A /\ At(i) = a + Rank(raw, B, i)
  BY DEF Place, a
<1> HIDE DEF ours, At
<1>7. \A i \in Chosen : At(i) \in 1..p /\ ours[At(i)] = raw[i]
  <2> SUFFICES ASSUME NEW i \in Chosen PROVE At(i) \in 1..p /\ ours[At(i)] = raw[i]
    OBVIOUS
  <2>1. CASE raw[i] \in A
    BY <1>1, <1>3, <1>4, <1>5, <1>6, <2>1
  <2>2. CASE raw[i] \in B
    <3>1. Rank(raw, B, i) \in 1..b /\ KB[Rank(raw, B, i)] = raw[i] /\ At(i) = a + Rank(raw, B, i)
      BY <1>4, <1>6, <2>2
    <3>2. ours[At(i)] = raw[i]
      BY <1>5, <3>1
    <3> QED BY <1>1, <1>3, <3>1, <3>2
  <2> QED BY <2>1, <2>2
<1>8. \A m \in 1..p : \E i \in Chosen : At(i) = m
  <2> SUFFICES ASSUME NEW m \in 1..p PROVE \E i \in Chosen : At(i) = m
    OBVIOUS
  <2>1. CASE m \in 1..a
    <3>1. PICK i \in N : raw[i] \in A /\ Rank(raw, A, i) = m
      BY <1>4, <2>1
    <3> QED BY <1>6, <3>1
  <2>2. CASE m \notin 1..a
    <3>1. m - a \in 1..b
      BY <1>1, <1>3, <2>2
    <3>2. PICK i \in N : raw[i] \in B /\ Rank(raw, B, i) = m - a
      BY <1>4, <3>1
    <3>3. At(i) = a + (m - a)
      BY <1>6, <3>2
    <3>4. a + (m - a) = m
      BY <1>1
    <3> QED BY <3>2, <3>3, <3>4
  <2> QED BY <2>1, <2>2
<1>9. \A i, j \in Chosen : At(i) = At(j) => i = j
  <2> SUFFICES ASSUME NEW i \in Chosen, NEW j \in Chosen, At(i) = At(j) PROVE i = j
    OBVIOUS
  <2>1. i \in N /\ j \in N
    OBVIOUS
  <2>2. CASE raw[i] \in A /\ raw[j] \in A
    BY <1>4, <1>6, <2>1, <2>2
  <2>3. CASE raw[i] \in B /\ raw[j] \in B
    <3>1. /\ At(i) = a + Rank(raw, B, i) /\ At(j) = a + Rank(raw, B, j)
          /\ Rank(raw, B, i) \in 1..b /\ Rank(raw, B, j) \in 1..b
      BY <1>4, <1>6, <2>1, <2>3
    <3>2. Rank(raw, B, i) = Rank(raw, B, j)
      <4> DEFINE x == Rank(raw, B, i)
                 y == Rank(raw, B, j)
      <4>1. a + x = a + y
        BY <3>1, Zenon
      <4>2. x \in 1..b /\ y \in 1..b
        BY <3>1
      <4> HIDE DEF x, y
      <4>3. x = y
        BY <1>1, <4>1, <4>2
      <4> QED BY <4>3 DEF x, y
    <3> QED BY <1>4, <2>1, <2>3, <3>2
  <2>4. ASSUME NEW x \in N, NEW y \in N, raw[x] \in A, raw[y] \in B PROVE At(x) # At(y)
    <3>1. At(x) \in 1..a /\ At(y) = a + Rank(raw, B, y) /\ Rank(raw, B, y) \in 1..b
      BY <1>4, <1>6, <2>4
    <3> QED BY <1>1, <3>1
  <2>5. CASE raw[i] \in A /\ raw[j] \in B
    BY <2>1, <2>4, <2>5
  <2>6. CASE raw[i] \in B /\ raw[j] \in A
    BY <2>1, <2>4, <2>6
  <2> QED BY <2>2, <2>3, <2>5, <2>6
<1>10. Places(raw, A, B, ours, p)
  BY <1>7, <1>8, <1>9 DEF Places, At
<1> QED BY <1>10 DEF p, ours, KA, KB

LEMMA ReorderedPermutes ==
  ASSUME NEW T, NEW raw \in Seq(T), NEW A, NEW B, A \cap B = {}
  PROVE  \E to : /\ Permutes(to, Reordered(raw, A, B), raw)
                 /\ KeepsSorts(Reordered(raw, A, B), raw, A \cup B)
<1> DEFINE n == Len(raw)
           N == 1..n
           C == A \cup B
           p == Rank(raw, C, n)
           ours == Kept(raw, A) \o Kept(raw, B)
           Chosen == {i \in N : raw[i] \in C}
           At(i) == Place(raw, A, B, i)
           Nth(i) == Rank(raw, C, i)
           to == [m \in N |-> IF m \in Chosen THEN CHOOSE i \in Chosen : At(i) = Nth(m) ELSE m]
           plan == Reordered(raw, A, B)
<1>1. /\ \A i \in Chosen : At(i) \in 1..p /\ ours[At(i)] = raw[i]
      /\ \A m \in 1..p : \E i \in Chosen : At(i) = m
      /\ \A i, j \in Chosen : At(i) = At(j) => i = j
  <2>1. Places(raw, A, B, ours, p)
    BY PlacesAreOneToOne
  <2> HIDE DEF p, ours
  <2> QED BY <2>1 DEF Places
<1>2. /\ \A i \in Chosen : Nth(i) \in 1..p
      /\ \A m \in 1..p : \E i \in Chosen : Nth(i) = m
      /\ \A i, j \in Chosen : Nth(i) = Nth(j) => i = j
  <2> HIDE DEF C
  <2>1. KeptFrom(Kept(raw, C), raw, C, n)
    BY KeptIs
  <2>2. Len(Kept(raw, C)) = p
    BY <2>1 DEF KeptFrom
  <2> HIDE DEF p
  <2>3. /\ \A i \in N : raw[i] \in C => Rank(raw, C, i) \in 1..p
        /\ \A m \in 1..p : \E i \in N : raw[i] \in C /\ Rank(raw, C, i) = m
        /\ \A i, j \in N : raw[i] \in C /\ raw[j] \in C /\ Rank(raw, C, i) = Rank(raw, C, j) => i = j
    BY <2>1, <2>2 DEF KeptFrom
  <2> QED BY <2>3
<1>3. \A m \in N : plan[m] = IF m \in Chosen THEN ours[Nth(m)] ELSE raw[m]
  BY DEF Reordered
<1>4. DOMAIN plan = N
  BY DEF Reordered
<1> HIDE DEF At, Nth, p, ours, plan, C
<1>5. \A m \in Chosen : to[m] \in Chosen /\ At(to[m]) = Nth(m)
  <2> SUFFICES ASSUME NEW m \in Chosen PROVE to[m] \in Chosen /\ At(to[m]) = Nth(m)
    OBVIOUS
  <2>1. \E i \in Chosen : At(i) = Nth(m)
    BY <1>1, <1>2
  <2>2. to[m] = CHOOSE i \in Chosen : At(i) = Nth(m)
    OBVIOUS
  <2> HIDE DEF to, Chosen
  <2> QED BY <2>1, <2>2
<1>6. \A m \in N : m \notin Chosen => to[m] = m
  OBVIOUS
<1>7. Chosen \subseteq N /\ DOMAIN to = N
  OBVIOUS
<1>10. to = [m \in N |-> to[m]]
  OBVIOUS
<1> HIDE DEF to, Chosen, N
<1>11. to \in [N -> N]
  <2>1. \A m \in N : to[m] \in N
    BY <1>5, <1>6, <1>7
  <2> QED BY <1>10, <2>1
<1>12. \A m, k \in N : to[m] = to[k] => m = k
  <2> SUFFICES ASSUME NEW m \in N, NEW k \in N, to[m] = to[k] PROVE m = k
    OBVIOUS
  <2>1. m \in Chosen <=> k \in Chosen
    BY <1>5, <1>6
  <2>2. CASE m \in Chosen
    BY <1>2, <1>5, <2>1, <2>2
  <2>3. CASE m \notin Chosen
    BY <1>6, <2>1, <2>3
  <2> QED BY <2>2, <2>3
<1>13. \A i \in N : \E m \in N : to[m] = i
  <2> SUFFICES ASSUME NEW i \in N PROVE \E m \in N : to[m] = i
    OBVIOUS
  <2>1. CASE i \in Chosen
    <3>1. PICK m \in Chosen : Nth(m) = At(i)
      BY <1>1, <1>2, <2>1
    <3>2. to[m] = i
      BY <1>1, <1>5, <2>1, <3>1
    <3> QED BY <1>7, <3>2
  <2>2. CASE i \notin Chosen
    BY <1>6, <2>2
  <2> QED BY <2>1, <2>2
<1>14. \A m \in N : plan[m] = raw[to[m]]
  <2> SUFFICES ASSUME NEW m \in N PROVE plan[m] = raw[to[m]]
    OBVIOUS
  <2>1. CASE m \in Chosen
    <3>1. plan[m] = ours[Nth(m)]
      BY <1>3, <2>1
    <3>2. ours[At(to[m])] = raw[to[m]] /\ At(to[m]) = Nth(m)
      BY <1>1, <1>5, <2>1
    <3> QED BY <3>1, <3>2
  <2>2. CASE m \notin Chosen
    BY <1>3, <1>6, <2>2
  <2> QED BY <2>1, <2>2
<1>15. Permutes(to, plan, raw)
  BY <1>4, <1>11, <1>12, <1>13, <1>14 DEF Permutes, N
<1>16. KeepsSorts(plan, raw, C)
  <2> SUFFICES ASSUME NEW m \in N
               PROVE  IF raw[m] \in C THEN plan[m] \in C ELSE plan[m] = raw[m]
    BY DEF KeepsSorts, N
  <2>1. CASE raw[m] \in C
    <3>1. to[m] \in Chosen
      BY <1>5, <2>1 DEF Chosen
    <3> QED BY <1>14, <2>1, <3>1 DEF Chosen
  <2>2. CASE raw[m] \notin C
    <3>1. m \notin Chosen
      BY <2>2 DEF Chosen
    <3> QED BY <1>3, <2>2, <3>1
  <2> QED BY <2>1, <2>2
<1> QED BY <1>15, <1>16 DEF plan, C

(* No route is lost or doubled by another order. *)
Times(r, s, k) == Cardinality({n \in 1..k : s[n] = r})

LEMMA PermutedCounts ==
  ASSUME NEW T, NEW raw \in Seq(T), NEW plan, NEW to, Permutes(to, plan, raw), NEW r
  PROVE  Times(r, raw, Len(raw)) = Times(r, plan, Len(raw))
<1> DEFINE N == 1..Len(raw)
           X == {n \in N : plan[n] = r}
           Y == {n \in N : raw[n] = r}
           f == [n \in X |-> to[n]]
<1>1. IsFiniteSet(N) /\ IsFiniteSet(X)
  <2>1. Len(raw) \in Nat
    OBVIOUS
  <2>2. IsFiniteSet(N)
    BY <2>1, FS_Interval
  <2> QED BY <2>2, FS_Subset
<1>2. /\ to \in [N -> N] /\ \A n, m \in N : to[n] = to[m] => n = m
      /\ \A i \in N : \E n \in N : to[n] = i
      /\ \A n \in N : plan[n] = raw[to[n]]
  BY DEF Permutes
<1>3. f \in [X -> Y]
  BY <1>2
<1>4. \A n, m \in X : f[n] = f[m] => n = m
  BY <1>2
<1>5. ASSUME NEW i \in Y
      PROVE  \E n \in X : f[n] = i
  <2>1. PICK n \in N : to[n] = i
    BY <1>2
  <2>2. n \in X
    BY <1>2, <2>1
  <2> QED BY <2>1, <2>2
<1> HIDE DEF f, X, Y
<1>6. f \in Bijection(X, Y)
  BY <1>3, <1>4, <1>5 DEF Bijection, Injection, Surjection, IsInjective
<1>7. ExistsBijection(X, Y)
  BY <1>6 DEF ExistsBijection
<1>8. Cardinality(Y) = Cardinality(X)
  BY <1>1, <1>7, FS_Bijection
<1> QED BY <1>8 DEF X, Y, Times

-----------------------------------------------------------------------------
(* The plan of a connection.                                               *)

RouteKinds == {"relay", "user_domain", "user_worker", "front", "tunnel", "upstream", "direct"}
Slots == (0..(FrontCount - 1)) \X {0, 1}
RelayNames == HealthKeys \cup {NoAddress}
AllRoutes == [kind : RouteKinds, key : HealthKeys \cup {""},
              slot : Slots \cup {<<>>} \cup {<<a>> : a \in RelayNames}]

IsPaused(r) == r.key # "" /\ IsSuppressed(r.key)

(* Ways over WSS that are not paused, and fronts, whether they are or not. *)
FreshRoutes == {r \in AllRoutes : ~IsPaused(r) /\ (r.kind = "front" => r.slot \in Slots)}
Fronts == {r \in AllRoutes : r.kind = "front" /\ r.key = "cdn" /\ r.slot \in Slots}

LEMMA RoutesAreTyped ==
  /\ {"relay", "media relay", "cdn", "direct"} \subseteq HealthKeys
  /\ \A kind \in RouteKinds, k \in HealthKeys \cup {""} :
        /\ Route(kind, k) \in AllRoutes /\ Route(kind, k).kind = kind /\ Route(kind, k).key = k
        /\ kind # "front" /\ ~IsSuppressed(k) => Route(kind, k) \in FreshRoutes
  /\ \A s \in Slots :
        /\ [Route("front", "cdn") EXCEPT !.slot = s] \in Fronts
        /\ ~IsSuppressed("cdn") => [Route("front", "cdn") EXCEPT !.slot = s] \in FreshRoutes
  /\ \A k \in {"relay", "media relay"}, a \in RelayNames :
        ~IsSuppressed(k) => [Route("relay", k) EXCEPT !.slot = <<a>>] \in FreshRoutes
<1>1. {"relay", "media relay", "cdn", "direct"} \subseteq HealthKeys
  BY DEF HealthKeys
<1> HIDE DEF HealthKeys
<1>2. ASSUME NEW kind \in RouteKinds, NEW k \in HealthKeys \cup {""}
      PROVE  /\ Route(kind, k) \in AllRoutes
             /\ Route(kind, k).kind = kind /\ Route(kind, k).key = k
             /\ kind # "front" /\ ~IsSuppressed(k) => Route(kind, k) \in FreshRoutes
  BY DEF Route, AllRoutes, FreshRoutes, IsPaused
<1>3. ASSUME NEW s \in Slots
      PROVE  /\ [Route("front", "cdn") EXCEPT !.slot = s] \in Fronts
             /\ ~IsSuppressed("cdn") => [Route("front", "cdn") EXCEPT !.slot = s] \in FreshRoutes
  BY <1>1 DEF Route, AllRoutes, FreshRoutes, Fronts, RouteKinds, IsPaused
<1>4. ASSUME NEW k \in {"relay", "media relay"}, NEW a \in RelayNames, ~IsSuppressed(k)
      PROVE  [Route("relay", k) EXCEPT !.slot = <<a>>] \in FreshRoutes
  BY <1>1, <1>4 DEF Route, AllRoutes, FreshRoutes, RouteKinds, IsPaused
<1> QED BY <1>1, <1>2, <1>3, <1>4

LEMMA RelayIsFresh ==
  ASSUME NEW request
  PROVE  RelayRoute(request) \in Seq(FreshRoutes)
<1> DEFINE known == IF preferred \in Addresses
                    THEN <<preferred>> \o Kept(RelayAddresses, Addresses \ {preferred})
                    ELSE RelayAddresses
           usable == Kept(RelayAddressOrder, Unpaused)
           domain == IF request.media THEN "media relay" ELSE "relay"
           address == IF usable = <<>> THEN NoAddress ELSE Head(usable)
<1>1. Addresses \subseteq HealthKeys /\ RelayAddresses \in Seq(HealthKeys)
  BY KeysAreInSequences DEF HealthKeys
<1> HIDE DEF Addresses, HealthKeys
<1>2. known \in Seq(HealthKeys)
  <2>1. Kept(RelayAddresses, Addresses \ {preferred}) \in Seq(HealthKeys)
    BY <1>1, KeptIs
  <2> QED BY <1>1, <2>1
<1>3. RelayAddressOrder \in Seq(HealthKeys)
  <2> HIDE DEF known
  <2>1. /\ Kept(known, Addresses \ failedRelays) \in Seq(HealthKeys)
        /\ Kept(known, failedRelays) \in Seq(HealthKeys)
    BY <1>2, KeptIs
  <2> QED BY <2>1 DEF RelayAddressOrder, known
<1>4. usable \in Seq(HealthKeys)
  BY <1>3, KeptIs
<1> HIDE DEF usable
<1>5. address \in RelayNames
  BY <1>4 DEF RelayNames
<1>6. domain \in {"relay", "media relay"}
  OBVIOUS
<1>7. RelayRoute(request) = IF ~request.relay \/ IsSuppressed(domain) THEN <<>>
                            ELSE <<[Route("relay", domain) EXCEPT !.slot = <<address>>]>>
  BY DEF RelayRoute, usable
<1> HIDE DEF domain, address
<1>8. CASE IsSuppressed(domain) \/ ~request.relay
  BY <1>7, <1>8
<1>9. CASE ~IsSuppressed(domain) /\ request.relay
  <2>1. [Route("relay", domain) EXCEPT !.slot = <<address>>] \in FreshRoutes
    BY <1>5, <1>6, <1>9, RoutesAreTyped
  <2> QED BY <1>7, <1>9, <2>1
<1> QED BY <1>8, <1>9

LEMMA OpenIsFresh ==
  ASSUME NEW keys \in Seq(HealthKeys), NEW kind \in {"user_domain", "user_worker", "tunnel"}
  PROVE  Open(kind, keys) \in Seq(FreshRoutes)
<1> DEFINE usable == Kept(keys, Unpaused)
<1>1. usable \in Seq(HealthKeys \cap Unpaused)
  BY KeptMembers
<1>2. \A n \in 1..Len(usable) : Route(kind, usable[n]) \in FreshRoutes
  <2> SUFFICES ASSUME NEW n \in 1..Len(usable) PROVE Route(kind, usable[n]) \in FreshRoutes
    OBVIOUS
  <2>1. usable[n] \in HealthKeys \cap Unpaused
    BY <1>1
  <2>2. usable[n] \in HealthKeys /\ ~IsSuppressed(usable[n])
    BY <2>1 DEF Unpaused
  <2>3. kind \in RouteKinds /\ kind # "front"
    BY DEF RouteKinds
  <2> HIDE DEF usable
  <2> QED BY <2>2, <2>3, RoutesAreTyped
<1>3. Len(usable) \in Nat
  BY <1>1
<1>4. Open(kind, keys) = [n \in 1..Len(usable) |-> Route(kind, usable[n])]
  BY DEF Open
<1> HIDE DEF usable
<1> QED BY <1>2, <1>3, <1>4

LEMMA SlotsExist ==
  ASSUME RtTypeOK, NEW n \in 1..3
  PROVE  NextFrontSlots(3)[n] \in Slots
<1>1. /\ FrontCount \in Nat \ {0} /\ FrontSlots = 2 * FrontCount
      /\ frontCursor \in 0..(FrontSlots - 1) /\ frontFamily \in {0, 1, NoFamily}
  BY RtAssumption DEF RtTypeOK, FrontSlots
<1>2. CASE frontFamily = NoFamily
  <2> DEFINE slot == (frontCursor + n - 1) % FrontSlots
  <2>1. slot \in 0..(FrontSlots - 1)
    BY <1>1
  <2>2. NextFrontSlots(3)[n] = <<slot \div 2, slot % 2>>
    BY <1>2 DEF NextFrontSlots
  <2> HIDE DEF slot
  <2>3. slot \div 2 \in 0..(FrontCount - 1) /\ slot % 2 \in {0, 1}
    BY <1>1, <2>1
  <2> QED BY <2>2, <2>3 DEF Slots
<1>3. CASE frontFamily # NoFamily
  <2> DEFINE i == (frontCursor \div 2 + n - 1) % FrontCount
  <2>1. frontCursor \div 2 + n - 1 \in Nat
    BY <1>1
  <2>2. i \in 0..(FrontCount - 1)
    BY <1>1, <2>1
  <2>3. NextFrontSlots(3)[n] = <<i, frontFamily>>
    BY <1>3 DEF NextFrontSlots
  <2>4. frontFamily \in {0, 1}
    BY <1>1, <1>3
  <2> HIDE DEF i
  <2> QED BY <2>2, <2>3, <2>4 DEF Slots
<1> QED BY <1>2, <1>3

LEMMA FrontsAreFronts ==
  ASSUME RtTypeOK
  PROVE  /\ FrontRoutes(TRUE) \in Seq(Fronts) /\ Len(FrontRoutes(TRUE)) = 3
         /\ FrontRoutes(FALSE) \in Seq(FreshRoutes)
         /\ FrontRoutes(FALSE) = <<>> => IsSuppressed("cdn")
<1> DEFINE fronts == [n \in 1..3 |-> [Route("front", "cdn") EXCEPT !.slot = NextFrontSlots(3)[n]]]
<1>1. FrontRoutes(TRUE) = fronts
  BY DEF FrontRoutes
<1>2. FrontRoutes(FALSE) = IF IsSuppressed("cdn") THEN <<>> ELSE fronts
  BY DEF FrontRoutes
<1>3. \A n \in 1..3 : NextFrontSlots(3)[n] \in Slots
  BY SlotsExist
<1>4. \A n \in 1..3 : fronts[n] \in Fronts /\ (~IsSuppressed("cdn") => fronts[n] \in FreshRoutes)
  BY <1>3, RoutesAreTyped
<1>5. fronts \in Seq(Fronts) /\ Len(fronts) = 3
  <2>1. DOMAIN fronts = 1..3
    OBVIOUS
  <2> QED BY <1>4
<1>6. ~IsSuppressed("cdn") => fronts \in Seq(FreshRoutes)
  BY <1>4
<1> HIDE DEF fronts
<1>7. CASE IsSuppressed("cdn")
  <2>1. <<>> \in Seq(FreshRoutes)
    OBVIOUS
  <2> QED BY <1>1, <1>2, <1>5, <1>7, <2>1
<1>8. CASE ~IsSuppressed("cdn")
  <2>0. FrontRoutes(FALSE) = fronts
    BY <1>2, <1>8
  <2>2. fronts # <<>>
    BY <1>5, EmptySeq
  <2>1. FrontRoutes(FALSE) # <<>>
    BY <2>0, <2>2
  <2> QED BY <1>1, <1>2, <1>5, <1>6, <1>8, <2>1
<1> QED BY <1>7, <1>8

LEMMA WsPlanIsFresh ==
  ASSUME RtTypeOK, NEW request
  PROVE  /\ WsPlan(request) \in Seq(FreshRoutes)
         /\ WsPlan(request) = <<>> => IsSuppressed("cdn")
<1> DEFINE relay == RelayRoute(request)
           domains == IF request.domains THEN Open("user_domain", UserDomains) ELSE <<>>
           workers == IF request.workers /\ request.ip THEN Open("user_worker", UserWorkers)
                      ELSE <<>>
           fronts == FrontRoutes(FALSE)
           tunnels == IF request.ip THEN TunnelRoutes ELSE <<>>
<1>1. relay \in Seq(FreshRoutes) /\ fronts \in Seq(FreshRoutes)
  BY RelayIsFresh, FrontsAreFronts
<1>2. {UserDomains, UserWorkers, TunnelHosts} \subseteq Seq(HealthKeys)
  BY KeysAreInSequences
<1>3. domains \in Seq(FreshRoutes) /\ workers \in Seq(FreshRoutes)
  <2>1. Open("user_domain", UserDomains) \in Seq(FreshRoutes)
    BY <1>2, OpenIsFresh
  <2>2. Open("user_worker", UserWorkers) \in Seq(FreshRoutes)
    BY <1>2, OpenIsFresh
  <2> QED BY <2>1, <2>2
<1>4. tunnels \in Seq(FreshRoutes)
  <2> DEFINE open == Open("tunnel", TunnelHosts)
             most == Min({Len(open), 3})
  <2>1. open \in Seq(FreshRoutes)
    BY <1>2, OpenIsFresh
  <2> HIDE DEF open
  <2>2. Len(open) \in Nat
    BY <2>1
  <2>3. most \in 0..Len(open)
    BY <2>2, MinOfTwo
  <2> HIDE DEF most
  <2>4. SubSeq(open, 1, most) \in Seq(FreshRoutes)
    <3>1. \A n \in 1..most : open[n] \in FreshRoutes
      BY <2>1, <2>2, <2>3
    <3> QED BY <2>1, <2>2, <2>3, <3>1
  <2>5. TunnelRoutes = SubSeq(open, 1, most)
    BY DEF TunnelRoutes, open, most
  <2> QED BY <2>4, <2>5
<1>5. WsPlan(request) = relay \o domains \o workers \o fronts \o tunnels
  BY DEF WsPlan
<1> HIDE DEF relay, domains, workers, fronts, tunnels
<1>6. relay \o domains \o workers \in Seq(FreshRoutes)
  BY <1>1, <1>3
<1> DEFINE first == relay \o domains \o workers
<1> HIDE DEF first
<1>7. first \o fronts \in Seq(FreshRoutes) /\ Len(first \o fronts) = Len(first) + Len(fronts)
  BY <1>1, <1>6 DEF first
<1>8. /\ first \o fronts \o tunnels \in Seq(FreshRoutes)
      /\ Len(first \o fronts \o tunnels) = Len(first \o fronts) + Len(tunnels)
  BY <1>4, <1>7
<1>9. WsPlan(request) = first \o fronts \o tunnels
  BY <1>5 DEF first
<1>10. ASSUME WsPlan(request) = <<>> PROVE IsSuppressed("cdn")
  <2>1. Len(first) \in Nat /\ Len(fronts) \in Nat /\ Len(tunnels) \in Nat
    BY <1>1, <1>4, <1>6 DEF first
  <2>2. Len(fronts) = 0
    BY <1>7, <1>8, <1>9, <1>10, <2>1
  <2>3. fronts = <<>>
    BY <1>1, <2>2
  <2> QED BY <2>3, FrontsAreFronts DEF fronts
<1> QED BY <1>8, <1>9, <1>10

(* The place of a paused way in a plan with WSS. *)
AfterUnpaused(plan, n) ==
    \A m \in 1..Len(plan) : IsPaused(plan[m]) \/ (m < n /\ ~IsWs(plan[m]))

(* What the plan has before it is put in order. *)
GoodPlan(plan, request) ==
    /\ plan \in Seq(AllRoutes) /\ plan # <<>>
    /\ \A n \in 1..Len(plan) : plan[n].kind = "front" => plan[n].slot \in Slots
    /\ \A n \in 1..Len(plan) : request.wss /\ IsPaused(plan[n]) => AfterUnpaused(plan, n)
    /\ \A n \in 1..Len(plan) : request.wss /\ IsPaused(plan[n]) => IsWs(plan[n])

LEMMA SeqOfMore ==
  ASSUME NEW S, NEW T, S \subseteq T, NEW s \in Seq(S)
  PROVE  s \in Seq(T)
<1>1. Len(s) \in Nat /\ DOMAIN s = 1..Len(s) /\ \A n \in 1..Len(s) : s[n] \in T
  OBVIOUS
<1> QED BY <1>1

LEMMA JoinedMembers ==
  ASSUME NEW S, NEW T, NEW s \in Seq(S), NEW t \in Seq(T)
  PROVE  \A n \in 1..Len(s \o t) :
             IF n <= Len(s) THEN (s \o t)[n] \in S ELSE (s \o t)[n] \in T
  OBVIOUS

LEMMA Joined ==
  ASSUME NEW T, NEW s \in Seq(T), NEW t \in Seq(T)
  PROVE  /\ s \o t \in Seq(T) /\ Len(s) \in Nat /\ Len(t) \in Nat
         /\ Len(s \o t) = Len(s) + Len(t)
  OBVIOUS

(* The ways besides WSS. *)
Besides(request) ==
    {r \in AllRoutes : r.kind \in {"upstream", "direct"} /\ (request.wss => ~IsPaused(r))}

LEMMA BackupIsBesides ==
  ASSUME NEW request
  PROVE  LET backup == IF request.upstream # "off" THEN <<Route("upstream", "")>>
                       ELSE IF ~request.wss \/ ~IsSuppressed("direct")
                       THEN <<Route("direct", "direct")>> ELSE <<>>
         IN  backup \in Seq(Besides(request)) /\ (~request.wss => Len(backup) = 1)
<1>0. /\ Route("upstream", "") \in AllRoutes /\ Route("upstream", "").kind = "upstream"
      /\ Route("upstream", "").key = ""
      /\ Route("direct", "direct") \in AllRoutes /\ Route("direct", "direct").kind = "direct"
      /\ Route("direct", "direct").key = "direct"
  <2>1. {"upstream", "direct"} \subseteq RouteKinds /\ "direct" \in HealthKeys
    BY RoutesAreTyped DEF RouteKinds
  <2> QED BY <2>1, RoutesAreTyped
<1>1. Route("upstream", "") \in Besides(request)
  BY <1>0 DEF Besides, IsPaused
<1>2. ~request.wss \/ ~IsSuppressed("direct") => Route("direct", "direct") \in Besides(request)
  BY <1>0 DEF Besides, IsPaused
<1>3. \A r \in Besides(request) : <<r>> \in Seq(Besides(request)) /\ Len(<<r>>) = 1
  OBVIOUS
<1>4. <<>> \in Seq(Besides(request))
  OBVIOUS
<1>5. CASE request.upstream # "off"
  BY <1>1, <1>3, <1>5
<1>6. CASE request.upstream = "off" /\ (~request.wss \/ ~IsSuppressed("direct"))
  BY <1>2, <1>3, <1>6
<1>7. CASE request.upstream = "off" /\ request.wss /\ IsSuppressed("direct")
  BY <1>4, <1>7
<1> QED BY <1>5, <1>6, <1>7

LEMMA GoodFromMembers ==
  ASSUME NEW plan \in Seq(AllRoutes), NEW request, Len(plan) # 0,
         \A n \in 1..Len(plan) : plan[n].kind = "front" => plan[n].slot \in Slots,
         request.wss => \A n \in 1..Len(plan) : IsPaused(plan[n]) =>
                            IsWs(plan[n]) /\ AfterUnpaused(plan, n)
  PROVE  GoodPlan(plan, request)
<1>1. plan # <<>>
  OBVIOUS
<1> QED BY <1>1 DEF GoodPlan

LEMMA RawPlanIsGood ==
  ASSUME RtTypeOK, NEW request
  PROVE  GoodPlan(RawPlan(request), request)
<1> DEFINE up == <<Route("upstream", "")>>
           ws == IF request.wss THEN WsPlan(request) ELSE <<>>
           backup == IF request.upstream # "off" THEN up
                     ELSE IF ~request.wss \/ ~IsSuppressed("direct")
                     THEN <<Route("direct", "direct")>> ELSE <<>>
           last == IF ws = <<>> /\ request.wss THEN FrontRoutes(TRUE) ELSE <<>>
           X == Besides(request)
<1>1. /\ \A r \in X : /\ r \in AllRoutes /\ ~IsWs(r) /\ r.kind # "front"
                      /\ request.wss => ~IsPaused(r)
      /\ \A r \in FreshRoutes : /\ r \in AllRoutes /\ ~IsPaused(r)
                                /\ r.kind = "front" => r.slot \in Slots
      /\ \A r \in Fronts : /\ r \in AllRoutes /\ IsWs(r) /\ r.slot \in Slots
                           /\ IsPaused(r) <=> IsSuppressed("cdn")
  BY DEF Besides, IsWs, Fronts, FreshRoutes, IsPaused
<1>2. backup \in Seq(X) /\ (~request.wss => Len(backup) = 1)
  BY BackupIsBesides
<1>3. CASE request.upstream = "always"
  <2>1. RawPlan(request) = up
    BY <1>3 DEF RawPlan
  <2>2. backup = up /\ up \in Seq(X) /\ Len(up) = 1
    BY <1>2, <1>3
  <2> HIDE DEF up, X, backup
  <2>3. \A n \in 1..Len(up) : up[n] \in X
    BY <2>2
  <2>4. up \in Seq(AllRoutes)
    BY <1>1, <2>2, SeqOfMore
  <2> QED BY <1>1, <2>1, <2>2, <2>3, <2>4, GoodFromMembers
<1>4. CASE request.upstream # "always"
  <2>1. RawPlan(request) = ws \o backup \o last
    BY <1>4 DEF RawPlan
  <2> HIDE DEF backup, up, X
  <2>2. CASE request.wss /\ WsPlan(request) = <<>>
    <3> DEFINE fronts == FrontRoutes(TRUE)
    <3>1. ws = <<>> /\ last = fronts
      BY <2>2
    <3>2. fronts \in Seq(Fronts) /\ Len(fronts) = 3 /\ IsSuppressed("cdn")
      BY <2>2, FrontsAreFronts, WsPlanIsFresh
    <3> HIDE DEF ws, last, fronts
    <3>3. <<>> \o backup = backup
      BY <1>2
    <3> DEFINE plan == backup \o fronts
    <3>4. backup \in Seq(X \cup Fronts) /\ fronts \in Seq(X \cup Fronts)
      BY <1>2, <3>2, SeqOfMore
    <3>5. plan \in Seq(X \cup Fronts) /\ Len(plan) # 0
      BY <3>2, <3>4, Joined
    <3>6. RawPlan(request) = plan
      BY <2>1, <3>1, <3>3
    <3> HIDE DEF plan
    <3>7. plan \in Seq(AllRoutes)
      BY <1>1, <3>5, SeqOfMore
    <3>8. \A n \in 1..Len(plan) : IF n <= Len(backup) THEN plan[n] \in X ELSE plan[n] \in Fronts
      BY <1>2, <3>2, JoinedMembers DEF plan
    <3>9. \A n \in 1..Len(plan) : IF n <= Len(backup) THEN ~IsWs(plan[n]) /\ ~IsPaused(plan[n])
                                  ELSE IsWs(plan[n]) /\ IsPaused(plan[n])
      BY <1>1, <2>2, <3>2, <3>8
    <3>10. \A n \in 1..Len(plan) : IsPaused(plan[n]) => IsWs(plan[n]) /\ AfterUnpaused(plan, n)
      <4>1. Len(backup) \in Nat /\ Len(plan) \in Nat
        BY <1>2, <3>5
      <4> QED BY <3>9, <4>1 DEF AfterUnpaused
    <3>11. \A n \in 1..Len(plan) : plan[n].kind = "front" => plan[n].slot \in Slots
      BY <1>1, <3>8
    <3> QED BY <2>2, <3>5, <3>6, <3>7, <3>10, <3>11, GoodFromMembers
  <2>3. CASE request.wss /\ WsPlan(request) # <<>>
    <3>1. ws \in Seq(FreshRoutes) /\ ws # <<>> /\ last = <<>>
      BY <2>3, WsPlanIsFresh
    <3> HIDE DEF ws, last
    <3> DEFINE plan == ws \o backup
    <3>2. ws \in Seq(X \cup FreshRoutes) /\ backup \in Seq(X \cup FreshRoutes)
      BY <1>2, <3>1, SeqOfMore
    <3>3. Len(ws) \in Nat \ {0}
      BY <3>1
    <3>4. plan \in Seq(X \cup FreshRoutes) /\ Len(plan) # 0
      BY <3>2, <3>3, Joined
    <3> HIDE DEF plan
    <3>5. plan \o <<>> = plan
      BY <3>4
    <3>6. RawPlan(request) = plan
      BY <2>1, <3>1, <3>5 DEF plan
    <3>7. plan \in Seq(AllRoutes)
      BY <1>1, <3>4, SeqOfMore
    <3>8. \A n \in 1..Len(plan) : plan[n] \in X \/ plan[n] \in FreshRoutes
      BY <3>4
    <3> QED BY <1>1, <2>3, <3>4, <3>6, <3>7, <3>8, GoodFromMembers
  <2>4. CASE ~request.wss
    <3>1. ws = <<>> /\ last = <<>>
      BY <2>4
    <3> HIDE DEF ws, last
    <3>2. <<>> \o backup \o <<>> = backup
      BY <1>2
    <3>3. RawPlan(request) = backup
      BY <2>1, <3>1, <3>2
    <3>4. backup \in Seq(AllRoutes)
      BY <1>1, <1>2, SeqOfMore
    <3>5. \A n \in 1..Len(backup) : backup[n] \in X
      BY <1>2
    <3> QED BY <1>1, <1>2, <2>4, <3>3, <3>4, <3>5, GoodFromMembers
  <2> QED BY <2>2, <2>3, <2>4
<1> QED BY <1>3, <1>4

LEMMA OrderedIsReordered ==
  ASSUME NEW raw \in Seq(AllRoutes), NEW request
  PROVE  \/ Ordered(raw, request) = raw
         \/ \E A, B : /\ A \cap B = {} /\ \A r \in A \cup B : IsPrimary(r)
                      /\ Ordered(raw, request) = Reordered(raw, A, B)
<1> DEFINE Home(r) == Cluster(r, request) = request.home
           A == {r \in ToSet(raw) : IsPrimary(r) /\ Home(r)}
           B == {r \in ToSet(raw) : IsPrimary(r) /\ ~Home(r)}
           C == A \cup B
           ours == Kept(raw, A) \o Kept(raw, B)
           Nth(n) == Cardinality({m \in 1..n : IsPrimary(raw[m])})
           ordered == [n \in 1..Len(raw) |-> IF IsPrimary(raw[n]) THEN ours[Nth(n)] ELSE raw[n]]
<1>1. Ordered(raw, request) = raw \/ Ordered(raw, request) = ordered
  BY DEF Ordered
<1>2. A \cap B = {}
  OBVIOUS
<1>3. \A n \in 1..Len(raw) : IsPrimary(raw[n]) <=> raw[n] \in C
  <2>1. \A n \in 1..Len(raw) : raw[n] \in ToSet(raw)
    BY DEF ToSet
  <2> HIDE DEF Home
  <2> QED BY <2>1
<1> HIDE DEF A, B, Home
<1>4. \A n \in 1..Len(raw) : Nth(n) = Rank(raw, C, n)
  <2> SUFFICES ASSUME NEW n \in 1..Len(raw) PROVE Nth(n) = Rank(raw, C, n)
    OBVIOUS
  <2>1. \A m \in 1..n : IsPrimary(raw[m]) <=> raw[m] \in C
    <3>1. \A m \in 1..n : m \in 1..Len(raw)
      OBVIOUS
    <3> QED BY <1>3, <3>1
  <2> HIDE DEF C
  <2>2. {m \in 1..n : IsPrimary(raw[m])} = {m \in 1..n : raw[m] \in C}
    BY <2>1
  <2> QED BY <2>2 DEF Rank
<1>5. ordered = Reordered(raw, A, B)
  <2>1. Reordered(raw, A, B) =
            [n \in 1..Len(raw) |-> IF raw[n] \in C THEN ours[Rank(raw, C, n)] ELSE raw[n]]
    BY DEF Reordered
  <2> HIDE DEF C, ours, Nth
  <2> QED BY <1>3, <1>4, <2>1
<1>6. \A r \in A \cup B : IsPrimary(r)
  BY DEF A, B
<1> QED BY <1>1, <1>2, <1>5, <1>6

(* The plan, against what it was before it was put in order. *)
FinalPlan(raw, plan, request) ==
    /\ plan # <<>>
    /\ \A n \in 1..Len(plan) : plan[n].kind = "front" => plan[n].slot \in Slots
    /\ \A n \in 1..Len(plan) : request.wss /\ IsPaused(plan[n]) => AfterUnpaused(plan, n)
    /\ plan # raw => \A route \in ToSet(raw) :
          Cardinality({n \in 1..Len(raw) : raw[n] = route})
            = Cardinality({n \in 1..Len(plan) : plan[n] = route})

LEMMA GoodWhenPermuted ==
  ASSUME NEW raw, NEW plan, NEW request, GoodPlan(raw, request),
         NEW to, Permutes(to, plan, raw), Len(plan) = Len(raw),
         \A n \in 1..Len(raw) : IsWs(plan[n]) <=> IsWs(raw[n])
  PROVE  FinalPlan(raw, plan, request)
<1>1. /\ \A n \in 1..Len(raw) : to[n] \in 1..Len(raw) /\ plan[n] = raw[to[n]]
      /\ \A i \in 1..Len(raw) : \E n \in 1..Len(raw) : to[n] = i
      /\ DOMAIN plan = 1..Len(raw)
  BY DEF Permutes
<1>2. /\ raw \in Seq(AllRoutes) /\ raw # <<>>
      /\ \A n \in 1..Len(raw) : raw[n].kind = "front" => raw[n].slot \in Slots
      /\ \A n \in 1..Len(raw) : request.wss /\ IsPaused(raw[n]) =>
            AfterUnpaused(raw, n) /\ IsWs(raw[n])
  BY DEF GoodPlan
<1>3. Len(raw) \in Nat /\ 1 \in 1..Len(raw)
  BY <1>2
<1>4. plan # <<>>
  BY <1>1, <1>3
<1>5. ASSUME NEW n \in 1..Len(plan), plan[n].kind = "front" PROVE plan[n].slot \in Slots
  <2>1. to[n] \in 1..Len(raw) /\ plan[n] = raw[to[n]]
    BY <1>1
  <2>2. raw[to[n]].kind = "front" => raw[to[n]].slot \in Slots
    BY <1>2, <2>1
  <2> QED BY <1>5, <2>1, <2>2
<1>6. ASSUME NEW n \in 1..Len(plan), request.wss, IsPaused(plan[n]),
             NEW m \in 1..Len(plan), ~IsPaused(plan[m])
      PROVE  m < n /\ ~IsWs(plan[m])
  <2>1. to[n] \in 1..Len(raw) /\ plan[n] = raw[to[n]] /\ to[m] \in 1..Len(raw) /\ plan[m] = raw[to[m]]
    BY <1>1
  <2>2. IsPaused(raw[to[n]]) /\ IsWs(raw[to[n]]) /\ AfterUnpaused(raw, to[n])
    BY <1>2, <1>6, <2>1
  <2>3. ~IsPaused(raw[to[m]])
    BY <1>6, <2>1
  <2>4. ~IsWs(plan[m]) /\ IsWs(plan[n])
    BY <2>1, <2>2, <2>3 DEF AfterUnpaused
  <2>5. ~IsWs(raw[m]) /\ IsWs(raw[n])
    BY <2>4
  <2>6. IsPaused(raw[n])
    BY <2>2, <2>5 DEF AfterUnpaused
  <2>7. ~IsPaused(raw[m])
    BY <1>2, <1>6, <2>5
  <2> QED BY <1>2, <1>6, <2>4, <2>6, <2>7 DEF AfterUnpaused
<1>7. ASSUME NEW r
      PROVE  Cardinality({n \in 1..Len(raw) : raw[n] = r})
               = Cardinality({n \in 1..Len(plan) : plan[n] = r})
  <2>1. Times(r, raw, Len(raw)) = Times(r, plan, Len(raw))
    BY <1>2, PermutedCounts
  <2> QED BY <2>1 DEF Times
<1>8. \A n \in 1..Len(plan) : request.wss /\ IsPaused(plan[n]) => AfterUnpaused(plan, n)
  BY <1>6 DEF AfterUnpaused
<1> QED BY <1>4, <1>5, <1>7, <1>8 DEF FinalPlan

LEMMA PlanIsFinal ==
  ASSUME RtTypeOK, NEW request
  PROVE  FinalPlan(RawPlan(request), Ordered(RawPlan(request), request), request)
<1> DEFINE raw == RawPlan(request)
           plan == Ordered(raw, request)
<1>1. GoodPlan(raw, request)
  BY RawPlanIsGood
<1> HIDE DEF raw
<1>2. raw \in Seq(AllRoutes) /\ Len(raw) \in Nat
  BY <1>1 DEF GoodPlan
<1>3. CASE plan = raw
  <2> HIDE DEF plan
  <2> QED BY <1>1, <1>3 DEF GoodPlan, FinalPlan, raw, plan
<1>4. CASE plan # raw
  <2>1. PICK A, B : /\ A \cap B = {} /\ \A r \in A \cup B : IsPrimary(r)
                    /\ plan = Reordered(raw, A, B)
    BY <1>2, <1>4, OrderedIsReordered
  <2> HIDE DEF plan
  <2>2. PICK to : Permutes(to, plan, raw) /\ KeepsSorts(plan, raw, A \cup B)
    BY <1>2, <2>1, ReorderedPermutes
  <2>3. Len(plan) = Len(raw)
    BY <1>2, <2>1 DEF Reordered
  <2>4. \A n \in 1..Len(raw) : IsWs(plan[n]) <=> IsWs(raw[n])
    <3>1. \A r \in A \cup B : IsWs(r)
      BY <2>1 DEF IsPrimary, IsWs
    <3> QED BY <2>2, <3>1 DEF KeepsSorts
  <2> QED BY <1>1, <2>2, <2>3, <2>4, GoodWhenPermuted DEF raw, plan
<1> QED BY <1>3, <1>4

LEMMA PlansAreGood == RtTypeOK => NeverWithoutRoute
<1> SUFFICES ASSUME RtTypeOK PROVE NeverWithoutRoute
  OBVIOUS
<1>1. \A request \in PlanInputs :
          FinalPlan(RawPlan(request), Ordered(RawPlan(request), request), request)
  BY PlanIsFinal
<1> QED BY <1>1 DEF NeverWithoutRoute, FinalPlan, AfterUnpaused, IsPaused, Slots

(* Whatever has failed, each plan has a way to try at a front that exists, *)
(* a paused way only when no other way over WSS is left and after what is  *)
(* not paused, and no way is lost or doubled by putting the home cluster   *)
(* first: for any keys, thresholds, fronts and requests.                   *)
THEOREM SomeRouteIsLeft == RtSpec => []NeverWithoutRoute
<1>1. RtInv => NeverWithoutRoute
  BY PlansAreGood DEF RtInv
<1> QED BY <1>1, RtInvariant, PTL
==============================================================================
