----------------------------- MODULE ReleaseLookup -----------------------------
(***************************************************************************)
(* The search for the newest release: Forgejo is asked first, the mirrors  *)
(* after its error or after a head start; each source is a thread that     *)
(* sends one answer into a channel; the first good answer wins. The thread *)
(* of the mirrors runs a race of its own: after the first good answer the  *)
(* others have a short window, and the newest version wins, the earlier    *)
(* mirror among equals.                                                    *)
(*                                                                         *)
(* Time is in ticks. A loop that can go on does so within the tick; answers*)
(* come at any tick or never (a thread that panicked).                     *)
(***************************************************************************)
EXTENDS FiniteSetsExt, Integers, Sequences

CONSTANTS Mirrors,         (* the number of mirrors                        *)
          Versions,        (* versions a source may offer                  *)
          HeadStart, ForgejoTime, MirrorsTime,  (* delay and deadlines     *)
          RaceTime, Settle,                     (* of the race             *)
          LastTick         (* bound: the clock stops                       *)

ASSUME RlAssumption ==
    /\ Versions \subseteq Nat \ {0}
    /\ {Mirrors, HeadStart, ForgejoTime, MirrorsTime, RaceTime, Settle, LastTick} \subseteq Nat

VARIABLES tick,
          awaited,         (* the deadline of each source waited for       *)
          failed,          (* sources in errors                            *)
          mirrorsAt,       (* when the mirrors are due, Never if asked     *)
          channel,         (* answers not yet received                     *)
          forgejo,         (* the thread of Forgejo: "run" or "over"       *)
          outcome,         (* NoResult, Failure or a version               *)
          race,            (* the race of the mirrors: "off","run","over"  *)
          raceEnd,         (* its deadline                                 *)
          offers,          (* versions of the mirrors that answered well   *)
          refused,         (* mirrors that answered with an error          *)
          good             (* ghost: sources that sent a release in time   *)

rlVars == <<tick, awaited, failed, mirrorsAt, channel, forgejo, outcome,
            race, raceEnd, offers, refused, good>>

Sources == {"forgejo", "mirrors"}
Never == HeadStart + 1    (* no time the mirrors are due at *)
NoResult == -1
Failure == 0

(* Type correctness. *)
RlTypeOK ==
    /\ tick \in 0..LastTick
    /\ DOMAIN awaited \subseteq Sources /\ \A s \in DOMAIN awaited : awaited[s] \in Nat
    /\ failed \subseteq Sources /\ good \subseteq Sources
    /\ mirrorsAt \in Nat /\ raceEnd \in Nat
    /\ channel \in Seq(Sources \X (Versions \cup {Failure}))
    /\ forgejo \in {"run", "over"} /\ race \in {"off", "run", "over"}
    /\ DOMAIN offers \subseteq 1..Mirrors /\ \A m \in DOMAIN offers : offers[m] \in Versions
    /\ refused \subseteq 1..Mirrors
    /\ outcome \in Versions \cup {NoResult, Failure}

RlInit ==
    /\ tick = 0
    /\ awaited = [s \in {"forgejo"} |-> ForgejoTime]
    /\ failed = {} /\ good = {}
    /\ mirrorsAt = HeadStart
    /\ channel = <<>>
    /\ forgejo = "run"
    /\ outcome = NoResult
    /\ race = "off" /\ raceEnd = 0
    /\ offers = << >> /\ refused = {}

lookupVars == <<awaited, failed, mirrorsAt, outcome>>
raceVars == <<race, raceEnd, offers, refused>>

Drop(f, S) == [x \in DOMAIN f \ S |-> f[x]]
Put(f, x, v) == [y \in DOMAIN f \cup {x} |-> IF y = x THEN v ELSE f[y]]

-----------------------------------------------------------------------------
(* The loop of lookup_latest_release.                                      *)

Late == {s \in DOMAIN awaited : tick >= awaited[s]}

(* Mutant of Expire: a source that is late is not waited for any longer,   *)
(* its error is not noted.                                                 *)
ExpireSilently ==
    /\ outcome = NoResult /\ Late # {}
    /\ awaited' = Drop(awaited, Late)
    /\ UNCHANGED <<tick, failed, mirrorsAt, outcome, channel, forgejo, raceVars, good>>

(* Mutant of Expire: late sources are waited for on. *)
NeverExpire ==
    /\ FALSE
    /\ UNCHANGED rlVars

Expire ==
    /\ outcome = NoResult /\ Late # {}
    /\ awaited' = Drop(awaited, Late)
    /\ failed' = failed \cup Late
    /\ UNCHANGED <<tick, mirrorsAt, outcome, channel, forgejo, raceVars, good>>

MirrorsDue == mirrorsAt # Never /\ ("forgejo" \in failed \/ tick >= mirrorsAt)

AskMirrors ==
    /\ outcome = NoResult /\ Late = {} /\ MirrorsDue
    /\ mirrorsAt' = Never
    /\ awaited' = Put(awaited, "mirrors", tick + MirrorsTime)
    /\ race' = "run" /\ raceEnd' = tick + RaceTime
    /\ UNCHANGED <<tick, failed, outcome, channel, forgejo, offers, refused, good>>

Ready == outcome = NoResult /\ Late = {} /\ ~MirrorsDue

GiveUp ==
    /\ Ready /\ DOMAIN awaited = {}
    /\ outcome' = Failure
    /\ UNCHANGED <<tick, awaited, failed, mirrorsAt, channel, forgejo, raceVars, good>>

(* An answer that comes after its deadline is thrown away. *)
Receive ==
    /\ Ready /\ DOMAIN awaited # {} /\ channel # <<>>
    /\ channel' = Tail(channel)
    /\ LET source == Head(channel)[1]
           answer == Head(channel)[2]
       IN  \/ source \notin DOMAIN awaited /\ UNCHANGED <<awaited, failed, outcome>>
           \/ /\ source \in DOMAIN awaited
              /\ awaited' = Drop(awaited, {source})
              /\ IF answer = Failure
                 THEN failed' = failed \cup {source} /\ UNCHANGED outcome
                 ELSE outcome' = answer /\ UNCHANGED failed
    /\ UNCHANGED <<tick, mirrorsAt, forgejo, raceVars, good>>

-----------------------------------------------------------------------------
(* The threads.                                                            *)

Send(source, answer) ==
    /\ channel' = Append(channel, <<source, answer>>)
    /\ good' = IF answer # Failure /\ source \in DOMAIN awaited /\ tick < awaited[source]
               THEN good \cup {source} ELSE good

(* Forgejo answers, well or with an error; or never. *)
ForgejoAnswers ==
    /\ forgejo = "run"
    /\ forgejo' = "over"
    /\ \E answer \in Versions \cup {Failure} : Send("forgejo", answer)
    /\ UNCHANGED <<tick, lookupVars, raceVars>>

Answered == DOMAIN offers \cup refused

MirrorAnswers(m) ==
    /\ race = "run" /\ tick < raceEnd /\ m \notin Answered
    /\ \/ /\ \E v \in Versions : offers' = Put(offers, m, v)
          /\ raceEnd' = IF DOMAIN offers = {} THEN Min({raceEnd, tick + Settle}) ELSE raceEnd
          /\ UNCHANGED refused
       \/ refused' = refused \cup {m} /\ UNCHANGED <<raceEnd, offers>>
    /\ UNCHANGED <<tick, lookupVars, channel, forgejo, race, good>>

(* The newest version; among equals the earlier mirror of the list. *)
Winner == Min({m \in DOMAIN offers : \A n \in DOMAIN offers : offers[n] <= offers[m]})

RaceOver ==
    /\ race = "run"
    /\ Answered = 1..Mirrors \/ tick >= raceEnd
    /\ race' = "over"
    /\ Send("mirrors", IF DOMAIN offers = {} THEN Failure ELSE offers[Winner])
    /\ UNCHANGED <<tick, lookupVars, forgejo, raceEnd, offers, refused>>

(* Every loop that can go on has gone on before the clock does. *)
RlTick ==
    /\ outcome = NoResult => Ready /\ DOMAIN awaited # {} /\ channel = <<>>
    /\ ~(race = "run" /\ (Answered = 1..Mirrors \/ tick >= raceEnd))
    /\ tick < LastTick
    /\ tick' = tick + 1
    /\ UNCHANGED <<lookupVars, channel, forgejo, raceVars, good>>

RlLoop == Expire \/ AskMirrors \/ GiveUp \/ Receive \/ RaceOver

RlNext ==
    \/ Expire \/ AskMirrors \/ GiveUp \/ Receive \/ RaceOver
    \/ ForgejoAnswers
    \/ \E m \in 1..Mirrors : MirrorAnswers(m)
    \/ RlTick

(* The loops run and time passes; no answer is owed. *)
RlFairness == WF_rlVars(RlLoop) /\ WF_rlVars(RlTick)

RlSpec == RlInit /\ [][RlNext]_rlVars /\ RlFairness

-----------------------------------------------------------------------------
(* Properties                                                              *)

(* Silence never becomes "no updates", and a release that was sent in time *)
(* is never lost: the search fails only when both sources were asked, both *)
(* are in its error, and neither sent a release before its deadline.       *)
FailsOnlyWhenAllFailed ==
    outcome = Failure => failed = Sources /\ good = {} /\ mirrorsAt = Never

(* Whoever blocks or panics, the search ends, no later than its deadlines. *)
SearchEnds == <>[](outcome # NoResult)
===============================================================================
