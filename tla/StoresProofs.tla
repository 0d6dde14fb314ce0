---------------------------- MODULE StoresProofs ----------------------------
(* Theorems about what the app looks up and lists: the search for a        *)
(* release, and the presets.                                               *)
EXTENDS ReleaseLookup, Presets, SequenceLemmas, SequenceTheorems, TLAPS

-----------------------------------------------------------------------------
(* The search for a release, for any number of mirrors, any versions and   *)
(* deadlines. The strengthening: who was asked is waited for or has        *)
(* failed; each source sends one answer; and one sent in time is received  *)
(* before the clock goes on.                                               *)

(* The invariant of the search.                                            *)

Sent(s) == \E i \in DOMAIN channel : channel[i][1] = s
SentRelease(s) == \E i \in DOMAIN channel : channel[i][1] = s /\ channel[i][2] # Failure

(* While the search goes on, who was asked is waited for or has failed.    *)
AskedOrFailed ==
    /\ race = "off" <=> mirrorsAt # Never
    /\ mirrorsAt # Never => "mirrors" \notin DOMAIN awaited \union failed
    /\ outcome = NoResult =>
          /\ "forgejo" \in DOMAIN awaited \union failed
          /\ mirrorsAt = Never => "mirrors" \in DOMAIN awaited \union failed

(* A source sends one answer. *)
OneAnswer ==
    /\ \A i, j \in DOMAIN channel : channel[i][1] = channel[j][1] => i = j
    /\ forgejo = "run" => ~Sent("forgejo")
    /\ race # "over" => ~Sent("mirrors")

(* A release that was sent in time waits in the channel, and its source is *)
(* waited for: no time passes before it is received.                       *)
GoodIsWaiting ==
    outcome = NoResult => \A s \in good :
        s \in DOMAIN awaited /\ tick < awaited[s] /\ SentRelease(s)

FailedForGood ==
    outcome = Failure => failed = Sources /\ good = {} /\ mirrorsAt = Never
                         /\ DOMAIN awaited = {}

RlInv ==
    /\ RlTypeOK
    /\ AskedOrFailed
    /\ OneAnswer
    /\ GoodIsWaiting
    /\ FailedForGood

-----------------------------------------------------------------------------
(* What the steps need of the operators.                                   *)

LEMMA Dropped ==
  ASSUME NEW f, NEW S
  PROVE  /\ DOMAIN Drop(f, S) = DOMAIN f \ S
         /\ \A y \in DOMAIN f \ S : Drop(f, S)[y] = f[y]
BY DEF Drop

(* The race has a winner whenever a mirror answered well.                  *)
LEMMA SomeoneWins ==
  ASSUME RlTypeOK, DOMAIN offers # {}
  PROVE  Winner \in DOMAIN offers
<1> DEFINE B == {m \in DOMAIN offers : \A n \in DOMAIN offers : offers[n] <= offers[m]}
<1>1. Mirrors \in Nat /\ DOMAIN offers \in SUBSET (1..Mirrors)
      /\ \A m \in DOMAIN offers : offers[m] \in Nat
  BY RlAssumption DEF RlTypeOK
<1>2. \E m \in DOMAIN offers : \A n \in DOMAIN offers : offers[n] <= offers[m]
  <2> DEFINE D == DOMAIN offers
  <2>1. D \in SUBSET (1..Mirrors) /\ D # {} /\ \A m \in D : offers[m] \in Nat
    BY <1>1
  <2> HIDE DEF D
  <2>2. \E m \in D : \A n \in D : offers[n] <= offers[m]
    BY <1>1, <2>1, GreatestOf
  <2> QED BY <2>2 DEF D
<1>3. B # {} /\ B \in SUBSET Nat
  BY <1>1, <1>2
<1>4. Min(B) \in B
  <2> HIDE DEF B
  <2> QED BY <1>3, LeastIs
<1> QED BY <1>4 DEF Winner

(* What sending an answer does to the channel and to the ghost.            *)
LEMMA SendAddsOne ==
  ASSUME RlTypeOK, NEW source \in Sources, NEW answer \in Versions \union {Failure},
         Send(source, answer)
  PROVE  /\ channel' \in Seq(Sources \X (Versions \union {Failure}))
         /\ Len(channel') = Len(channel) + 1
         /\ DOMAIN channel = 1..Len(channel) /\ DOMAIN channel' = 1..Len(channel) + 1
         /\ \A i \in DOMAIN channel : i \in DOMAIN channel' /\ channel'[i] = channel[i]
         /\ channel'[Len(channel) + 1] = <<source, answer>>
         /\ Len(channel) \in Nat
         /\ good \subseteq good' /\ good' \subseteq good \union {source}
         /\ source \in good' \ good =>
               answer # Failure /\ source \in DOMAIN awaited /\ tick < awaited[source]
<1>1. channel \in Seq(Sources \X (Versions \union {Failure}))
      /\ <<source, answer>> \in Sources \X (Versions \union {Failure})
  BY DEF RlTypeOK
<1>2. channel' = Append(channel, <<source, answer>>)
  BY DEF Send
<1>3. good' = IF answer # Failure /\ source \in DOMAIN awaited /\ tick < awaited[source]
              THEN good \union {source} ELSE good
  BY DEF Send
<1> QED BY <1>1, <1>2, <1>3

-----------------------------------------------------------------------------
(* Each step keeps the invariant.                                          *)

LEMMA InitRl == RlInit => RlInv
<1> SUFFICES ASSUME RlInit PROVE RlInv
  OBVIOUS
<1>1. /\ {HeadStart, ForgejoTime, LastTick} \subseteq Nat
      /\ DOMAIN awaited = {"forgejo"} /\ awaited["forgejo"] = ForgejoTime
      /\ channel = <<>> /\ DOMAIN channel = {} /\ DOMAIN offers = {}
  BY RlAssumption DEF RlInit
<1>2. RlTypeOK
  <2>1. channel \in Seq(Sources \X (Versions \union {Failure}))
    BY <1>1
  <2>2. 0 \in 0..LastTick
    BY <1>1
  <2> QED BY <1>1, <2>1, <2>2 DEF RlInit, RlTypeOK, Sources
<1>3. mirrorsAt # Never
  BY <1>1 DEF RlInit, Never
<1>4. outcome # Failure
  BY DEF RlInit, NoResult, Failure
<1> QED BY <1>1, <1>2, <1>3, <1>4
        DEF RlInv, RlInit, AskedOrFailed, OneAnswer, Sent, GoodIsWaiting, FailedForGood

LEMMA ExpireKeeps == RlInv /\ Expire => RlInv'
<1> SUFFICES ASSUME RlInv, Expire PROVE RlInv'
  OBVIOUS
<1>1. /\ awaited' = Drop(awaited, Late) /\ failed' = failed \union Late
      /\ outcome = NoResult /\ outcome' = outcome
      /\ UNCHANGED <<tick, mirrorsAt, channel, forgejo, race, raceEnd, offers, refused, good>>
  BY DEF Expire, raceVars
<1>2. /\ DOMAIN awaited' = DOMAIN awaited \ Late
      /\ \A y \in DOMAIN awaited \ Late : awaited'[y] = awaited[y]
  BY <1>1, Dropped
<1>3. Late \subseteq DOMAIN awaited /\ \A s \in Late : tick >= awaited[s]
  BY DEF Late
<1>4. RlTypeOK'
  BY <1>1, <1>2, <1>3 DEF RlInv, RlTypeOK
<1>5. AskedOrFailed'
  BY <1>1, <1>2, <1>3 DEF RlInv, AskedOrFailed
<1>6. OneAnswer'
  BY <1>1 DEF RlInv, OneAnswer, Sent
<1>7. GoodIsWaiting'
  <2> SUFFICES ASSUME NEW s \in good
      PROVE  s \in DOMAIN awaited' /\ tick < awaited'[s] /\ SentRelease(s)
    BY <1>1 DEF GoodIsWaiting, SentRelease
  <2>1. s \in DOMAIN awaited /\ tick < awaited[s] /\ SentRelease(s)
    BY <1>1 DEF RlInv, GoodIsWaiting
  <2>2. tick \in Int /\ awaited[s] \in Int
    BY <2>1 DEF RlInv, RlTypeOK
  <2>3. s \notin Late
    BY <1>3, <2>1, <2>2
  <2> QED BY <1>2, <2>1, <2>3
<1>8. FailedForGood'
  BY <1>1 DEF FailedForGood, NoResult, Failure
<1> QED BY <1>4, <1>5, <1>6, <1>7, <1>8 DEF RlInv

LEMMA AskMirrorsKeeps == RlInv /\ AskMirrors => RlInv'
<1> SUFFICES ASSUME RlInv, AskMirrors PROVE RlInv'
  OBVIOUS
<1>1. /\ awaited' = Put(awaited, "mirrors", tick + MirrorsTime)
      /\ mirrorsAt # Never /\ mirrorsAt' = Never
      /\ outcome = NoResult /\ outcome' = outcome
      /\ race' = "run" /\ raceEnd' = tick + RaceTime
      /\ UNCHANGED <<tick, failed, channel, forgejo, offers, refused, good>>
  BY DEF AskMirrors, MirrorsDue
<1>2. /\ DOMAIN awaited' = DOMAIN awaited \union {"mirrors"}
      /\ awaited'["mirrors"] = tick + MirrorsTime
      /\ \A y \in DOMAIN awaited : y # "mirrors" => awaited'[y] = awaited[y]
  BY <1>1 DEF Put
<1>3. tick + MirrorsTime \in Nat /\ tick + RaceTime \in Nat /\ Never \in Nat
  BY RlAssumption DEF RlInv, RlTypeOK, Never
<1>4. RlTypeOK'
  BY <1>1, <1>2, <1>3 DEF RlInv, RlTypeOK, Sources
<1>5. race = "off" /\ "mirrors" \notin DOMAIN awaited
  BY <1>1 DEF RlInv, AskedOrFailed
<1>6. AskedOrFailed'
  BY <1>1, <1>2 DEF RlInv, AskedOrFailed
<1>7. OneAnswer'
  BY <1>1, <1>5 DEF RlInv, OneAnswer, Sent
<1>8. GoodIsWaiting'
  BY <1>1, <1>2, <1>5 DEF RlInv, GoodIsWaiting, SentRelease
<1>9. FailedForGood'
  BY <1>1 DEF FailedForGood, NoResult, Failure
<1> QED BY <1>4, <1>6, <1>7, <1>8, <1>9 DEF RlInv

LEMMA GiveUpKeeps == RlInv /\ GiveUp => RlInv'
<1> SUFFICES ASSUME RlInv, GiveUp PROVE RlInv'
  OBVIOUS
<1>1. /\ outcome = NoResult /\ DOMAIN awaited = {} /\ ~MirrorsDue
      /\ outcome' = Failure
      /\ UNCHANGED <<tick, awaited, failed, mirrorsAt, channel, forgejo,
                     race, raceEnd, offers, refused, good>>
  BY DEF GiveUp, Ready, raceVars
<1>2. "forgejo" \in failed
  BY <1>1 DEF RlInv, AskedOrFailed
<1>3. mirrorsAt = Never
  BY <1>1, <1>2 DEF MirrorsDue
<1>4. "mirrors" \in failed
  BY <1>1, <1>3 DEF RlInv, AskedOrFailed
<1>5. good = {}
  BY <1>1 DEF RlInv, GoodIsWaiting
<1>6. failed = Sources
  BY <1>2, <1>4 DEF RlInv, RlTypeOK, Sources
<1>7. outcome' # NoResult
  BY <1>1 DEF NoResult, Failure
<1>8. RlTypeOK'
  BY <1>1 DEF RlInv, RlTypeOK
<1> QED BY <1>1, <1>3, <1>5, <1>6, <1>7, <1>8
        DEF RlInv, AskedOrFailed, OneAnswer, Sent, GoodIsWaiting, FailedForGood

LEMMA TickKeepsRl == RlInv /\ RlTick => RlInv'
<1> SUFFICES ASSUME RlInv, RlTick PROVE RlInv'
  OBVIOUS
<1>1. /\ outcome = NoResult => channel = <<>>
      /\ tick < LastTick /\ tick' = tick + 1
      /\ UNCHANGED <<awaited, failed, mirrorsAt, outcome, channel, forgejo,
                     race, raceEnd, offers, refused, good>>
  BY DEF RlTick, raceVars, lookupVars
<1>2. RlTypeOK'
  <2>1. LastTick \in Nat
    BY RlAssumption
  <2>2. tick' \in 0..LastTick
    BY <1>1, <2>1 DEF RlInv, RlTypeOK
  <2> QED BY <1>1, <2>2 DEF RlInv, RlTypeOK
<1>3. outcome = NoResult => good = {}
  BY <1>1 DEF RlInv, GoodIsWaiting, SentRelease
<1> QED BY <1>1, <1>2, <1>3
        DEF RlInv, AskedOrFailed, OneAnswer, Sent, GoodIsWaiting, FailedForGood

LEMMA ReceiveKeeps == RlInv /\ Receive => RlInv'
<1> SUFFICES ASSUME RlInv, Receive PROVE RlInv'
  OBVIOUS
<1> DEFINE source == Head(channel)[1]
           answer == Head(channel)[2]
<1>1. /\ outcome = NoResult /\ channel # <<>> /\ channel' = Tail(channel)
      /\ UNCHANGED <<tick, mirrorsAt, forgejo, race, raceEnd, offers, refused, good>>
  BY DEF Receive, Ready, raceVars
<1>2. \/ source \notin DOMAIN awaited /\ UNCHANGED <<awaited, failed, outcome>>
      \/ /\ source \in DOMAIN awaited /\ awaited' = Drop(awaited, {source})
         /\ answer = Failure /\ failed' = failed \union {source} /\ outcome' = outcome
      \/ /\ source \in DOMAIN awaited /\ awaited' = Drop(awaited, {source})
         /\ answer # Failure /\ outcome' = answer /\ failed' = failed
  BY DEF Receive
<1>3. channel \in Seq(Sources \X (Versions \union {Failure}))
  BY DEF RlInv, RlTypeOK
<1>4. /\ source \in Sources /\ answer \in Versions \union {Failure}
      /\ channel' \in Seq(Sources \X (Versions \union {Failure}))
      /\ 1 \in DOMAIN channel /\ channel[1][1] = source /\ channel[1][2] = answer
  BY <1>1, <1>3
<1>5. /\ DOMAIN channel = 1..Len(channel) /\ DOMAIN channel' = 1..Len(channel) - 1
      /\ \A i \in DOMAIN channel' : i + 1 \in DOMAIN channel /\ channel'[i] = channel[i + 1]
      /\ \A i \in DOMAIN channel : i # 1 => i - 1 \in DOMAIN channel' /\ channel'[i - 1] = channel[i]
      /\ Len(channel) \in Nat
  BY <1>1, <1>3
<1>6. source \in DOMAIN awaited =>
          /\ DOMAIN awaited' = DOMAIN awaited \ {source}
          /\ \A y \in DOMAIN awaited \ {source} : awaited'[y] = awaited[y]
  BY <1>2 DEF Drop
<1> HIDE DEF source, answer
<1>7. RlTypeOK'
  BY <1>1, <1>2, <1>4, <1>6 DEF RlInv, RlTypeOK
<1>8. AskedOrFailed'
  <2>1. source = "mirrors" /\ source \in DOMAIN awaited => mirrorsAt = Never
    BY DEF RlInv, AskedOrFailed
  <2>2. outcome' = NoResult => outcome' = outcome
    BY <1>1
  <2>3. DOMAIN awaited' \union failed' \subseteq DOMAIN awaited \union failed
    BY <1>2, <1>6
  <2>4. outcome' = NoResult => DOMAIN awaited \union failed \subseteq DOMAIN awaited' \union failed'
    <3>1. NoResult \notin Versions \union {Failure} \/ answer # NoResult
      BY RlAssumption DEF NoResult, Failure
    <3> QED BY <1>2, <1>4, <1>6, <3>1
  <2> QED BY <1>1, <2>1, <2>2, <2>3, <2>4 DEF RlInv, AskedOrFailed
<1>9. OneAnswer'
  <2>1. ASSUME NEW i \in DOMAIN channel', NEW j \in DOMAIN channel',
               channel'[i][1] = channel'[j][1]
        PROVE  i = j
    <3>1. i + 1 = j + 1
      BY <1>5, <2>1 DEF RlInv, OneAnswer
    <3> QED BY <1>5, <3>1
  <2>2. \A s : Sent(s)' => Sent(s)
    BY <1>5 DEF Sent
  <2> QED BY <1>1, <2>1, <2>2 DEF RlInv, OneAnswer
<1>10. GoodIsWaiting'
  <2> SUFFICES ASSUME outcome' = NoResult, NEW s \in good
      PROVE  s \in DOMAIN awaited' /\ tick < awaited'[s] /\ SentRelease(s)'
    BY <1>1 DEF GoodIsWaiting
  <2>1. s \in DOMAIN awaited /\ tick < awaited[s]
    BY <1>1 DEF RlInv, GoodIsWaiting
  <2>2. PICK i \in DOMAIN channel : channel[i][1] = s /\ channel[i][2] # Failure
    BY <1>1 DEF RlInv, GoodIsWaiting, SentRelease
  <2>3. s # source
    <3>1. s = source => i = 1
      BY <1>4, <2>2 DEF RlInv, OneAnswer
    <3>2. s = source => answer # Failure /\ outcome' = answer
      BY <1>2, <1>4, <2>1, <2>2, <3>1
    <3>3. answer # Failure => answer # NoResult
      BY <1>4, RlAssumption DEF NoResult, Failure
    <3> QED BY <3>2, <3>3
  <2>4. i # 1
    BY <1>4, <2>2, <2>3
  <2>5. SentRelease(s)'
    BY <1>5, <2>2, <2>4 DEF SentRelease
  <2> QED BY <1>1, <1>2, <1>6, <2>1, <2>3, <2>5
<1>11. FailedForGood'
  <2>1. outcome' # Failure
    BY <1>1, <1>2 DEF NoResult, Failure
  <2> QED BY <2>1 DEF FailedForGood
<1> QED BY <1>7, <1>8, <1>9, <1>10, <1>11 DEF RlInv

(* A thread that sends its answer keeps what is said of the channel, if it *)
(* has sent none before.                                                   *)
LEMMA SendKeeps ==
  ASSUME RlInv, NEW source \in Sources, NEW answer \in Versions \union {Failure},
         Send(source, answer), ~Sent(source),
         UNCHANGED <<tick, awaited, failed, mirrorsAt, outcome>>
  PROVE  /\ channel' \in Seq(Sources \X (Versions \union {Failure}))
         /\ good' \subseteq Sources
         /\ \A i, j \in DOMAIN channel' : channel'[i][1] = channel'[j][1] => i = j
         /\ \A s : Sent(s)' => Sent(s) \/ s = source
         /\ GoodIsWaiting' /\ FailedForGood'
<1>1. RlTypeOK
  BY DEF RlInv
<1>2. /\ channel' \in Seq(Sources \X (Versions \union {Failure}))
      /\ DOMAIN channel = 1..Len(channel) /\ DOMAIN channel' = 1..Len(channel) + 1
      /\ \A i \in DOMAIN channel : i \in DOMAIN channel' /\ channel'[i] = channel[i]
      /\ channel'[Len(channel) + 1] = <<source, answer>>
      /\ Len(channel) \in Nat
      /\ good \subseteq good' /\ good' \subseteq good \union {source}
      /\ source \in good' \ good =>
            answer # Failure /\ source \in DOMAIN awaited /\ tick < awaited[source]
  BY <1>1, SendAddsOne
<1>3. \A i \in DOMAIN channel' : i \in DOMAIN channel \/ i = Len(channel) + 1
  BY <1>2
<1>4. \A i \in DOMAIN channel : channel'[i][1] # source
  BY <1>2 DEF Sent
<1>5. Len(channel) + 1 \in DOMAIN channel' /\ channel'[Len(channel) + 1][1] = source
      /\ channel'[Len(channel) + 1][2] = answer
  BY <1>2
<1>6. \A i, j \in DOMAIN channel' : channel'[i][1] = channel'[j][1] => i = j
  <2>1. \A i, j \in DOMAIN channel : channel'[i][1] = channel'[j][1] => i = j
    BY <1>2 DEF RlInv, OneAnswer
  <2> QED BY <1>3, <1>4, <1>5, <2>1
<1>7. \A s : Sent(s)' => Sent(s) \/ s = source
  BY <1>2, <1>3, <1>5 DEF Sent
<1>8. GoodIsWaiting'
  <2> SUFFICES ASSUME outcome = NoResult, NEW s \in good'
      PROVE  s \in DOMAIN awaited /\ tick < awaited[s] /\ SentRelease(s)'
    BY DEF GoodIsWaiting
  <2>1. CASE s \in good
    <3>1. s \in DOMAIN awaited /\ tick < awaited[s] /\ SentRelease(s)
      BY <2>1 DEF RlInv, GoodIsWaiting
    <3>2. SentRelease(s)'
      BY <1>2, <3>1 DEF SentRelease
    <3> QED BY <3>1, <3>2
  <2>2. CASE s \notin good
    <3>1. s = source /\ answer # Failure /\ source \in DOMAIN awaited /\ tick < awaited[source]
      BY <1>2, <2>2
    <3>2. SentRelease(s)'
      BY <1>5, <3>1 DEF SentRelease
    <3> QED BY <3>1, <3>2
  <2> QED BY <2>1, <2>2
<1>9. FailedForGood'
  BY <1>2 DEF RlInv, FailedForGood
<1>10. good' \subseteq Sources
  BY <1>1, <1>2 DEF RlTypeOK
<1> QED BY <1>2, <1>6, <1>7, <1>8, <1>9, <1>10

LEMMA ForgejoAnswersKeeps == RlInv /\ ForgejoAnswers => RlInv'
<1> SUFFICES ASSUME RlInv, ForgejoAnswers PROVE RlInv'
  OBVIOUS
<1>1. /\ forgejo = "run" /\ forgejo' = "over"
      /\ UNCHANGED <<tick, awaited, failed, mirrorsAt, outcome, race, raceEnd, offers, refused>>
  BY DEF ForgejoAnswers, lookupVars, raceVars
<1>2. PICK answer \in Versions \union {Failure} : Send("forgejo", answer)
  BY DEF ForgejoAnswers
<1>3. "forgejo" \in Sources /\ ~Sent("forgejo")
  BY <1>1 DEF RlInv, OneAnswer, Sources
<1>4. /\ channel' \in Seq(Sources \X (Versions \union {Failure}))
      /\ good' \subseteq Sources
      /\ \A i, j \in DOMAIN channel' : channel'[i][1] = channel'[j][1] => i = j
      /\ \A s : Sent(s)' => Sent(s) \/ s = "forgejo"
      /\ GoodIsWaiting' /\ FailedForGood'
  BY <1>1, <1>2, <1>3, SendKeeps
<1>5. RlTypeOK'
  BY <1>1, <1>4 DEF RlInv, RlTypeOK
<1>6. AskedOrFailed'
  BY <1>1 DEF RlInv, AskedOrFailed
<1>7. OneAnswer'
  BY <1>1, <1>4 DEF RlInv, OneAnswer
<1> QED BY <1>4, <1>5, <1>6, <1>7 DEF RlInv

LEMMA RaceOverKeeps == RlInv /\ RaceOver => RlInv'
<1> SUFFICES ASSUME RlInv, RaceOver PROVE RlInv'
  OBVIOUS
<1>1. /\ race = "run" /\ race' = "over"
      /\ UNCHANGED <<tick, awaited, failed, mirrorsAt, outcome, forgejo, raceEnd, offers, refused>>
  BY DEF RaceOver, lookupVars
<1>2. PICK answer \in Versions \union {Failure} : Send("mirrors", answer)
  <2>1. DOMAIN offers # {} => offers[Winner] \in Versions
    BY SomeoneWins DEF RlInv, RlTypeOK
  <2> QED BY <2>1 DEF RaceOver
<1>3. "mirrors" \in Sources /\ ~Sent("mirrors")
  BY <1>1 DEF RlInv, OneAnswer, Sources
<1>4. /\ channel' \in Seq(Sources \X (Versions \union {Failure}))
      /\ good' \subseteq Sources
      /\ \A i, j \in DOMAIN channel' : channel'[i][1] = channel'[j][1] => i = j
      /\ \A s : Sent(s)' => Sent(s) \/ s = "mirrors"
      /\ GoodIsWaiting' /\ FailedForGood'
  BY <1>1, <1>2, <1>3, SendKeeps
<1>5. RlTypeOK'
  BY <1>1, <1>4 DEF RlInv, RlTypeOK
<1>6. AskedOrFailed'
  BY <1>1 DEF RlInv, AskedOrFailed
<1>7. OneAnswer'
  BY <1>1, <1>4 DEF RlInv, OneAnswer
<1> QED BY <1>4, <1>5, <1>6, <1>7 DEF RlInv

LEMMA MirrorAnswersKeeps == RlInv /\ (\E m \in 1..Mirrors : MirrorAnswers(m)) => RlInv'
<1> SUFFICES ASSUME RlInv, NEW m \in 1..Mirrors, MirrorAnswers(m) PROVE RlInv'
  OBVIOUS
<1>1. UNCHANGED <<tick, awaited, failed, mirrorsAt, outcome, channel, forgejo, race, good>>
  BY DEF MirrorAnswers, lookupVars
<1>2. /\ DOMAIN offers' \subseteq 1..Mirrors
      /\ \A n \in DOMAIN offers' : offers'[n] \in Versions
      /\ raceEnd' \in Nat /\ refused' \subseteq 1..Mirrors
  <2>1. CASE refused' = refused \union {m} /\ UNCHANGED <<raceEnd, offers>>
    BY <2>1 DEF RlInv, RlTypeOK
  <2>2. CASE /\ \E v \in Versions : offers' = Put(offers, m, v)
             /\ raceEnd' = IF DOMAIN offers = {} THEN Min({raceEnd, tick + Settle}) ELSE raceEnd
             /\ UNCHANGED refused
    <3>1. PICK v \in Versions : offers' = Put(offers, m, v)
      BY <2>2
    <3>2. /\ DOMAIN offers' = DOMAIN offers \union {m} /\ offers'[m] = v
          /\ \A y \in DOMAIN offers : y # m => offers'[y] = offers[y]
      BY <3>1 DEF Put
    <3>3. {raceEnd, tick + Settle} \in SUBSET Nat
      BY RlAssumption DEF RlInv, RlTypeOK
    <3>4. Min({raceEnd, tick + Settle}) \in Nat
      <4> DEFINE S == {raceEnd, tick + Settle}
      <4>1. S \in SUBSET Nat /\ S # {}
        BY <3>3
      <4> HIDE DEF S
      <4>2. Min(S) \in Nat
        BY <4>1, LeastIs
      <4> QED BY <4>2 DEF S
    <3> QED BY <2>2, <3>2, <3>4 DEF RlInv, RlTypeOK
  <2> QED BY <2>1, <2>2 DEF MirrorAnswers
<1>3. RlTypeOK'
  BY <1>1, <1>2 DEF RlInv, RlTypeOK
<1> QED BY <1>1, <1>3 DEF RlInv, AskedOrFailed, OneAnswer, Sent, GoodIsWaiting, SentRelease,
                          FailedForGood

LEMMA StepRl == RlInv /\ [RlNext]_rlVars => RlInv'
<1> SUFFICES ASSUME RlInv, [RlNext]_rlVars PROVE RlInv'
  OBVIOUS
<1>1. CASE RlNext
  BY <1>1, ExpireKeeps, AskMirrorsKeeps, GiveUpKeeps, ReceiveKeeps, RaceOverKeeps,
     ForgejoAnswersKeeps, MirrorAnswersKeeps, TickKeepsRl DEF RlNext
<1>2. CASE UNCHANGED rlVars
  BY <1>2 DEF rlVars, RlInv, RlTypeOK, AskedOrFailed, OneAnswer, Sent, GoodIsWaiting,
              SentRelease, FailedForGood
<1> QED BY <1>1, <1>2

LEMMA RlInvAlways == RlSpec => []RlInv
<1>1. RlInit => RlInv
  BY InitRl
<1>2. RlInv /\ [RlNext]_rlVars => RlInv'
  BY StepRl
<1> QED BY <1>1, <1>2, PTL DEF RlSpec

(* The variables of the search have their types, whatever the number of    *)
(* mirrors, the deadlines and the order of the answers.                    *)
THEOREM RlTypeCorrect == RlSpec => []RlTypeOK
<1>1. RlInv => RlTypeOK
  BY DEF RlInv
<1> QED BY <1>1, RlInvAlways, PTL

(* lookup_latest_release says that it found nothing only when both sources *)
(* were asked, both have failed, and none had sent a release before its    *)
(* deadline.                                                               *)
THEOREM SearchFailsRightly == RlSpec => []FailsOnlyWhenAllFailed
<1>1. RlInv => FailsOnlyWhenAllFailed
  BY DEF RlInv, FailedForGood, FailsOnlyWhenAllFailed
<1> QED BY <1>1, RlInvAlways, PTL

-----------------------------------------------------------------------------
(* The lists of presets, for any names, titles and threads and any number  *)
(* of changes. The strengthening says what each thread knows at each step  *)
(* of its call: how old the stamp is that it will store its list under,    *)
(* and which entries of the list it builds are those of the folder.        *)

Scanning(t) == storePc[t] \in {"look", "names", "headers", "insert"}
Loading(t) == Scanning(t) \/ storePc[t] = "loaded"
Present == {n \in Names : user[n] # Absent}

(* A list is the folder, but for files held in period "since" or later. *)
FreshEntry(e, n, since) ==
    \/ e = Contents[n]
    \/ lastHeld[n] >= since /\ e = [Contents[n] EXCEPT !.title = Stem]
FreshList(list, since) == \A n \in Names : FreshEntry(list[n], n, since)

(* What the cache holds is fresh; a degraded list is of its period or the  *)
(* one before.                                                             *)
CacheIsFresh ==
    LET kept == manifestCache[1]
    IN  \A n \in Names :
          \/ kept.list[n] = Contents[n]
          \/ kept.period # NotDegraded /\ FreshEntry(kept.list[n], n, kept.period - 1)

(* How far a load has come in a folder that kept still. *)
LoadIsFresh(t) ==
    /\ storePc[t] = "headers" => namesSeen[t] = Present
    /\ storePc[t] = "insert" => FreshList(listed[t], begunIn[t])
    /\ storePc[t] = "loaded" => FreshList(listed[t], begunIn[t] - 1)

(* The key a load began with says whether the folder kept still since: one *)
(* key, one answer.                                                        *)
KeysTell ==
    \A t \in StoreThreads : Loading(t) =>
        /\ keyOf[t] = stamp => calm[t]
        /\ \A u \in StoreThreads : Loading(u) /\ keyOf[u] = keyOf[t] /\ calm[t] => calm[u]

CacheTells ==
    manifestCache # <<>> =>
        LET key == manifestCache[1].key
        IN  key = stamp \/ (\E t \in StoreThreads : Loading(t) /\ calm[t] /\ keyOf[t] = key)
                => CacheIsFresh

StoreTells ==
    ~sameStamp =>
        /\ \A t \in StoreThreads : calm[t] => LoadIsFresh(t)
        /\ KeysTell
        /\ CacheTells

KeysAreOld ==
    /\ \A t \in StoreThreads : keyOf[t] <= stamp
    /\ manifestCache # <<>> => manifestCache[1].key <= stamp

LoadsAreShort ==
    \A t \in StoreThreads :
        /\ begunIn[t] <= bucket
        /\ Scanning(t) => begunIn[t] >= bucket - 1

Writing ==
    \A t \in StoreThreads :
        storePc[t] \in {"temp", "replace"} => opOf[t].title \in Titles

HeldIsNow ==
    \A n \in Names : lastHeld[n] <= bucket /\ (n \in held => lastHeld[n] = bucket)

PsInv ==
    /\ PsTypeOK
    /\ Writing
    /\ HeldIsNow
    /\ LoadsAreShort
    /\ KeysAreOld
    /\ StoreTells

-----------------------------------------------------------------------------
(* Entries and the cache.                                                  *)

LEMMA ContentsEntry ==
  ASSUME NEW n \in Names
  PROVE  /\ user[n] = Absent => Contents[n] = BuiltinEntry(n)
         /\ user[n] # Absent =>
              /\ Contents[n] = [scope |-> "user", title |-> user[n]]
              /\ [Contents[n] EXCEPT !.title = Stem] = [scope |-> "user", title |-> Stem]
         /\ [Contents[n] EXCEPT !.title = Stem].title = Stem
<1> DEFINE hidden == [scope |-> "user", title |-> user[n]]
<1>1. Contents[n] = IF user[n] = Absent THEN BuiltinEntry(n) ELSE hidden
  BY DEF Contents
<1>2. BuiltinEntry(n) \in {Nothing, [scope |-> "builtin", title |-> Builtin[n]]}
  BY DEF BuiltinEntry
<1>3. [hidden EXCEPT !.title = Stem] = [scope |-> "user", title |-> Stem]
  OBVIOUS
<1>4. [BuiltinEntry(n) EXCEPT !.title = Stem].title = Stem
  BY <1>2 DEF Nothing
<1>5. [hidden EXCEPT !.title = Stem].title = Stem
  OBVIOUS
<1> HIDE DEF hidden
<1>6. CASE user[n] = Absent
  BY <1>1, <1>4, <1>6
<1>7. CASE user[n] # Absent
  <2>1. Contents[n] = hidden
    BY <1>1, <1>7
  <2> QED BY <1>3, <1>5, <1>7, <2>1 DEF hidden
<1> QED BY <1>6, <1>7

LEMMA BuiltinIsEntry ==
  ASSUME NEW n \in Names
  PROVE  BuiltinEntry(n) \in Entries
  BY DEF BuiltinEntry, Entries, Nothing

LEMMA OneEntry ==
  ASSUME PsTypeOK, manifestCache # <<>>
  PROVE  /\ DOMAIN manifestCache = {1} /\ manifestCache[1] \in CacheEntries
         /\ manifestCache[1].key \in 0..MaxStamp
         /\ manifestCache[1].list \in [Names -> Entries]
         /\ manifestCache[1].period \in NotDegraded..MaxBucket
<1>1. manifestCache \in Seq(CacheEntries) /\ Len(manifestCache) <= 1
  BY DEF PsTypeOK
<1>2. Len(manifestCache) \in Nat /\ Len(manifestCache) # 0
      /\ DOMAIN manifestCache = 1..Len(manifestCache)
  BY <1>1, EmptySeq, LenProperties
<1>3. DOMAIN manifestCache = {1} /\ 1 \in 1..Len(manifestCache)
  BY <1>1, <1>2
<1>4. manifestCache[1] \in CacheEntries
  BY <1>1, <1>3, ElementOfSeq
<1> QED BY <1>3, <1>4 DEF CacheEntries

LEMMA PsNumbers ==
  ASSUME PsTypeOK
  PROVE  /\ stamp \in Int /\ bucket \in Int /\ bucket >= 0
         /\ \A t \in StoreThreads : keyOf[t] \in Int /\ begunIn[t] \in Int
         /\ \A n \in Names : lastHeld[n] \in Int
  BY PsAssumption DEF PsTypeOK, NeverHeld

-----------------------------------------------------------------------------
(* The folder keeps still.                                                 *)

(* Holding files only makes more lists fresh. *)
LEMMA FreshStays ==
  ASSUME PsTypeOK, user' = user,
         \A n \in Names : lastHeld'[n] \in Int /\ lastHeld'[n] >= lastHeld[n],
         NEW e, NEW n \in Names, NEW since \in Int, FreshEntry(e, n, since)
  PROVE  FreshEntry(e, n, since)'
<1>1. Contents' = Contents
  BY DEF Contents
<1>2. lastHeld[n] \in Int /\ (lastHeld[n] >= since => lastHeld'[n] >= since)
  BY PsNumbers
<1> QED BY <1>1, <1>2 DEF FreshEntry

LEMMA LoadStays ==
  ASSUME PsTypeOK, user' = user, NEW t \in StoreThreads, LoadIsFresh(t),
         \A n \in Names : lastHeld'[n] \in Int /\ lastHeld'[n] >= lastHeld[n],
         storePc'[t] = storePc[t], namesSeen'[t] = namesSeen[t], listed'[t] = listed[t],
         begunIn'[t] = begunIn[t]
  PROVE  LoadIsFresh(t)'
<1>1. Present' = Present
  BY DEF Present
<1>2. begunIn[t] \in Int /\ begunIn[t] - 1 \in Int
  BY PsNumbers
<1>3. FreshList(listed[t], begunIn[t]) => FreshList(listed[t], begunIn[t])'
  BY <1>2, FreshStays DEF FreshList
<1>4. FreshList(listed[t], begunIn[t] - 1) => FreshList(listed[t], begunIn[t] - 1)'
  BY <1>2, FreshStays DEF FreshList
<1> QED BY <1>1, <1>3, <1>4 DEF LoadIsFresh

LEMMA CacheStays ==
  ASSUME PsTypeOK, user' = user, CacheIsFresh, manifestCache # <<>>,
         \A n \in Names : lastHeld'[n] \in Int /\ lastHeld'[n] >= lastHeld[n],
         manifestCache' = manifestCache
  PROVE  CacheIsFresh'
<1> DEFINE kept == manifestCache[1]
<1>1. kept.period \in Int /\ kept.period - 1 \in Int
  BY OneEntry, PsAssumption DEF NotDegraded
<1>2. Contents' = Contents
  BY DEF Contents
<1> SUFFICES ASSUME NEW n \in Names
    PROVE  \/ kept.list[n] = Contents'[n]
           \/ kept.period # NotDegraded /\ FreshEntry(kept.list[n], n, kept.period - 1)'
  BY DEF CacheIsFresh
<1>3. \/ kept.list[n] = Contents[n]
      \/ kept.period # NotDegraded /\ FreshEntry(kept.list[n], n, kept.period - 1)
  BY DEF CacheIsFresh
<1> QED BY <1>1, <1>2, <1>3, FreshStays

(* What a thread may do to a load, the folder keeping still. *)
GoesOn(t) ==
    \/ ~Loading(t)'
    \/ /\ Loading(t) /\ calm'[t] = calm[t] /\ keyOf'[t] = keyOf[t]
       /\ calm[t] /\ ~sameStamp => LoadIsFresh(t)'

LEMMA StillKeeps ==
  ASSUME PsInv, user' = user, ~sameStamp' => ~sameStamp, stamp' \in {stamp, stamp + 1},
         \A n \in Names : lastHeld'[n] \in Int /\ lastHeld'[n] >= lastHeld[n],
         \A t \in StoreThreads : GoesOn(t),
         manifestCache' \in {manifestCache, <<>>}
  PROVE  StoreTells'
<1> SUFFICES ASSUME ~sameStamp' PROVE (/\ \A t \in StoreThreads : calm[t] => LoadIsFresh(t)
                                      /\ KeysTell /\ CacheTells)'
  BY DEF StoreTells
<1>1. /\ ~sameStamp /\ PsTypeOK /\ KeysAreOld
      /\ \A t \in StoreThreads : calm[t] => LoadIsFresh(t)
      /\ KeysTell /\ CacheTells
  BY DEF PsInv, StoreTells
<1>2. (\A t \in StoreThreads : calm[t] => LoadIsFresh(t))'
  <2> SUFFICES ASSUME NEW t \in StoreThreads, calm'[t] PROVE LoadIsFresh(t)'
    OBVIOUS
  <2>1. CASE ~Loading(t)'
    BY <2>1 DEF Loading, Scanning, LoadIsFresh
  <2>2. CASE Loading(t)'
    BY <1>1, <2>2 DEF GoesOn
  <2> QED BY <2>1, <2>2
<1>3. \A t \in StoreThreads : Loading(t)' =>
         Loading(t) /\ calm'[t] = calm[t] /\ keyOf'[t] = keyOf[t]
  BY DEF GoesOn
<1>4. \A t \in StoreThreads : keyOf[t] = stamp' => keyOf[t] = stamp
  BY <1>1, PsNumbers DEF KeysAreOld
<1>5. KeysTell'
  <2>1. \A t \in StoreThreads : Loading(t)' => (keyOf'[t] = stamp' => calm'[t])
    BY <1>1, <1>3, <1>4 DEF KeysTell
  <2>2. \A t, u \in StoreThreads :
           Loading(t)' /\ Loading(u)' /\ keyOf'[u] = keyOf'[t] /\ calm'[t] => calm'[u]
    BY <1>1, <1>3 DEF KeysTell
  <2> QED BY <2>1, <2>2 DEF KeysTell
<1>6. CacheTells'
  <2> SUFFICES ASSUME manifestCache' # <<>>,
                      \/ manifestCache'[1].key = stamp'
                      \/ \E t \in StoreThreads :
                            Loading(t)' /\ calm'[t] /\ keyOf'[t] = manifestCache'[1].key
               PROVE  CacheIsFresh'
    BY DEF CacheTells
  <2>1. manifestCache' = manifestCache /\ manifestCache # <<>>
    OBVIOUS
  <2>2. manifestCache[1].key \in Int /\ manifestCache[1].key <= stamp /\ stamp \in Int
    BY <1>1, <2>1, OneEntry, PsAssumption, PsNumbers DEF KeysAreOld
  <2>3. \/ manifestCache[1].key = stamp
        \/ \E t \in StoreThreads :
              Loading(t) /\ calm[t] /\ keyOf[t] = manifestCache[1].key
    BY <1>3, <2>1, <2>2
  <2>4. CacheIsFresh
    BY <1>1, <2>1, <2>3 DEF CacheTells
  <2> QED BY <1>1, <2>1, <2>4, CacheStays
<1> QED BY <1>2, <1>5, <1>6

(* After a change no load and no list of before says anything. *)
LEMMA ChangeForgets ==
  ASSUME PsInv, NEW files, Touch(files), files # user,
         \A t \in StoreThreads : keyOf'[t] \in Int /\ keyOf'[t] <= stamp,
         manifestCache' = manifestCache
  PROVE  StoreTells'
<1> SUFFICES ASSUME ~sameStamp' PROVE (/\ \A t \in StoreThreads : calm[t] => LoadIsFresh(t)
                                      /\ KeysTell /\ CacheTells)'
  BY DEF StoreTells
<1>1. PsTypeOK /\ KeysAreOld /\ stamp \in Int
  BY PsNumbers DEF PsInv
<1>2. stamp' = stamp + 1 /\ \A t \in StoreThreads : calm'[t] = FALSE
  BY <1>1 DEF Touch
<1>3. \A t \in StoreThreads : keyOf'[t] # stamp'
  BY <1>1, <1>2
<1>4. KeysTell'
  BY <1>2, <1>3 DEF KeysTell
<1>5. manifestCache # <<>> => manifestCache[1].key # stamp'
  BY <1>1, <1>2, OneEntry, PsAssumption DEF KeysAreOld
<1>6. CacheTells'
  BY <1>2, <1>5 DEF CacheTells
<1> QED BY <1>2, <1>4, <1>6

-----------------------------------------------------------------------------
(* The actions of one thread.                                              *)

LocalsOK ==
    /\ opOf \in [StoreThreads -> Ops \union {NoOp}]
    /\ storePc \in [StoreThreads -> StoreLabels]
    /\ keyOf \in [StoreThreads -> 0..MaxStamp]
    /\ namesSeen \in [StoreThreads -> SUBSET Names]
    /\ listed \in [StoreThreads -> [Names -> Entries]]
    /\ begunIn \in [StoreThreads -> 0..MaxBucket]

OthersStay(t) ==
    \A u \in StoreThreads \ {t} :
        /\ opOf'[u] = opOf[u] /\ storePc'[u] = storePc[u] /\ keyOf'[u] = keyOf[u]
        /\ namesSeen'[u] = namesSeen[u] /\ listed'[u] = listed[u] /\ begunIn'[u] = begunIn[u]

LEMMA PsLocals == PsTypeOK => LocalsOK
  BY DEF PsTypeOK, LocalsOK

LEMMA NothingIsEntry == Whatever \in [Names -> Entries]
  BY DEF Whatever, Nothing, Entries

LEMMA EndCallDoes ==
  ASSUME PsTypeOK, NEW t \in StoreThreads, EndCall(t)
  PROVE  /\ LocalsOK' /\ OthersStay(t)
         /\ storePc'[t] = "idle" /\ keyOf'[t] = 0 /\ begunIn'[t] = 0
<1>1. LocalsOK
  BY PsLocals
<1>2. 0 \in 0..MaxStamp /\ 0 \in 0..MaxBucket
  BY PsAssumption
<1> QED BY <1>1, <1>2, NothingIsEntry DEF LocalsOK, EndCall, Goto, OthersStay, StoreLabels

LEMMA TouchTypes ==
  ASSUME PsTypeOK, NEW files \in [Names -> Titles \union {Absent}], Touch(files)
  PROVE  /\ user' \in [Names -> Titles \union {Absent}]
         /\ stamp' \in 0..MaxStamp /\ stamp' \in {stamp, stamp + 1}
         /\ sameStamp' \in BOOLEAN /\ (~sameStamp' => ~sameStamp)
         /\ calm' \in [StoreThreads -> BOOLEAN]
         /\ files = user => user' = user /\ calm' = calm
<1>1. calm \in [StoreThreads -> BOOLEAN] /\ sameStamp \in BOOLEAN
  BY DEF PsTypeOK
<1>2. PICK s \in {stamp, stamp + 1} \intersect 0..MaxStamp :
         stamp' = s /\ sameStamp' = (sameStamp \/ (s = stamp /\ files # user))
  BY DEF Touch
<1>3. user' = files /\ calm' = [t \in StoreThreads |-> calm[t] /\ files = user]
  BY DEF Touch
<1>4. files = user => calm' = calm
  BY <1>1, <1>3
<1>5. sameStamp' \in BOOLEAN /\ (~sameStamp' => ~sameStamp)
  BY <1>1, <1>2
<1>6. calm' \in [StoreThreads -> BOOLEAN]
  BY <1>3
<1> QED BY <1>2, <1>3, <1>4, <1>5, <1>6

(* A step of a thread that is no load after it, with or without a change   *)
(* of the folder.                                                          *)
LEMMA LeavesLoad ==
  ASSUME PsInv, NEW t \in StoreThreads, OthersStay(t), LocalsOK',
         ~Loading(t)', keyOf'[t] \in {keyOf[t], 0}, begunIn'[t] \in {begunIn[t], 0},
         storePc'[t] \in {"temp", "replace"} => opOf'[t].title \in Titles,
         UNCHANGED heldVars,
         \/ UNCHANGED <<folderVars, calm>> /\ manifestCache' \in {manifestCache, <<>>}
         \/ \E files \in [Names -> Titles \union {Absent}] :
                Touch(files) /\ UNCHANGED manifestCache
  PROVE  PsInv'
<1>1. PsTypeOK /\ Writing /\ HeldIsNow /\ LoadsAreShort /\ KeysAreOld /\ StoreTells
  BY DEF PsInv
<1>2. UNCHANGED <<held, bucket, lastHeld>>
  BY DEF heldVars
<1>3. manifestCache' \in {manifestCache, <<>>}
  OBVIOUS
<1>4. /\ user' \in [Names -> Titles \union {Absent}]
      /\ stamp' \in 0..MaxStamp /\ stamp' \in {stamp, stamp + 1}
      /\ sameStamp' \in BOOLEAN /\ (~sameStamp' => ~sameStamp)
      /\ calm' \in [StoreThreads -> BOOLEAN]
  BY <1>1, TouchTypes DEF folderVars, PsTypeOK
<1>5. PsTypeOK'
  <2>1. manifestCache' \in Seq(CacheEntries) /\ Len(manifestCache') <= 1
    <3>1. <<>> \in Seq(CacheEntries) /\ Len(<<>>) = 0
      BY EmptySeq
    <3>2. manifestCache \in Seq(CacheEntries) /\ Len(manifestCache) <= 1
      BY <1>1 DEF PsTypeOK
    <3>3. CASE manifestCache' = manifestCache
      BY <3>2, <3>3
    <3>4. CASE manifestCache' = <<>>
      BY <3>1, <3>4
    <3> QED BY <1>3, <3>3, <3>4
  <2>2. (held \subseteq Names /\ bucket \in 0..MaxBucket
          /\ lastHeld \in [Names -> NeverHeld..MaxBucket])'
    BY <1>1, <1>2 DEF PsTypeOK
  <2> QED BY <1>4, <2>1, <2>2 DEF PsTypeOK, LocalsOK
<1>6. Writing'
  BY <1>1 DEF Writing, OthersStay
<1>7. HeldIsNow'
  BY <1>1, <1>2 DEF HeldIsNow
<1>8. LoadsAreShort'
  <2> SUFFICES ASSUME NEW u \in StoreThreads
      PROVE  begunIn'[u] <= bucket' /\ (Scanning(u)' => begunIn'[u] >= bucket' - 1)
    BY DEF LoadsAreShort
  <2>1. CASE u = t
    BY <1>1, <1>2, <2>1, PsNumbers DEF LoadsAreShort, Loading
  <2>2. CASE u # t
    BY <1>1, <1>2, <2>2 DEF LoadsAreShort, OthersStay, Scanning
  <2> QED BY <2>1, <2>2
<1>9. \A u \in StoreThreads : keyOf'[u] \in Int /\ keyOf'[u] <= stamp /\ keyOf'[u] <= stamp'
  <2> SUFFICES ASSUME NEW u \in StoreThreads
      PROVE  keyOf'[u] \in Int /\ keyOf'[u] <= stamp /\ keyOf'[u] <= stamp'
    OBVIOUS
  <2>1. stamp >= 0 /\ stamp \in Int /\ stamp' >= stamp /\ keyOf[u] \in Int /\ keyOf[u] <= stamp
    BY <1>1, <1>4, PsNumbers, PsAssumption DEF KeysAreOld, PsTypeOK
  <2>2. keyOf'[u] \in {keyOf[u], 0}
    BY DEF OthersStay
  <2> QED BY <1>4, <2>1, <2>2
<1>10. KeysAreOld'
  <2>1. manifestCache' # <<>> => manifestCache'[1].key <= stamp'
    <3> SUFFICES ASSUME manifestCache' # <<>> PROVE manifestCache'[1].key <= stamp'
      OBVIOUS
    <3>1. manifestCache' = manifestCache /\ manifestCache # <<>>
      BY <1>3
    <3>2. manifestCache[1].key \in Int /\ manifestCache[1].key <= stamp /\ stamp \in Int
      BY <1>1, <3>1, OneEntry, PsNumbers, PsAssumption DEF KeysAreOld
    <3> QED BY <1>4, <3>1, <3>2
  <2> QED BY <1>9, <2>1 DEF KeysAreOld
<1>11. StoreTells'
  <2>1. CASE user' = user /\ calm' = calm
    <3>1. \A n \in Names : lastHeld'[n] \in Int /\ lastHeld'[n] >= lastHeld[n]
      BY <1>1, <1>2, PsNumbers
    <3>2. \A u \in StoreThreads : GoesOn(u)
      <4> SUFFICES ASSUME NEW u \in StoreThreads, Loading(u)' PROVE GoesOn(u)
        BY DEF GoesOn
      <4>1. u # t
        OBVIOUS
      <4>2. Loading(u)
        BY <4>1 DEF OthersStay, Loading, Scanning
      <4>3. calm[u] /\ ~sameStamp => LoadIsFresh(u)
        BY <1>1 DEF StoreTells
      <4> QED BY <1>1, <2>1, <3>1, <4>1, <4>2, <4>3, LoadStays DEF GoesOn, OthersStay
    <3> QED BY <1>3, <1>4, <2>1, <3>1, <3>2, StillKeeps
  <2>2. CASE ~(user' = user /\ calm' = calm)
    <3>1. PICK files \in [Names -> Titles \union {Absent}] :
             Touch(files) /\ UNCHANGED manifestCache
      BY <2>2 DEF folderVars
    <3>2. files # user
      BY <1>1, <2>2, <3>1, TouchTypes
    <3> QED BY <1>9, <3>1, <3>2, ChangeForgets
  <2> QED BY <2>1, <2>2
<1> QED BY <1>5, <1>6, <1>7, <1>8, <1>10, <1>11 DEF PsInv

LEMMA EndsCall ==
  ASSUME PsInv, NEW t \in StoreThreads, EndCall(t), UNCHANGED heldVars,
         \/ UNCHANGED <<folderVars, calm>> /\ manifestCache' \in {manifestCache, <<>>}
         \/ \E files \in [Names -> Titles \union {Absent}] :
                Touch(files) /\ UNCHANGED manifestCache
  PROVE  PsInv'
<1>1. /\ LocalsOK' /\ OthersStay(t)
      /\ storePc'[t] = "idle" /\ keyOf'[t] = 0 /\ begunIn'[t] = 0
  BY EndCallDoes DEF PsInv
<1>2. ~Loading(t)'
  BY <1>1 DEF Loading, Scanning
<1> QED BY <1>1, <1>2, LeavesLoad

(* A thread goes on to a step that is no part of a load. *)
LEMMA GoesTo ==
  ASSUME PsInv, NEW t \in StoreThreads, NEW label \in {"temp", "replace", "drop"},
         Goto(t, label), UNCHANGED <<opOf, keyOf, namesSeen, listed, begunIn>>,
         label \in {"temp", "replace"} => opOf[t].title \in Titles,
         UNCHANGED heldVars,
         \/ UNCHANGED <<folderVars, calm>> /\ manifestCache' \in {manifestCache, <<>>}
         \/ \E files \in [Names -> Titles \union {Absent}] :
                Touch(files) /\ UNCHANGED manifestCache
  PROVE  PsInv'
<1>1. LocalsOK
  BY PsLocals DEF PsInv
<1>2. /\ storePc'[t] = label /\ \A u \in StoreThreads \ {t} : storePc'[u] = storePc[u]
      /\ storePc' \in [StoreThreads -> StoreLabels]
  BY <1>1 DEF LocalsOK, Goto, StoreLabels
<1>3. LocalsOK' /\ OthersStay(t)
  BY <1>1, <1>2 DEF LocalsOK, OthersStay
<1>4. ~Loading(t)'
  BY <1>2 DEF Loading, Scanning
<1> QED BY <1>2, <1>3, <1>4, LeavesLoad

LEMMA OpFields ==
  ASSUME NEW o \in Ops \union {NoOp}
  PROVE  /\ o.kind \in {"create", "update"} => o.title \in Titles
         /\ o.kind \in {"update", "rename", "delete"} => o.name \in Names
<1>1. CASE o = NoOp
  BY <1>1 DEF NoOp
<1>2. CASE o \in [kind : {"list"}, name : {""}, title : {""}]
  BY <1>2
<1>3. CASE o \in [kind : {"create"}, name : Wanted, title : Titles]
  BY <1>3
<1>4. CASE o \in [kind : {"update"}, name : Names, title : Titles]
  BY <1>4
<1>5. CASE o \in [kind : {"rename"}, name : Names, title : {""}]
  BY <1>5
<1>6. CASE o \in [kind : {"delete"}, name : Names, title : {""}]
  BY <1>6
<1> QED BY <1>1, <1>2, <1>3, <1>4, <1>5, <1>6 DEF Ops

LEMMA HandListKeeps ==
  ASSUME PsInv, NEW t \in StoreThreads, HandList(t)
  PROVE  PsInv'
  BY EndsCall DEF HandList

LEMMA CompareTextKeeps ==
  ASSUME PsInv, NEW t \in StoreThreads, CompareText(t)
  PROVE  PsInv'
<1>1. UNCHANGED <<folderVars, heldVars, manifestCache, callsBegun, calm>>
  BY DEF CompareText
<1>2. opOf[t].title \in Titles
  BY OpFields DEF CompareText, PsInv, PsTypeOK
<1>3. EndCall(t) \/ (Goto(t, "temp") /\ UNCHANGED <<opOf, keyOf, namesSeen, listed, begunIn>>)
  BY DEF CompareText
<1> QED BY <1>1, <1>2, <1>3, EndsCall, GoesTo

LEMMA WriteTempKeeps ==
  ASSUME PsInv, NEW t \in StoreThreads, WriteTemp(t)
  PROVE  PsInv'
<1>1. user \in [Names -> Titles \union {Absent}]
  BY DEF PsInv, PsTypeOK
<1>2. opOf[t].title \in Titles
  BY DEF WriteTemp, At, PsInv, Writing
<1>3. /\ Touch(user) /\ Goto(t, "replace") /\ UNCHANGED <<heldVars, manifestCache>>
      /\ UNCHANGED <<opOf, keyOf, namesSeen, listed, begunIn>>
  BY DEF WriteTemp, storeCallVars
<1> QED BY <1>1, <1>2, <1>3, GoesTo

LEMMA ReplaceFileKeeps ==
  ASSUME PsInv, NEW t \in StoreThreads, ReplaceFile(t)
  PROVE  PsInv'
<1>1. user \in [Names -> Titles \union {Absent}]
  BY DEF PsInv, PsTypeOK
<1>2. opOf[t].title \in Titles
  BY DEF ReplaceFile, At, PsInv, Writing
<1> DEFINE files == [user EXCEPT ![fileOf[t]] = opOf[t].title]
<1>3. files \in [Names -> Titles \union {Absent}]
  BY <1>1, <1>2
<1>4. UNCHANGED <<heldVars, manifestCache>>
  BY DEF ReplaceFile
<1>5. \/ Touch(files) /\ Goto(t, "drop") /\ UNCHANGED <<opOf, keyOf, namesSeen, listed, begunIn>>
      \/ Touch(user) /\ EndCall(t)
  BY DEF ReplaceFile, storeCallVars
<1> HIDE DEF files
<1> QED BY <1>1, <1>3, <1>4, <1>5, GoesTo, EndsCall

LEMMA DropCacheKeeps ==
  ASSUME PsInv, NEW t \in StoreThreads, DropCache(t)
  PROVE  PsInv'
  BY EndsCall DEF DropCache, Invalidate

LEMMA RenameFileKeeps ==
  ASSUME PsInv, NEW t \in StoreThreads, RenameFile(t)
  PROVE  PsInv'
<1>1. user \in [Names -> Titles \union {Absent}]
  BY DEF PsInv, PsTypeOK
<1>2. UNCHANGED <<heldVars, manifestCache>>
  BY DEF RenameFile
<1> DEFINE n == opOf[t].name
<1>n. n \in Names
  BY OpFields DEF RenameFile, PsInv, PsTypeOK
<1>3. CASE EndCall(t) /\ UNCHANGED <<folderVars, calm>>
  BY <1>2, <1>3, EndsCall
<1>4. CASE /\ Goto(t, "drop") /\ UNCHANGED storeCallVars
           /\ \E m \in Wanted :
                 LET dest == Free(m, n)
                 IN  IF user[n] = Absent \/ dest = n
                     THEN UNCHANGED <<folderVars, calm>>
                     ELSE Touch([user EXCEPT ![n] = Absent, ![dest] = user[n]])
  <2>1. UNCHANGED <<opOf, keyOf, namesSeen, listed, begunIn>>
    BY <1>4 DEF storeCallVars
  <2>2. UNCHANGED <<folderVars, calm>>
        \/ \E dest : Touch([user EXCEPT ![n] = Absent, ![dest] = user[n]])
    BY <1>4
  <2>3. \A dest : [user EXCEPT ![n] = Absent, ![dest] = user[n]]
                     \in [Names -> Titles \union {Absent}]
    BY <1>1, <1>n
  <2>4. \/ UNCHANGED <<folderVars, calm>>
        \/ \E files \in [Names -> Titles \union {Absent}] : Touch(files)
    BY <2>2, <2>3
  <2> QED BY <1>2, <1>4, <2>1, <2>4, GoesTo
<1> QED BY <1>3, <1>4 DEF RenameFile

LEMMA DeleteFileKeeps ==
  ASSUME PsInv, NEW t \in StoreThreads, DeleteFile(t)
  PROVE  PsInv'
<1>1. user \in [Names -> Titles \union {Absent}]
  BY DEF PsInv, PsTypeOK
<1>2. UNCHANGED <<heldVars, manifestCache>>
  BY DEF DeleteFile
<1> DEFINE n == opOf[t].name
           files == [user EXCEPT ![n] = Absent]
<1>3. files \in [Names -> Titles \union {Absent}]
  BY <1>1
<1>4. \/ EndCall(t) /\ UNCHANGED <<folderVars, calm>>
      \/ /\ Goto(t, "drop") /\ UNCHANGED <<opOf, keyOf, namesSeen, listed, begunIn>>
         /\ UNCHANGED <<folderVars, calm>> \/ Touch(files)
  BY DEF DeleteFile, storeCallVars
<1> HIDE DEF files
<1> QED BY <1>2, <1>3, <1>4, EndsCall, GoesTo

-----------------------------------------------------------------------------
(* Loads.                                                                  *)

(* What no step of a load touches. *)
LEMMA LoadStepKeeps ==
  ASSUME PsInv, NEW t \in StoreThreads, OthersStay(t), LocalsOK',
         UNCHANGED <<folderVars, heldVars>>, calm' \in [StoreThreads -> BOOLEAN],
         opOf'[t] = opOf[t] \/ storePc'[t] \notin {"temp", "replace"},
         storePc'[t] \notin {"temp", "replace"}, keyOf'[t] <= stamp,
         begunIn'[t] = bucket \/ (begunIn'[t] = begunIn[t] /\ (Scanning(t)' => Scanning(t))),
         manifestCache' \in Seq(CacheEntries), Len(manifestCache') <= 1,
         manifestCache' # <<>> => manifestCache'[1].key <= stamp,
         StoreTells'
  PROVE  PsInv'
<1>1. PsTypeOK /\ Writing /\ HeldIsNow /\ LoadsAreShort /\ KeysAreOld
  BY DEF PsInv
<1>2. UNCHANGED <<user, stamp, sameStamp, held, bucket, lastHeld>>
  BY DEF folderVars, heldVars
<1>3. PsTypeOK'
  BY <1>1, <1>2 DEF PsTypeOK, LocalsOK
<1>4. Writing'
  BY <1>1 DEF Writing, OthersStay
<1>5. HeldIsNow'
  BY <1>1, <1>2 DEF HeldIsNow
<1>6. LoadsAreShort'
  <2> SUFFICES ASSUME NEW u \in StoreThreads
      PROVE  begunIn'[u] <= bucket' /\ (Scanning(u)' => begunIn'[u] >= bucket' - 1)
    BY DEF LoadsAreShort
  <2>1. CASE u = t
    BY <1>1, <1>2, <2>1, PsNumbers DEF LoadsAreShort
  <2>2. CASE u # t
    BY <1>1, <1>2, <2>2 DEF LoadsAreShort, OthersStay, Scanning
  <2> QED BY <2>1, <2>2
<1>7. KeysAreOld'
  BY <1>1, <1>2 DEF KeysAreOld, OthersStay
<1> QED BY <1>3, <1>4, <1>5, <1>6, <1>7 DEF PsInv

LEMMA OthersGoOn ==
  ASSUME PsInv, NEW t \in StoreThreads, OthersStay(t),
         UNCHANGED <<folderVars, heldVars>>, NEW u \in StoreThreads \ {t},
         calm'[u] = calm[u]
  PROVE  GoesOn(u) /\ (calm[u] /\ ~sameStamp => LoadIsFresh(u)')
         /\ (Loading(u)' <=> Loading(u))
<1>1. PsTypeOK /\ user' = user
      /\ \A n \in Names : lastHeld'[n] \in Int /\ lastHeld'[n] >= lastHeld[n]
  BY PsNumbers DEF PsInv, folderVars, heldVars
<1>2. Loading(u)' <=> Loading(u)
  BY DEF OthersStay, Loading, Scanning
<1>3. calm[u] /\ ~sameStamp => LoadIsFresh(u)'
  <2> SUFFICES ASSUME calm[u], ~sameStamp PROVE LoadIsFresh(u)'
    OBVIOUS
  <2>1. LoadIsFresh(u)
    BY DEF PsInv, StoreTells
  <2> QED BY <1>1, <2>1, LoadStays DEF OthersStay
<1> QED BY <1>2, <1>3 DEF GoesOn, OthersStay

(* A step of a load that leaves the cache: t's list is fresh after it. *)
LEMMA LoadGoesOn ==
  ASSUME PsInv, NEW t \in StoreThreads, OthersStay(t), LocalsOK',
         UNCHANGED <<folderVars, heldVars, calm, manifestCache>>, Loading(t),
         opOf'[t] = opOf[t], keyOf'[t] = keyOf[t], begunIn'[t] = begunIn[t],
         storePc'[t] \in {"names", "headers", "insert", "loaded"}, Scanning(t),
         calm[t] /\ ~sameStamp => LoadIsFresh(t)'
  PROVE  PsInv'
<1>1. PsTypeOK /\ KeysAreOld
  BY DEF PsInv
<1>2. UNCHANGED <<user, stamp, sameStamp, held, bucket, lastHeld>>
  BY DEF folderVars, heldVars
<1>3. GoesOn(t)
  BY DEF GoesOn
<1>4. \A u \in StoreThreads : GoesOn(u)
  BY <1>3, OthersGoOn
<1>5. StoreTells'
  BY <1>1, <1>2, <1>4, PsNumbers, StillKeeps
<1>6. manifestCache' # <<>> => manifestCache'[1].key <= stamp
  BY <1>1 DEF KeysAreOld
<1>7. keyOf'[t] <= stamp
  BY <1>1 DEF KeysAreOld
<1>8. calm' \in [StoreThreads -> BOOLEAN] /\ manifestCache' \in Seq(CacheEntries)
      /\ Len(manifestCache') <= 1
  BY <1>1 DEF PsTypeOK
<1> QED BY <1>5, <1>6, <1>7, <1>8, LoadStepKeeps

LEMMA ThreadGoes ==
  ASSUME PsInv, NEW t \in StoreThreads, NEW label \in StoreLabels, Goto(t, label)
  PROVE  /\ storePc'[t] = label /\ storePc' \in [StoreThreads -> StoreLabels]
         /\ \A u \in StoreThreads \ {t} : storePc'[u] = storePc[u]
  BY DEF PsInv, PsTypeOK, Goto

LEMMA BeginCreateKeeps ==
  ASSUME PsInv, NEW t \in StoreThreads, NEW o \in Ops, o.kind = "create",
         opOf' = [opOf EXCEPT ![t] = o], Goto(t, "temp"),
         UNCHANGED <<folderVars, heldVars, namesSeen, listed, manifestCache, keyOf, calm, begunIn>>
  PROVE  PsInv'
<1>1. /\ storePc'[t] = "temp" /\ storePc' \in [StoreThreads -> StoreLabels]
      /\ \A u \in StoreThreads \ {t} : storePc'[u] = storePc[u]
  BY ThreadGoes DEF StoreLabels
<1>2. LocalsOK
  BY PsLocals DEF PsInv
<1>3. LocalsOK' /\ OthersStay(t) /\ opOf'[t] = o
  BY <1>1, <1>2 DEF LocalsOK, OthersStay
<1>4. o.title \in Titles
  BY OpFields
<1>5. ~Loading(t)'
  BY <1>1 DEF Loading, Scanning
<1> QED BY <1>3, <1>4, <1>5, LeavesLoad

(* A load begins: its key is the stamp of now, all loads with that key     *)
(* have seen the same folder.                                              *)
LEMMA BeginLoadKeeps ==
  ASSUME PsInv, NEW t \in StoreThreads, NEW o \in Ops, At(t, "idle"),
         opOf' = [opOf EXCEPT ![t] = o], Goto(t, "look"),
         keyOf' = [keyOf EXCEPT ![t] = stamp], calm' = [calm EXCEPT ![t] = TRUE],
         begunIn' = [begunIn EXCEPT ![t] = bucket],
         UNCHANGED <<folderVars, heldVars, namesSeen, listed, manifestCache>>
  PROVE  PsInv'
<1>1. PsTypeOK /\ KeysAreOld /\ StoreTells
  BY DEF PsInv
<1>2. UNCHANGED <<user, stamp, sameStamp, held, bucket, lastHeld>>
  BY DEF folderVars, heldVars
<1>3. /\ storePc'[t] = "look" /\ storePc' \in [StoreThreads -> StoreLabels]
      /\ \A u \in StoreThreads \ {t} : storePc'[u] = storePc[u]
  BY ThreadGoes DEF StoreLabels
<1>4. LocalsOK
  BY PsLocals DEF PsInv
<1>5. LocalsOK' /\ OthersStay(t) /\ keyOf'[t] = stamp /\ begunIn'[t] = bucket
  BY <1>1, <1>3, <1>4 DEF LocalsOK, OthersStay, PsTypeOK
<1>6. /\ calm' \in [StoreThreads -> BOOLEAN] /\ calm'[t]
      /\ \A u \in StoreThreads \ {t} : calm'[u] = calm[u]
  BY <1>1 DEF PsTypeOK
<1>7. StoreTells'
  <2> SUFFICES ASSUME ~sameStamp' PROVE (/\ \A u \in StoreThreads : calm[u] => LoadIsFresh(u)
                                        /\ KeysTell /\ CacheTells)'
    BY DEF StoreTells
  <2>1. ~sameStamp /\ KeysTell /\ CacheTells
    BY <1>1, <1>2 DEF StoreTells
  <2>2. LoadIsFresh(t)'
    BY <1>3 DEF LoadIsFresh
  <2>3. \A u \in StoreThreads \ {t} :
           (calm'[u] => LoadIsFresh(u)') /\ (Loading(u)' <=> Loading(u)) /\ keyOf'[u] = keyOf[u]
    BY <1>2, <1>5, <1>6, <2>1, OthersGoOn DEF OthersStay
  <2>4. \A u \in StoreThreads : keyOf'[u] = stamp /\ Loading(u)' => calm'[u]
    BY <1>6, <2>1, <2>3 DEF KeysTell
  <2>5. KeysTell'
    <3>1. \A v, u \in StoreThreads :
             Loading(v)' /\ Loading(u)' /\ keyOf'[u] = keyOf'[v] /\ calm'[v] => calm'[u]
      <4> SUFFICES ASSUME NEW v \in StoreThreads, NEW u \in StoreThreads,
                          Loading(v)', Loading(u)', keyOf'[u] = keyOf'[v], calm'[v]
                   PROVE  calm'[u]
        OBVIOUS
      <4>1. CASE v = t \/ u = t
        BY <1>5, <1>6, <2>4, <4>1
      <4>2. CASE v # t /\ u # t
        BY <1>6, <2>1, <2>3, <4>2 DEF KeysTell
      <4> QED BY <4>1, <4>2
    <3> QED BY <1>2, <2>4, <3>1 DEF KeysTell
  <2>6. CacheTells'
    <3> SUFFICES ASSUME manifestCache' # <<>>,
                        \/ manifestCache'[1].key = stamp'
                        \/ \E u \in StoreThreads :
                              Loading(u)' /\ calm'[u] /\ keyOf'[u] = manifestCache'[1].key
                 PROVE  CacheIsFresh'
      BY DEF CacheTells
    <3>1. \/ manifestCache[1].key = stamp
          \/ \E u \in StoreThreads : Loading(u) /\ calm[u] /\ keyOf[u] = manifestCache[1].key
      BY <1>2, <1>5, <1>6, <2>3
    <3>2. CacheIsFresh
      BY <2>1, <3>1 DEF CacheTells
    <3> QED BY <1>1, <1>2, <3>2, CacheStays, PsNumbers
  <2> QED BY <2>2, <2>3, <2>5, <2>6
<1>8. manifestCache' # <<>> => manifestCache'[1].key <= stamp
  BY <1>1 DEF KeysAreOld
<1>9. keyOf'[t] <= stamp
  BY <1>1, <1>5, PsNumbers
<1>10. manifestCache' \in Seq(CacheEntries) /\ Len(manifestCache') <= 1
  BY <1>1 DEF PsTypeOK
<1> QED BY <1>3, <1>5, <1>6, <1>7, <1>8, <1>9, <1>10, LoadStepKeeps

LEMMA BeginCallKeeps ==
  ASSUME PsInv, NEW t \in StoreThreads, BeginCall(t)
  PROVE  PsInv'
<1>1. PICK o \in Ops :
         /\ opOf' = [opOf EXCEPT ![t] = o]
         /\ IF o.kind = "create"
            THEN Goto(t, "temp") /\ UNCHANGED <<keyOf, calm, begunIn>>
            ELSE /\ keyOf' = [keyOf EXCEPT ![t] = stamp]
                 /\ calm' = [calm EXCEPT ![t] = TRUE]
                 /\ begunIn' = [begunIn EXCEPT ![t] = bucket]
                 /\ Goto(t, "look")
  BY DEF BeginCall
<1>2. At(t, "idle") /\ UNCHANGED <<folderVars, heldVars, namesSeen, listed, manifestCache>>
  BY DEF BeginCall
<1> QED BY <1>1, <1>2, BeginCreateKeeps, BeginLoadKeeps

(* The cache answers for a key: with what the folder is, or was as a file  *)
(* was held not long ago.                                                  *)
LEMMA LookInCacheKeeps ==
  ASSUME PsInv, NEW t \in StoreThreads, LookInCache(t)
  PROVE  PsInv'
<1>1. PsTypeOK /\ StoreTells /\ LoadsAreShort
  BY DEF PsInv
<1>2. LocalsOK /\ storePc[t] = "look"
  BY PsLocals DEF PsInv, LookInCache, At
<1>3. UNCHANGED <<folderVars, heldVars, calm, manifestCache, opOf, keyOf, namesSeen, begunIn>>
  BY DEF LookInCache
<1>4. Loading(t) /\ Scanning(t)
  BY <1>2 DEF Loading, Scanning
<1>5. CASE ~Hit(t)
  <2>1. Goto(t, "names") /\ UNCHANGED listed
    BY <1>5 DEF LookInCache
  <2>2. /\ storePc'[t] = "names" /\ storePc' \in [StoreThreads -> StoreLabels]
        /\ \A u \in StoreThreads \ {t} : storePc'[u] = storePc[u]
    BY <2>1, ThreadGoes DEF StoreLabels
  <2>3. LocalsOK' /\ OthersStay(t)
    BY <1>2, <1>3, <2>1, <2>2 DEF LocalsOK, OthersStay
  <2>4. LoadIsFresh(t)'
    BY <2>2 DEF LoadIsFresh
  <2> QED BY <1>3, <1>4, <2>2, <2>3, <2>4, LoadGoesOn
<1>6. CASE Hit(t)
  <2>1. Goto(t, "loaded") /\ listed' = [listed EXCEPT ![t] = manifestCache[1].list]
    BY <1>6 DEF LookInCache
  <2>2. /\ storePc'[t] = "loaded" /\ storePc' \in [StoreThreads -> StoreLabels]
        /\ \A u \in StoreThreads \ {t} : storePc'[u] = storePc[u]
    BY <2>1, ThreadGoes DEF StoreLabels
  <2>3. /\ manifestCache # <<>> /\ manifestCache[1].key = keyOf[t]
        /\ manifestCache[1].period \in {NotDegraded, bucket}
    BY <1>6 DEF Hit
  <2>4. LocalsOK' /\ OthersStay(t)
    <3>1. manifestCache[1].list \in [Names -> Entries]
      BY <1>1, <2>3, OneEntry
    <3> QED BY <1>2, <1>3, <2>1, <2>2, <3>1 DEF LocalsOK, OthersStay
  <2>5. calm[t] /\ ~sameStamp => LoadIsFresh(t)'
    <3> SUFFICES ASSUME calm[t], ~sameStamp PROVE LoadIsFresh(t)'
      OBVIOUS
    <3> DEFINE kept == manifestCache[1]
    <3>1. CacheIsFresh
      BY <1>1, <1>4, <2>3 DEF StoreTells, CacheTells
    <3>2. listed'[t] = kept.list
      BY <1>2, <2>1 DEF LocalsOK
    <3>3. begunIn'[t] = begunIn[t] /\ begunIn[t] \in Int /\ begunIn[t] <= bucket /\ bucket \in Int
      BY <1>1, <1>3, PsNumbers DEF LoadsAreShort
    <3>4. Contents' = Contents /\ lastHeld' = lastHeld
      BY <1>3 DEF Contents, folderVars, heldVars
    <3>5. \A n \in Names : FreshEntry(kept.list[n], n, begunIn[t] - 1)
      <4> SUFFICES ASSUME NEW n \in Names PROVE FreshEntry(kept.list[n], n, begunIn[t] - 1)
        OBVIOUS
      <4>1. \/ kept.list[n] = Contents[n]
            \/ kept.period # NotDegraded /\ FreshEntry(kept.list[n], n, kept.period - 1)
        BY <3>1 DEF CacheIsFresh
      <4>2. CASE kept.list[n] = Contents[n]
        BY <4>2 DEF FreshEntry
      <4>3. CASE kept.period = bucket /\ FreshEntry(kept.list[n], n, kept.period - 1)
        <5>1. lastHeld[n] \in Int
          BY <1>1, PsNumbers
        <5>2. lastHeld[n] >= kept.period - 1 => lastHeld[n] >= begunIn[t] - 1
          BY <3>3, <4>3, <5>1
        <5> QED BY <4>3, <5>2 DEF FreshEntry
      <4> QED BY <2>3, <4>1, <4>2, <4>3
    <3>6. FreshList(listed[t], begunIn[t] - 1)'
      BY <3>2, <3>3, <3>4, <3>5 DEF FreshList, FreshEntry
    <3> QED BY <2>2, <3>6 DEF LoadIsFresh
  <2> QED BY <1>3, <1>4, <2>2, <2>4, <2>5, LoadGoesOn
<1> QED BY <1>5, <1>6

LEMMA ListNamesKeeps ==
  ASSUME PsInv, NEW t \in StoreThreads, ListNames(t)
  PROVE  PsInv'
<1>1. LocalsOK /\ storePc[t] = "names" /\ Goto(t, "headers")
  BY PsLocals DEF PsInv, ListNames, At
<1>2. /\ UNCHANGED <<folderVars, heldVars, calm, manifestCache, opOf, keyOf, listed, begunIn>>
      /\ namesSeen' = [namesSeen EXCEPT ![t] = Present]
  BY DEF ListNames, Present
<1>3. /\ storePc'[t] = "headers" /\ storePc' \in [StoreThreads -> StoreLabels]
      /\ \A u \in StoreThreads \ {t} : storePc'[u] = storePc[u]
  BY <1>1, ThreadGoes DEF StoreLabels
<1>4. Present \in SUBSET Names
  BY DEF Present
<1>5. LocalsOK' /\ OthersStay(t) /\ namesSeen'[t] = Present
  BY <1>1, <1>2, <1>3, <1>4 DEF LocalsOK, OthersStay
<1>6. LoadIsFresh(t)'
  BY <1>2, <1>3, <1>5 DEF LoadIsFresh, Present, folderVars
<1>7. Loading(t) /\ Scanning(t)
  BY <1>1 DEF Loading, Scanning
<1> QED BY <1>2, <1>3, <1>5, <1>6, <1>7, LoadGoesOn

(* In a still folder only a held file gets its name for a title. *)
LEMMA ReadHeadersKeeps ==
  ASSUME PsInv, NEW t \in StoreThreads, ReadHeaders(t)
  PROVE  PsInv'
<1>1. LocalsOK /\ storePc[t] = "headers" /\ Goto(t, "insert") /\ PsTypeOK /\ StoreTells
      /\ LoadsAreShort /\ HeldIsNow
  BY PsLocals DEF PsInv, ReadHeaders, At
<1> DEFINE found == [n \in Names |->
          IF n \notin namesSeen[t] THEN BuiltinEntry(n)
          ELSE [scope |-> "user", title |-> IF Unreadable(n) THEN Stem ELSE user[n]]]
<1>2. /\ UNCHANGED <<folderVars, heldVars, calm, manifestCache, opOf, keyOf, namesSeen, begunIn>>
      /\ listed' = [listed EXCEPT ![t] = found]
  BY DEF ReadHeaders
<1>3. /\ storePc'[t] = "insert" /\ storePc' \in [StoreThreads -> StoreLabels]
      /\ \A u \in StoreThreads \ {t} : storePc'[u] = storePc[u]
  BY <1>1, ThreadGoes DEF StoreLabels
<1>4. found \in [Names -> Entries]
  <2> SUFFICES ASSUME NEW n \in Names
      PROVE  (IF n \notin namesSeen[t] THEN BuiltinEntry(n)
              ELSE [scope |-> "user", title |-> IF Unreadable(n) THEN Stem ELSE user[n]]) \in Entries
    OBVIOUS
  <2>1. [scope |-> "user", title |-> IF Unreadable(n) THEN Stem ELSE user[n]] \in Entries
    BY <1>1 DEF PsTypeOK, Entries
  <2> QED BY <2>1, BuiltinIsEntry
<1>5. calm[t] /\ ~sameStamp => \A n \in Names : FreshEntry(found[n], n, begunIn[t])
  <2> SUFFICES ASSUME calm[t], ~sameStamp, NEW n \in Names
      PROVE  FreshEntry(found[n], n, begunIn[t])
    OBVIOUS
  <2>1. n \in namesSeen[t] <=> user[n] # Absent
    BY <1>1 DEF StoreTells, LoadIsFresh, Present
  <2>2. CASE user[n] = Absent
    <3>1. found[n] = BuiltinEntry(n)
      BY <2>1, <2>2
    <3> QED BY <2>2, <3>1, ContentsEntry DEF FreshEntry
  <2>3. CASE user[n] # Absent /\ n \notin held
    <3>1. found[n] = [scope |-> "user", title |-> user[n]]
      BY <2>1, <2>3 DEF Unreadable
    <3> QED BY <2>3, <3>1, ContentsEntry DEF FreshEntry
  <2>4. CASE user[n] # Absent /\ n \in held
    <3>1. found[n] = [scope |-> "user", title |-> Stem]
      BY <2>1, <2>4 DEF Unreadable
    <3>2. lastHeld[n] >= begunIn[t]
      BY <1>1, <2>4, PsNumbers DEF HeldIsNow, LoadsAreShort
    <3> QED BY <2>4, <3>1, <3>2, ContentsEntry DEF FreshEntry
  <2> QED BY <2>2, <2>3, <2>4
<1> HIDE DEF found
<1>6. LocalsOK' /\ OthersStay(t) /\ listed'[t] = found
  BY <1>1, <1>2, <1>3, <1>4 DEF LocalsOK, OthersStay
<1>7. calm[t] /\ ~sameStamp => LoadIsFresh(t)'
  <2>1. Contents' = Contents /\ lastHeld' = lastHeld /\ begunIn' = begunIn
    BY <1>2 DEF Contents, folderVars, heldVars
  <2> QED BY <1>3, <1>5, <1>6, <2>1 DEF LoadIsFresh, FreshList, FreshEntry
<1>8. Loading(t) /\ Scanning(t)
  BY <1>1 DEF Loading, Scanning
<1> QED BY <1>2, <1>3, <1>6, <1>7, <1>8, LoadGoesOn

(* The list goes into the cache under the key of its load: whoever has     *)
(* that key may have it.                                                   *)
LEMMA InsertListKeeps ==
  ASSUME PsInv, NEW t \in StoreThreads, InsertList(t)
  PROVE  PsInv'
<1>1. LocalsOK /\ storePc[t] = "insert" /\ Goto(t, "loaded") /\ PsTypeOK /\ StoreTells
      /\ LoadsAreShort /\ KeysAreOld
  BY PsLocals DEF PsInv, InsertList, At
<1> DEFINE entry == [key |-> keyOf[t], list |-> listed[t],
                     period |-> IF Degraded(listed[t]) THEN bucket ELSE NotDegraded]
<1>2. /\ UNCHANGED <<folderVars, heldVars, calm, opOf, keyOf, namesSeen, listed, begunIn>>
      /\ manifestCache' = <<entry>>
  BY DEF InsertList, storeCallVars
<1>3. /\ storePc'[t] = "loaded" /\ storePc' \in [StoreThreads -> StoreLabels]
      /\ \A u \in StoreThreads \ {t} : storePc'[u] = storePc[u]
  BY <1>1, ThreadGoes DEF StoreLabels
<1>4. LocalsOK' /\ OthersStay(t)
  BY <1>1, <1>2, <1>3 DEF LocalsOK, OthersStay
<1>5. /\ entry \in CacheEntries /\ entry.key = keyOf[t] /\ entry.list = listed[t]
      /\ entry.period = IF Degraded(listed[t]) THEN bucket ELSE NotDegraded
  <2>1. (IF Degraded(listed[t]) THEN bucket ELSE NotDegraded) \in NotDegraded..MaxBucket
    BY <1>1, PsAssumption DEF PsTypeOK, NotDegraded
  <2> QED BY <1>1, <2>1 DEF LocalsOK, CacheEntries
<1>6. Loading(t) /\ Scanning(t)
  BY <1>1 DEF Loading, Scanning
<1>7. UNCHANGED <<user, stamp, sameStamp, held, bucket, lastHeld>> /\ Contents' = Contents
  BY <1>2 DEF folderVars, heldVars, Contents
<1> HIDE DEF entry
<1>8. manifestCache' \in Seq(CacheEntries) /\ Len(manifestCache') <= 1 /\ manifestCache'[1] = entry
      /\ manifestCache' # <<>>
  BY <1>2, <1>5
<1>9. /\ begunIn[t] \in Int /\ bucket \in Int /\ bucket >= 0 /\ begunIn[t] <= bucket
      /\ begunIn[t] >= bucket - 1
  BY <1>1, <1>6, PsNumbers DEF LoadsAreShort
<1>10. calm[t] /\ ~sameStamp => FreshList(listed[t], begunIn[t])
  BY <1>1 DEF StoreTells, LoadIsFresh
<1>11. calm[t] /\ ~sameStamp => LoadIsFresh(t)'
  <2> SUFFICES ASSUME calm[t], ~sameStamp PROVE FreshList(listed[t], begunIn[t] - 1)'
    BY <1>3 DEF LoadIsFresh
  <2> SUFFICES ASSUME NEW n \in Names PROVE FreshEntry(listed[t][n], n, begunIn[t] - 1)
    BY <1>2, <1>7 DEF FreshList, FreshEntry
  <2>1. FreshEntry(listed[t][n], n, begunIn[t])
    BY <1>10 DEF FreshList
  <2>2. lastHeld[n] \in Int /\ (lastHeld[n] >= begunIn[t] => lastHeld[n] >= begunIn[t] - 1)
    BY <1>1, <1>9, PsNumbers
  <2> QED BY <2>1, <2>2 DEF FreshEntry
<1>12. calm[t] /\ ~sameStamp => CacheIsFresh'
  <2> SUFFICES ASSUME calm[t], ~sameStamp, NEW n \in Names
      PROVE  \/ entry.list[n] = Contents[n]
             \/ entry.period # NotDegraded /\ FreshEntry(entry.list[n], n, entry.period - 1)
    BY <1>7, <1>8 DEF CacheIsFresh, FreshEntry
  <2>1. FreshEntry(listed[t][n], n, begunIn[t])
    BY <1>10 DEF FreshList
  <2>2. CASE listed[t][n] = Contents[n]
    BY <1>5, <2>2
  <2>3. CASE lastHeld[n] >= begunIn[t] /\ listed[t][n] = [Contents[n] EXCEPT !.title = Stem]
    <3>1. Degraded(listed[t])
      BY <2>3, ContentsEntry DEF Degraded
    <3>2. entry.period = bucket /\ bucket # NotDegraded
      BY <1>5, <1>9, <3>1 DEF NotDegraded
    <3>3. lastHeld[n] \in Int /\ lastHeld[n] >= bucket - 1
      BY <1>1, <1>9, <2>3, PsNumbers
    <3> QED BY <1>5, <2>3, <3>2, <3>3 DEF FreshEntry
  <2> QED BY <2>1, <2>2, <2>3 DEF FreshEntry
<1>13. StoreTells'
  <2> SUFFICES ASSUME ~sameStamp' PROVE (/\ \A u \in StoreThreads : calm[u] => LoadIsFresh(u)
                                        /\ KeysTell /\ CacheTells)'
    BY DEF StoreTells
  <2>1. ~sameStamp /\ KeysTell
    BY <1>1, <1>7 DEF StoreTells
  <2>2. calm' = calm /\ keyOf' = keyOf
    BY <1>2
  <2>3. \A u \in StoreThreads : calm[u] => LoadIsFresh(u)'
    BY <1>2, <1>4, <1>11, <2>1, OthersGoOn
  <2>4. \A u \in StoreThreads : Loading(u)' => Loading(u)
    BY <1>2, <1>4, <1>6, OthersGoOn
  <2>5. KeysTell'
    BY <1>7, <2>1, <2>2, <2>4 DEF KeysTell
  <2>6. CacheTells'
    <3> SUFFICES ASSUME \/ keyOf[t] = stamp
                        \/ \E u \in StoreThreads :
                              Loading(u)' /\ calm'[u] /\ keyOf'[u] = keyOf[t]
                 PROVE  CacheIsFresh'
      BY <1>5, <1>7, <1>8 DEF CacheTells
    <3>1. calm[t]
      BY <1>6, <2>1, <2>2, <2>4 DEF KeysTell
    <3> QED BY <1>12, <2>1, <3>1
  <2> QED BY <2>2, <2>3, <2>5, <2>6
<1>14. /\ keyOf'[t] <= stamp /\ manifestCache'[1].key <= stamp
       /\ calm' \in [StoreThreads -> BOOLEAN] /\ begunIn'[t] = begunIn[t]
  BY <1>1, <1>2, <1>5, <1>8 DEF KeysAreOld, PsTypeOK
<1> QED BY <1>2, <1>3, <1>4, <1>6, <1>8, <1>13, <1>14, LoadStepKeeps

-----------------------------------------------------------------------------
(* Other programs, and the clock.                                          *)

LEMMA WorldKeeps ==
  ASSUME PsInv, UNCHANGED <<folderVars, storeCallVars, manifestCache, storePc, calm>>,
         held' \subseteq Names, bucket' \in 0..MaxBucket,
         lastHeld' \in [Names -> NeverHeld..MaxBucket],
         \A n \in Names : lastHeld'[n] >= lastHeld[n],
         HeldIsNow', LoadsAreShort'
  PROVE  PsInv'
<1>1. PsTypeOK /\ Writing /\ KeysAreOld /\ StoreTells
  BY DEF PsInv
<1>2. UNCHANGED <<user, stamp, sameStamp, opOf, keyOf, namesSeen, listed, begunIn>>
  BY DEF folderVars, storeCallVars
<1>3. PsTypeOK'
  BY <1>1, <1>2 DEF PsTypeOK
<1>4. Writing' /\ KeysAreOld'
  BY <1>1, <1>2 DEF Writing, KeysAreOld
<1>5. \A n \in Names : lastHeld'[n] \in Int /\ lastHeld'[n] >= lastHeld[n]
  BY PsAssumption DEF NeverHeld
<1>6. \A t \in StoreThreads : GoesOn(t)
  <2> SUFFICES ASSUME NEW t \in StoreThreads, Loading(t)' PROVE GoesOn(t)
    BY DEF GoesOn
  <2>1. Loading(t)
    BY DEF Loading, Scanning
  <2>2. calm[t] /\ ~sameStamp => LoadIsFresh(t)
    BY <1>1 DEF StoreTells
  <2>3. calm[t] /\ ~sameStamp => LoadIsFresh(t)'
    BY <1>1, <1>2, <1>5, <2>2, LoadStays
  <2> QED BY <1>2, <2>1, <2>3 DEF GoesOn
<1>7. StoreTells'
  BY <1>1, <1>2, <1>5, <1>6, PsNumbers, StillKeeps
<1> QED BY <1>3, <1>4, <1>7 DEF PsInv

LEMMA TakeFileKeeps ==
  ASSUME PsInv, NEW n \in Holdable, TakeFile(n)
  PROVE  PsInv'
<1>1. PsTypeOK /\ HeldIsNow /\ LoadsAreShort
  BY DEF PsInv
<1>2. /\ UNCHANGED <<folderVars, storeCallVars, bucket, manifestCache, storePc, calm>>
      /\ held' = held \union {n} /\ lastHeld' = [lastHeld EXCEPT ![n] = bucket]
  BY DEF TakeFile
<1>n. n \in Names
  BY PsAssumption
<1>3. bucket \in NeverHeld..MaxBucket /\ bucket \in Int
  BY <1>1, PsAssumption DEF PsTypeOK, NeverHeld
<1>4. /\ held' \subseteq Names /\ bucket' \in 0..MaxBucket
      /\ lastHeld' \in [Names -> NeverHeld..MaxBucket]
  BY <1>1, <1>2, <1>3, <1>n DEF PsTypeOK
<1>5. \A m \in Names : lastHeld'[m] = IF m = n THEN bucket ELSE lastHeld[m]
  BY <1>1, <1>2 DEF PsTypeOK
<1>6. \A m \in Names : lastHeld'[m] >= lastHeld[m]
  BY <1>1, <1>3, <1>5, PsNumbers DEF HeldIsNow
<1>7. HeldIsNow'
  BY <1>1, <1>2, <1>3, <1>5 DEF HeldIsNow
<1>8. LoadsAreShort'
  BY <1>1, <1>2 DEF LoadsAreShort, Scanning, storeCallVars
<1> QED BY <1>2, <1>4, <1>6, <1>7, <1>8, WorldKeeps

LEMMA ReleaseFileKeeps ==
  ASSUME PsInv, NEW n \in Holdable, ReleaseFile(n)
  PROVE  PsInv'
<1>1. PsTypeOK /\ HeldIsNow /\ LoadsAreShort
  BY DEF PsInv
<1>2. /\ UNCHANGED <<folderVars, storeCallVars, bucket, lastHeld, manifestCache, storePc, calm>>
      /\ held' = held \ {n}
  BY DEF ReleaseFile
<1>3. held' \subseteq Names /\ bucket' \in 0..MaxBucket /\ lastHeld' \in [Names -> NeverHeld..MaxBucket]
  BY <1>1, <1>2 DEF PsTypeOK
<1>4. \A m \in Names : lastHeld'[m] >= lastHeld[m]
  BY <1>1, <1>2, PsNumbers
<1>5. HeldIsNow'
  BY <1>1, <1>2 DEF HeldIsNow
<1>6. LoadsAreShort'
  BY <1>1, <1>2 DEF LoadsAreShort, Scanning, storeCallVars
<1> QED BY <1>2, <1>3, <1>4, <1>5, <1>6, WorldKeeps

(* No load sees the ends of two periods. *)
LEMMA PeriodEndsKeeps ==
  ASSUME PsInv, PeriodEnds
  PROVE  PsInv'
<1>1. PsTypeOK /\ HeldIsNow /\ LoadsAreShort
  BY DEF PsInv
<1>2. /\ UNCHANGED <<folderVars, storeCallVars, held, manifestCache, storePc, calm>>
      /\ bucket < MaxBucket /\ bucket' = bucket + 1
      /\ lastHeld' = [n \in Names |-> IF n \in held THEN bucket + 1 ELSE lastHeld[n]]
      /\ \A t \in StoreThreads : Scanning(t) => begunIn[t] = bucket
  BY DEF PeriodEnds, Scanning
<1>3. bucket \in 0..MaxBucket /\ bucket \in Int /\ bucket + 1 \in 0..MaxBucket
  BY <1>1, <1>2, PsAssumption DEF PsTypeOK
<1>4. held' \subseteq Names /\ lastHeld' \in [Names -> NeverHeld..MaxBucket]
  <2>1. bucket + 1 \in NeverHeld..MaxBucket
    BY <1>3, PsAssumption DEF NeverHeld
  <2> QED BY <1>1, <1>2, <2>1 DEF PsTypeOK
<1>5. \A n \in Names : lastHeld'[n] >= lastHeld[n]
  BY <1>1, <1>2, <1>3, PsNumbers DEF HeldIsNow
<1>6. HeldIsNow'
  BY <1>1, <1>2, <1>3, PsNumbers DEF HeldIsNow
<1>7. LoadsAreShort'
  <2>1. \A t \in StoreThreads : begunIn'[t] = begunIn[t] /\ (Scanning(t)' <=> Scanning(t))
    BY <1>2 DEF Scanning, storeCallVars
  <2> QED BY <1>1, <1>2, <1>3, <2>1, PsNumbers DEF LoadsAreShort
<1> QED BY <1>2, <1>3, <1>4, <1>5, <1>6, <1>7, WorldKeeps

LEMMA PsInitInv == PsInit => PsInv
<1> SUFFICES ASSUME PsInit PROVE PsInv
  OBVIOUS
<1>1. 0 \in 0..MaxStamp /\ 0 \in 0..MaxBucket /\ NeverHeld \in NeverHeld..MaxBucket
  BY PsAssumption DEF NeverHeld
<1>2. <<>> \in Seq(CacheEntries) /\ Len(<<>>) = 0
  BY EmptySeq
<1>3. user \in [Names -> Titles \union {Absent}]
  BY PsAssumption DEF PsInit, Absent
<1>4. LocalsOK
  BY <1>1, NothingIsEntry DEF PsInit, LocalsOK, StoreLabels
<1>5. PsTypeOK
  <2>1. /\ stamp = 0 /\ sameStamp = FALSE /\ held = {} /\ bucket = 0 /\ manifestCache = <<>>
        /\ lastHeld = [n \in Names |-> NeverHeld] /\ calm = [t \in StoreThreads |-> FALSE]
    BY DEF PsInit
  <2>2. lastHeld \in [Names -> NeverHeld..MaxBucket] /\ calm \in [StoreThreads -> BOOLEAN]
    BY <1>1, <2>1
  <2>3. manifestCache \in Seq(CacheEntries) /\ Len(manifestCache) <= 1
    BY <1>2, <2>1
  <2> QED BY <1>1, <1>3, <1>4, <2>1, <2>2, <2>3 DEF PsTypeOK, LocalsOK
<1>6. \A t \in StoreThreads : ~Loading(t) /\ ~Scanning(t)
  BY DEF PsInit, Loading, Scanning
<1>7. Writing /\ HeldIsNow /\ KeysAreOld
  <2>1. \A t \in StoreThreads : storePc[t] = "idle" /\ keyOf[t] = 0
    BY DEF PsInit
  <2>2. \A n \in Names : lastHeld[n] = -2
    BY DEF PsInit, NeverHeld
  <2>3. held = {} /\ bucket = 0 /\ stamp = 0 /\ manifestCache = <<>>
    BY DEF PsInit
  <2> QED BY <2>1, <2>2, <2>3 DEF Writing, HeldIsNow, KeysAreOld
<1>8. LoadsAreShort
  <2> SUFFICES ASSUME NEW t \in StoreThreads
      PROVE  begunIn[t] <= bucket /\ (Scanning(t) => begunIn[t] >= bucket - 1)
    BY DEF LoadsAreShort
  <2>1. begunIn[t] = 0 /\ bucket = 0
    BY DEF PsInit
  <2>2. begunIn[t] <= bucket
    BY <2>1
  <2> QED BY <1>6, <2>2
<1>9. StoreTells
  BY <1>6 DEF PsInit, StoreTells, KeysTell, CacheTells
<1> QED BY <1>5, <1>7, <1>8, <1>9 DEF PsInv

LEMMA PsStepInv == PsInv /\ [PsNext]_psVars => PsInv'
<1> SUFFICES ASSUME PsInv, [PsNext]_psVars PROVE PsInv'
  OBVIOUS
<1>1. ASSUME NEW t \in StoreThreads,
             BeginCall(t) \/ LookInCache(t) \/ ListNames(t) \/ ReadHeaders(t) \/ InsertList(t)
      PROVE  PsInv'
  BY <1>1, BeginCallKeeps, LookInCacheKeeps, ListNamesKeeps, ReadHeadersKeeps, InsertListKeeps
<1>2. ASSUME NEW t \in StoreThreads,
             HandList(t) \/ CompareText(t) \/ RenameFile(t) \/ DeleteFile(t)
      PROVE  PsInv'
  BY <1>2, HandListKeeps, CompareTextKeeps, RenameFileKeeps, DeleteFileKeeps
<1>3. ASSUME NEW t \in StoreThreads, WriteTemp(t) \/ ReplaceFile(t) \/ DropCache(t)
      PROVE  PsInv'
  BY <1>3, WriteTempKeeps, ReplaceFileKeeps, DropCacheKeeps
<1>4. ASSUME NEW n \in Holdable, TakeFile(n) \/ ReleaseFile(n)
      PROVE  PsInv'
  BY <1>4, TakeFileKeeps, ReleaseFileKeeps
<1>5. CASE PeriodEnds
  BY <1>5, PeriodEndsKeeps
<1>6. CASE UNCHANGED psVars
  <2>1. UNCHANGED <<folderVars, heldVars, storeCallVars, manifestCache, storePc, calm>>
    BY <1>6 DEF psVars
  <2>2. PsTypeOK /\ HeldIsNow /\ LoadsAreShort
    BY DEF PsInv
  <2>3. UNCHANGED <<held, bucket, lastHeld, begunIn>>
    BY <2>1 DEF heldVars, storeCallVars
  <2>4. HeldIsNow' /\ LoadsAreShort'
    BY <2>1, <2>2, <2>3 DEF HeldIsNow, LoadsAreShort, Scanning
  <2>5. \A n \in Names : lastHeld'[n] >= lastHeld[n]
    BY <2>2, <2>3, PsNumbers
  <2> QED BY <2>1, <2>2, <2>3, <2>4, <2>5, WorldKeeps DEF PsTypeOK
<1> QED BY <1>1, <1>2, <1>3, <1>4, <1>5, <1>6 DEF PsNext

LEMMA PsInvariant == PsSpec => []PsInv
<1>1. PsInit => PsInv
  BY PsInitInv
<1>2. PsInv /\ [PsNext]_psVars => PsInv'
  BY PsStepInv
<1> QED BY <1>1, <1>2, PTL DEF PsSpec

(* The store keeps its types whatever its threads do at once. *)
THEOREM PsTypeCorrect == PsSpec => []PsTypeOK
<1>1. PsInv => PsTypeOK
  BY DEF PsInv
<1> QED BY <1>1, PsInvariant, PTL

(* Whatever the threads put into the cache, and whenever: a list loaded in *)
(* a folder that kept still is that folder, but for files other programs   *)
(* held since the period before the load began.                            *)
THEOREM ListsAreFresh == PsSpec => []ListIsFresh
<1>1. PsInv => ListIsFresh
  <2> SUFFICES ASSUME PsInv, NEW t \in StoreThreads, At(t, "loaded"), calm[t], ~sameStamp,
                      NEW n \in Names
      PROVE  FreshEntry(listed[t][n], n, begunIn[t] - 1)
    BY DEF ListIsFresh, FreshEntry
  <2>1. LoadIsFresh(t)
    BY DEF PsInv, StoreTells
  <2> QED BY <2>1 DEF LoadIsFresh, FreshList, At
<1> QED BY <1>1, PsInvariant, PTL
==============================================================================
