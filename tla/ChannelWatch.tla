---------------------------- MODULE ChannelWatch ----------------------------
(***************************************************************************)
(* The three loops that poll LND's channels with one peer while they open  *)
(* and close: subscribeToPendingChannels, which tells of the channels that *)
(* are new since its last poll, stopAllHtlcs, which refuses forwards until *)
(* a channel is gone, and waitForPendingOpen, which tries a number of      *)
(* times. LND's answer to a poll is a snapshot that is used later.         *)
(***************************************************************************)
EXTENDS Naturals

CONSTANTS
  Channels,  \* the channels with the peer, past and future
  Target,    \* the one stopAllHtlcs waits for, and waitForPendingOpen looks for
  Elsewhere, \* a channel of another peer
  Times      \* attempts of waitForPendingOpen

WatchAssumption ==
  /\ Target \in Channels
  /\ Elsewhere \notin Channels
  /\ Times \in Nat \ {0}

VARIABLES life, heard, monitor, told, stop, young, passed, hunt

vars == <<life, heard, monitor, told, stop, young, passed, hunt>>

Lives == {"none", "opening", "open", "closing", "closed"}
Kinds == {"closing", "opening"}

In(states) == {k \in Channels : life[k] \in states}

NoMemory == [kind \in {} |-> {}]
Nothing == [kind \in Kinds |-> {}]

\* The loops share nothing but the channels: at most one of them runs
Running(loop) ==
  LET at(name, stage) == IF loop = name THEN stage ELSE "off"
  IN  /\ monitor = [at |-> at("monitor", "polling"), seen |-> Nothing,
                    memory |-> NoMemory, first |-> Nothing]
      /\ stop = [at |-> at("stop", "idle"), seen |-> {}, block |-> {},
                 listening |-> FALSE, result |-> "none"]
      /\ hunt = [at |-> at("hunt", "polling"), seen |-> FALSE, tries |-> 0]
      /\ told = [kind \in Kinds |-> [k \in Channels |-> 0]]
      /\ young = {}
      /\ passed = {}

Init ==
  /\ life \in [Channels -> {"none", "opening", "open"}]
  /\ heard \in BOOLEAN
  /\ \E loop \in {"monitor", "stop", "hunt"} : Running(loop)

\* A channel is proposed, opened, closed, or its opening is given up
Follows(k) ==
  CASE life[k] = "none" -> {"opening"}
    [] life[k] = "opening" -> {"open", "closed"}
    [] life[k] = "open" -> {"closing"}
    [] life[k] = "closing" -> {"closed"}
    [] life[k] = "closed" -> {}

\* `young' are the channels opened since stopAllHtlcs last asked for the list
Moves(k) ==
  /\ \E next \in Follows(k) :
       /\ life' = [life EXCEPT ![k] = next]
       /\ young' = IF next = "open" THEN young \cup {k} ELSE young
  /\ UNCHANGED <<heard, monitor, told, stop, passed, hunt>>

\* Someone listens to the monitor's events, or no longer
AudienceTurns ==
  /\ monitor.at # "off"
  /\ heard' = ~heard
  /\ UNCHANGED <<life, monitor, told, stop, young, passed, hunt>>

(***************************************************************************)
(* subscribeToPendingChannels                                              *)
(***************************************************************************)
Pending == [kind \in Kinds |-> In({kind})]

MonitorPoll ==
  /\ monitor.at = "polling"
  /\ monitor' = [monitor EXCEPT !.at = "answered", !.seen = Pending]
  /\ UNCHANGED <<life, heard, told, stop, young, passed, hunt>>

\* A mistake: every poll is the first
NothingRemembered == Nothing

Remembered ==
  IF monitor.memory = NoMemory THEN Nothing ELSE monitor.memory

\* A mistake: the two kinds have one memory
FreshOfEither(kind) ==
  monitor.seen[kind] \ (Remembered["closing"] \cup Remembered["opening"])

\* The channels of a kind that are in this answer and not in the last one
Fresh(kind) == monitor.seen[kind] \ Remembered[kind]

\* The first answer is only remembered (`first' keeps it, for the properties);
\* with no listener the polling stops for good; otherwise each new channel is
\* told once (counted up to two)
MonitorTell ==
  /\ monitor.at = "answered"
  /\ LET first == monitor.memory = NoMemory
     IN  /\ monitor' = [at |-> IF first \/ heard THEN "resting" ELSE "ended",
                        seen |-> Nothing, memory |-> monitor.seen,
                        first |-> IF first THEN monitor.seen ELSE monitor.first]
         /\ told' = [kind \in Kinds |-> [k \in Channels |->
              IF ~first /\ heard /\ k \in Fresh(kind) /\ told[kind][k] < 2
              THEN told[kind][k] + 1
              ELSE told[kind][k]]]
  /\ UNCHANGED <<life, heard, stop, young, passed, hunt>>

MonitorTimer ==
  /\ monitor.at = "resting"
  /\ monitor' = [monitor EXCEPT !.at = "polling"]
  /\ UNCHANGED <<life, heard, told, stop, young, passed, hunt>>

\* A failed poll ends the loop, with an 'error' event for who listens to it
MonitorFails ==
  /\ monitor.at = "polling"
  /\ monitor' = [monitor EXCEPT !.at = "ended"]
  /\ UNCHANGED <<life, heard, told, stop, young, passed, hunt>>

(***************************************************************************)
(* stopAllHtlcs                                                            *)
(***************************************************************************)
StopBecomes(s) ==
  /\ stop' = s
  /\ UNCHANGED <<life, heard, monitor, told, hunt>>

StopStart ==
  /\ stop.at = "idle"
  /\ \E ids \in SUBSET In({"open"}) :
       /\ StopBecomes([stop EXCEPT !.at = "polling", !.block = ids, !.listening = TRUE])
       /\ young' = In({"open"}) \ ids
  /\ UNCHANGED passed

StopPoll ==
  /\ stop.at = "polling"
  /\ StopBecomes([stop EXCEPT !.at = "answered", !.seen = In({"open"})])
  /\ young' = {}
  /\ UNCHANGED passed

\* New channels are blocked too; when the target is gone the listeners go
StopHandle ==
  /\ stop.at = "answered"
  /\ LET gone == Target \notin stop.seen
     IN  StopBecomes([stop EXCEPT
           !.at = IF gone THEN "done" ELSE "resting",
           !.seen = {},
           !.block = stop.block \cup stop.seen,
           !.listening = ~gone,
           !.result = IF gone THEN "ok" ELSE "none"])
  /\ passed' = {}
  /\ UNCHANGED young

StopTimer ==
  /\ stop.at = "resting"
  /\ StopBecomes([stop EXCEPT !.at = "polling"])
  /\ UNCHANGED <<young, passed>>

\* A failed poll ends the loop and leaves the listener with its block list
StopFails ==
  /\ stop.at = "polling"
  /\ StopBecomes([stop EXCEPT !.at = "done", !.result = "failed"])
  /\ UNCHANGED <<young, passed>>

\* A forward request is refused when either side of it is blocked; `passed' are
\* the sides of those let through since the last list was used
Forward(a, b) ==
  /\ stop.listening
  /\ {a, b} \subseteq In({"open"}) \cup {Elsewhere}
  /\ a \notin stop.block
  /\ b \notin stop.block
  /\ passed' = passed \cup {a, b}
  /\ UNCHANGED <<life, heard, monitor, told, stop, young, hunt>>

(***************************************************************************)
(* waitForPendingOpen                                                      *)
(***************************************************************************)
HuntBecomes(h) ==
  /\ hunt' = h
  /\ UNCHANGED <<life, heard, monitor, told, stop, young, passed>>

\* A failed call counts as an attempt like a list without the channel
HuntPoll ==
  /\ hunt.at = "polling"
  /\ \E found \in {FALSE, life[Target] = "opening"} :
       HuntBecomes([hunt EXCEPT !.at = "answered", !.seen = found])

\* A mistake: attempts are not counted
HuntOnAndOn ==
  /\ hunt.at = "answered"
  /\ HuntBecomes([hunt EXCEPT !.at = IF hunt.seen THEN "found" ELSE "polling"])

HuntHandle ==
  /\ hunt.at = "answered"
  /\ HuntBecomes(
       IF hunt.seen THEN [hunt EXCEPT !.at = "found"]
       ELSE [hunt EXCEPT !.at = IF hunt.tries + 1 = Times THEN "failed" ELSE "polling",
                         !.tries = @ + 1])

MonitorStep == MonitorPoll \/ MonitorTell \/ MonitorTimer
StopStep == StopPoll \/ StopHandle \/ StopTimer
HuntStep == HuntPoll \/ HuntHandle

Next ==
  \/ \E k \in Channels : Moves(k)
  \/ AudienceTurns
  \/ MonitorStep
  \/ MonitorFails
  \/ StopStart
  \/ StopStep
  \/ StopFails
  \/ \E a, b \in Channels \cup {Elsewhere} : Forward(a, b)
  \/ HuntStep

-----------------------------------------------------------------------------
TypeOK ==
  /\ life \in [Channels -> Lives]
  /\ heard \in BOOLEAN
  /\ monitor \in [at : {"off", "polling", "answered", "resting", "ended"},
                  seen : [Kinds -> SUBSET Channels],
                  memory : [Kinds -> SUBSET Channels] \cup {NoMemory},
                  first : [Kinds -> SUBSET Channels]]
  /\ told \in [Kinds -> [Channels -> 0..2]]
  /\ stop \in [at : {"off", "idle", "polling", "answered", "resting", "done"},
               seen : SUBSET Channels, block : SUBSET Channels,
               listening : BOOLEAN, result : {"none", "ok", "failed"}]
  /\ young \subseteq Channels
  /\ passed \subseteq Channels \cup {Elsewhere}
  /\ hunt \in [at : {"off", "polling", "answered", "found", "failed"},
               seen : BOOLEAN, tries : 0..Times]

\* No channel is told twice as opening or twice as closing, and none at all as
\* what it was at the first poll, nor before it, even when it is missing from an
\* answer later on
ToldOnce ==
  \A kind \in Kinds, k \in Channels :
    /\ told[kind][k] <= 1
    /\ monitor.memory = NoMemory \/ k \in monitor.first[kind] => told[kind][k] = 0

\* The listener of stopAllHtlcs lasts as long as its loop, and longer only when
\* a poll has failed: the forwards of the blocked channels are then refused
\* although the call has ended
ListenerOutlivesOnlyAFailure ==
  /\ stop.at \in {"polling", "answered", "resting"} => stop.listening
  /\ (stop.listening /\ stop.at = "done") => stop.result = "failed"

\* Between the use of one list and the asking for the next, stopAllHtlcs lets
\* a forward through a channel of the peer only if it opened since the list
OnlyYoungChannelsPass ==
  stop.at \in {"resting", "polling"} => passed \cap Channels \subseteq young

\* The monitor's memory and the block list, whatever happens to the channels
\* between two polls: TypeOK and the facts above
WatchInv ==
  /\ TypeOK
  /\ ToldOnce
  /\ ListenerOutlivesOnlyAFailure
  /\ OnlyYoungChannelsPass

\* A closing that lasts is told to those who keep listening, unless a failed
\* poll has ended the monitor or the channel was closing when it began
ClosingIsTold ==
  \A k \in Channels :
    (monitor.memory # NoMemory /\ k \notin monitor.memory["closing"]
       /\ life[k] = "closing")
      ~> (told["closing"][k] = 1 \/ life[k] = "closed" \/ ~heard \/ monitor.at = "ended")

\* The hunt ends after its attempts, and a stop ends once its target is gone
WatchCallsEnd ==
  /\ hunt.at = "polling" ~> hunt.at \in {"found", "failed"}
  /\ (stop.listening /\ life[Target] \in {"closing", "closed"}) ~> stop.at = "done"

Fairness == WF_vars(MonitorStep) /\ WF_vars(StopStep) /\ WF_vars(HuntStep)

Spec == Init /\ [][Next]_vars /\ Fairness
=============================================================================
