----------------------------- MODULE MCErrands ------------------------------
(***************************************************************************)
(* Seven scenes of one instance, each with processes that wait for others: *)
(* sign-ins through the relay, the verified host that moves, a round of    *)
(* Who Said That?, the messages of one client, the alarms of two windows,  *)
(* a window with its threads, and the sounds of two windows.  A behaviour  *)
(* stays in the scene it begins in.                                        *)
(***************************************************************************)
EXTENDS Naturals, TLC

CONSTANTS Attempt, MaxWaiters, MaxBusy, NoAttempt, MaxCallbacks,     \* SignIn
          Seat, Client, First, MaxGen, MaxDeaths, NoSeat,            \* HostMove
          Players, Leader, Seconds, Late,                            \* BluffRound
          Cooldown, Spacing, MaxTargets, Horizon, MaxSent,           \* DirectMessages
          Window, MaxAlarms, MaxFired, Length, Every, Week, Wall,    \* AlarmClock
          LastDue, LastTick, MaxMade, MaxTurns,
          InboxSize, MaxPending, MaxEdits, MaxSignins, MaxWire,      \* HQWindow
          w1, Lists, Exam, Usual, Changed, Fresh, Manual, LastHour, MaxIssued  \* QuietHours

VARIABLES scene,
          step, waiters, flows, serving, tokens, sessions, got, file,  \* SignIn
          clearing, since, calls,
          settings, trust, applied, gen, login, moved, mind, service,  \* HostMove
          published, copy, client, served, deaths,
          now, phase, deadline, present, answers, options, votes, scores,  \* BluffRound
          last, main, session, batch, log,                           \* DirectMessages
          alarms, held, open, made, rung,                            \* AlarmClock
          turn, conn, inbox, signing, threads, dead, arrived,        \* HQWindow
          policy, granted, offered, pending, active, asked, wizard, ran,
          edits, signins, wired,
          calendar, sources, manual, issued, mail, heard, newest,    \* QuietHours
          sound, autoFile, auto, asking, quiet, noise

Flow == INSTANCE SignIn
Move == INSTANCE HostMove
Bluff == INSTANCE BluffRound
Texts == INSTANCE DirectMessages
Alarm == INSTANCE AlarmClock WITH Horizon <- LastTick
HQ == INSTANCE HQWindow WITH phase <- turn
Hours == INSTANCE QuietHours
             WITH MaxEdits <- Changed, Horizon <- LastHour, file <- heard, Kind <- Lists,
                  Default <- Usual

ASSUME SceneAssumption == /\ Flow!SignInAssumption /\ Move!MoveAssumption /\ Bluff!BluffAssumption
                          /\ Texts!DirectAssumption /\ Alarm!ClockAssumption /\ Hours!HoursAssumption

\* Quiet hours of an instance: one exam, and the hours of the usual exams.
OneExam == {<<1, 2>>}
FirstHour == {<<0, 1>>}

flow == <<step, waiters, flows, serving, tokens, sessions, got, file, clearing, since, calls>>
move == <<settings, trust, applied, gen, login, moved, mind, service,
          published, copy, client, served, deaths>>
round == <<phase, deadline, present, answers, options, votes, scores>>
texts == <<last, main, session, batch, log>>
clock == <<alarms, held, open, made, rung>>
hq == <<turn, conn, inbox, signing, threads, dead, arrived, policy, granted, offered,
        pending, active, asked, wizard, ran, signins, wired>>
hours == <<calendar, sources, manual, issued, mail, heard, newest,
           sound, autoFile, auto, asking, quiet, noise>>
owner == <<flow, move>>
talk == <<round, texts>>
home == <<clock, hq>>
vars == <<scene, now, edits, owner, talk, home, hours>>

Signing(A) == scene = "flow" /\ A /\ UNCHANGED <<scene, now, edits, move, talk, home, hours>>
Moving(A) == scene = "move" /\ A /\ UNCHANGED <<scene, now, edits, flow, talk, home, hours>>
Asked(A) == scene = "round" /\ A /\ UNCHANGED <<scene, edits, owner, texts, home, hours>>
Written(A) == scene = "texts" /\ A /\ UNCHANGED <<scene, edits, owner, round, home, hours>>
Timed(A) == scene = "clock" /\ A /\ UNCHANGED <<scene, edits, owner, talk, hq, hours>>
Shown(A) == scene = "window" /\ A /\ UNCHANGED <<scene, now, owner, talk, clock, hours>>
Sounded(A) == scene = "quiet" /\ A /\ UNCHANGED <<scene, owner, talk, home>>

MCInit == /\ scene \in {"flow", "move", "round", "texts", "clock", "window", "quiet"}
          /\ Flow!Init /\ Move!Init /\ Bluff!Init /\ Texts!Init /\ Alarm!Init /\ HQ!Init
          /\ Hours!Init
MCNext == \/ Signing(Flow!Next) \/ Moving(Move!Next) \/ Asked(Bluff!Next) \/ Written(Texts!Next)
          \/ Timed(Alarm!Next) \/ Shown(HQ!Next) \/ Sounded(Hours!Next)

\* The fairness of the seven specifications.  A behaviour has one scene, so that
\* one condition serves a process of each of them.
Leading == \/ Signing(\E n \in Attempt : Flow!Goes(n) \/ Flow!Relay(n))
          \/ Moving(Move!Serve(First) \/ Move!Stop(First))
          \/ Asked(Bluff!Clock) \/ Written(Texts!Tick) \/ Timed(Alarm!Tick)
          \/ Shown(HQ!Consume \/ HQ!Turn \/ HQ!Key)
          \/ Sounded(Hours!Turn(w1))
Following == \/ Moving(\E s \in Seat \ {First} : Move!Serve(s) \/ Move!Stop(s))
          \/ Asked(Bluff!Poll) \/ Written(Texts!Batch) \/ Timed(\E w \in Window : Alarm!Save(w))
          \/ Shown(\E kind \in {"resume", "browser"} : HQ!ThreadEnds(kind))
          \/ \E w \in Window \ {w1} : Sounded(Hours!Turn(w))
MCSpec == /\ MCInit /\ [][MCNext]_vars /\ WF_vars(Leading) /\ WF_vars(Following)
          /\ SF_vars(Timed(Alarm!Looks)) /\ SF_vars(Timed(Alarm!Rings))

\* A code reaches its own attempt, although windows share the relay (SignIn).
OnlyItsCode == Flow!OnlyItsCode
\* A sign-out takes its own session, or one saved while it was looking (SignIn).
NewerKept == Flow!NewerKept
\* dailylogin trusts no older service, clients no unproved seat (HostMove).
Followed == Move!Followed
\* A phase ends at its deadline or when every player is done (BluffRound).
NobodyCutOff == Bluff!NobodyCutOff
\* Texts of one client are a cooldown apart (DirectMessages).
TextsSpaced == Texts!TextsSpaced
\* The summary of a batch counts every recipient once (DirectMessages).
SummaryComplete == Texts!SummaryComplete
\* A turn of an entry rings once, and a timer when it has run its time (AlarmClock).
RungInTime == Alarm!RungInTime
\* Decisions are carried out on a yes, popups by their policy (HQWindow).
Consent == HQ!Consent
\* No sound in quiet hours, nor one that was turned off (QuietHours).
Hushed == Hours!Hushed
\* Whatever is waited for comes, in every scene: an attempt to sign in and its
\* entry in the relay end, old seats stop serving, rounds are decided and
\* batches sent, entries that are due ring, "already waiting" ends, and windows
\* come to tell of quiet hours.
NothingHangs == []<>(/\ scene = "flow" => Flow!AllEnded
                     /\ scene = "move" => Move!OneGeneration
                     /\ scene = "round" => Bluff!Decided
                     /\ scene = "texts" => Texts!BatchOver
                     /\ scene = "clock" => Alarm!NothingOverdue
                     /\ scene = "window" => HQ!SignInOver
                     /\ scene = "quiet" => Hours!TellsQuiet)
=============================================================================
