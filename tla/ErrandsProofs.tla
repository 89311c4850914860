---------------------------- MODULE ErrandsProofs ---------------------------
(***************************************************************************)
(* Proofs about the seven scenes of MCErrands.  They are about the         *)
(* specifications of its instances, for all values of their constants that *)
(* their assumptions allow, and not about the instance of the run.         *)
(***************************************************************************)
EXTENDS MCErrands, Integers, Sequences, FiniteSetTheorems, WellFoundedInduction, TLAPS

(* Sign-ins through the relay (SignIn). *)

\* Counting is counting, also where the client is an instance.
LEMMA Waiters == \A S : Flow!Cardinality(S) = Cardinality(S)
BY DEF Flow!Cardinality, Cardinality

RelayEntry == {Flow!NoEntry, Flow!OpenEntry} \cup [at : {"set"}, what : {"code", "error"}, of : Attempt]

SignInForm == /\ step \in [Attempt -> {"new", "begun", "registered", "opened", "code",
                                       "exchanging", "answered", "done", "failed"}]
              /\ waiters \in [Attempt -> RelayEntry]
              /\ got \in [Attempt -> Attempt \cup {NoAttempt}]
              /\ file \in Attempt \cup {NoAttempt}
              /\ clearing \subseteq Attempt /\ since \in [Attempt -> SUBSET Attempt]

\* What a callback put into an entry is for the attempt that waits with it.
OwnCallback == \A a \in Attempt : waiters[a].at = "set" => waiters[a].of = a
OwnCode == \A a \in Attempt : got[a] \in {a, NoAttempt}
RoomKept == IsFiniteSet(Flow!Waiting) /\ Cardinality(Flow!Waiting) <= MaxWaiters
SavedDone == file # NoAttempt => step[file] = "done"

\* What is in the file was there when a sign-out looked, or was saved since.
SeenOrSince == \A b \in clearing : file \in {b, NoAttempt} \cup since[b]

SignInInv == SignInForm /\ OwnCallback /\ OwnCode /\ RoomKept /\ SavedDone /\ SeenOrSince

LEMMA EntryKinds == /\ Flow!NoEntry \in RelayEntry /\ Flow!OpenEntry \in RelayEntry
                    /\ Flow!NoEntry.at = "none" /\ Flow!OpenEntry.at = "open"
                    /\ \A e \in RelayEntry : /\ e.at = "none" => e = Flow!NoEntry
                                             /\ e.at = "open" => e = Flow!OpenEntry
                                             /\ e.at = "set" => e.what \in {"code", "error"}
BY DEF RelayEntry, Flow!NoEntry, Flow!OpenEntry

LEMMA FormInit == Flow!Init => SignInForm
BY DEF Flow!Init, SignInForm, RelayEntry

LEMMA CallbackType == ASSUME SignInForm, NEW a \in Attempt, Flow!Callback(a)
                      PROVE  waiters' \in [Attempt -> RelayEntry]
<1>1. PICK r \in {"code", "error"} :
         waiters' = [w \in Attempt |-> IF w \in Flow!Due(a) THEN [at |-> "set", what |-> r, of |-> a] ELSE waiters[w]]
  BY DEF Flow!Callback
<1>2. [at |-> "set", what |-> r, of |-> a] \in RelayEntry
  BY DEF RelayEntry
<1> QED BY <1>1, <1>2 DEF SignInForm

LEMMA SignInFormStep == ASSUME SignInForm, [Flow!Next]_Flow!vars PROVE SignInForm'
<1>1. CASE UNCHANGED Flow!vars
  BY <1>1 DEF Flow!vars, Flow!stored, SignInForm
<1>2. CASE Flow!Restart
  BY <1>2 DEF Flow!Restart, SignInForm, RelayEntry, Flow!stored
<1>3. ASSUME NEW a \in Attempt,
             Flow!Begin(a) \/ Flow!OpenBrowser(a) \/ Flow!Quit(a) \/ Flow!Exchange(a)
      PROVE  SignInForm'
  BY <1>3 DEF Flow!Begin, Flow!OpenBrowser, Flow!Quit, Flow!Exchange, Flow!To, Flow!stored,
     SignInForm
<1>4. ASSUME NEW a \in Attempt, Flow!Register(a) \/ Flow!Forward(a) \/ Flow!Expire(a)
      PROVE  SignInForm'
  <2>1. waiters' \in [Attempt -> RelayEntry]
    BY <1>4, EntryKinds DEF Flow!Register, Flow!Forward, Flow!Expire, Flow!Forget, SignInForm
  <2>2. UNCHANGED Flow!stored /\ got' \in [Attempt -> Attempt \cup {NoAttempt}]
    <3>1. CASE Flow!Forward(a)
      <4>1. Flow!Result(a) => waiters[a].of \in Attempt
        BY DEF Flow!Result, SignInForm, RelayEntry, Flow!NoEntry, Flow!OpenEntry
      <4> QED BY <3>1, <4>1 DEF Flow!Forward, SignInForm
    <3> QED BY <1>4, <3>1 DEF Flow!Register, Flow!Expire, SignInForm
  <2>3. step' \in [Attempt -> {"new", "begun", "registered", "opened", "code",
                               "exchanging", "answered", "done", "failed"}]
    BY <1>4 DEF Flow!Register, Flow!Forward, Flow!Expire, Flow!To, SignInForm
  <2> QED BY <2>1, <2>2, <2>3 DEF Flow!stored, SignInForm
<1>5. ASSUME NEW a \in Attempt, Flow!Callback(a) PROVE SignInForm'
  BY <1>5, CallbackType DEF Flow!Callback, Flow!stored, SignInForm
<1>6. ASSUME NEW a \in Attempt, Flow!Identified(a) \/ Flow!SignOut(a) \/ Flow!Unlink(a)
      PROVE  SignInForm'
  BY <1>6 DEF Flow!Identified, Flow!SignOut, Flow!Unlink, Flow!To, Flow!stored, SignInForm
<1>7. ASSUME NEW a \in Attempt, Flow!Save(a) PROVE SignInForm'
  <2>1. since' \in [Attempt -> SUBSET Attempt]
    BY <1>7 DEF Flow!Save, SignInForm
  <2> QED BY <1>7, <2>1 DEF Flow!Save, Flow!To, SignInForm
<1>8. CASE Flow!Relocate
  BY <1>8 DEF Flow!Relocate, SignInForm
<1> QED BY <1>1, <1>2, <1>3, <1>4, <1>5, <1>6, <1>7, <1>8 DEF Flow!Next

LEMMA SignInInit == Flow!SignInAssumption /\ Flow!Init => SignInInv
<1> SUFFICES ASSUME Flow!SignInAssumption, Flow!Init PROVE SignInInv
  OBVIOUS
<1>1. Flow!Waiting = {}
  BY DEF Flow!Init, Flow!Waiting
<1>2. IsFiniteSet({}) /\ Cardinality({}) = 0
  BY FS_EmptySet
<1>3. RoomKept
  BY <1>1, <1>2 DEF RoomKept, Flow!SignInAssumption
<1> QED BY <1>3, FormInit DEF Flow!Init, SignInInv, OwnCallback, OwnCode, SavedDone, SeenOrSince,
           Flow!NoEntry

\* The relay compares the state of a callback, so that it reaches its own entry.
LEMMA OwnCallbackStep == ASSUME SignInForm, OwnCallback, [Flow!Next]_Flow!vars PROVE OwnCallback'
<1>1. CASE waiters' = waiters
  BY <1>1 DEF OwnCallback
<1>2. CASE Flow!Restart
  BY <1>2 DEF Flow!Restart, OwnCallback, Flow!NoEntry
<1>3. ASSUME NEW a \in Attempt, Flow!Register(a) \/ Flow!Forward(a) \/ Flow!Expire(a)
      PROVE  OwnCallback'
  BY <1>3 DEF Flow!Register, Flow!Forward, Flow!Expire, Flow!Forget, OwnCallback, SignInForm,
     Flow!NoEntry, Flow!OpenEntry
<1>4. ASSUME NEW a \in Attempt, Flow!Callback(a) PROVE OwnCallback'
  BY <1>4 DEF Flow!Callback, Flow!Due, OwnCallback, SignInForm
<1>5. ASSUME NEW a \in Attempt, \/ Flow!Begin(a) \/ Flow!OpenBrowser(a) \/ Flow!Quit(a) \/ Flow!Exchange(a)
                                \/ Flow!Identified(a) \/ Flow!Save(a) \/ Flow!SignOut(a) \/ Flow!Unlink(a)
      PROVE  waiters' = waiters
  BY <1>5 DEF Flow!Begin, Flow!OpenBrowser, Flow!Quit, Flow!Exchange, Flow!Identified, Flow!Save,
     Flow!SignOut, Flow!Unlink
<1> QED BY <1>1, <1>2, <1>3, <1>4, <1>5 DEF Flow!Next, Flow!vars, Flow!Relocate

LEMMA OwnCodeStep == ASSUME SignInForm, OwnCallback, OwnCode, [Flow!Next]_Flow!vars PROVE OwnCode'
<1>1. CASE got' = got
  BY <1>1 DEF OwnCode
<1>2. ASSUME NEW a \in Attempt, Flow!Forward(a) PROVE OwnCode'
  BY <1>2 DEF Flow!Forward, Flow!Result, OwnCallback, OwnCode, SignInForm
<1>3. ASSUME NEW a \in Attempt, \/ Flow!Begin(a) \/ Flow!Register(a) \/ Flow!OpenBrowser(a) \/ Flow!Callback(a) \/ Flow!Expire(a)
                                \/ Flow!Quit(a) \/ Flow!Exchange(a) \/ Flow!Identified(a) \/ Flow!Save(a) \/ Flow!SignOut(a) \/ Flow!Unlink(a)
      PROVE  got' = got
  BY <1>3 DEF Flow!Begin, Flow!Register, Flow!OpenBrowser, Flow!Callback, Flow!Expire, Flow!Quit,
     Flow!Exchange, Flow!Identified, Flow!Save, Flow!SignOut,
                Flow!Unlink
<1> QED BY <1>1, <1>2, <1>3 DEF Flow!Next, Flow!vars, Flow!Restart, Flow!Relocate

\* Only a registration adds an entry, and it looked for room in the same turn.
LEMMA RoomStep == ASSUME Flow!SignInAssumption, SignInForm, RoomKept, [Flow!Next]_Flow!vars
                  PROVE  RoomKept'
<1>0. Cardinality(Flow!Waiting) \in Nat
  BY FS_CardinalityType DEF RoomKept
<1>1. ASSUME Flow!Waiting' \subseteq Flow!Waiting PROVE RoomKept'
  BY <1>0, <1>1, FS_Subset, FS_CardinalityType DEF RoomKept, Flow!SignInAssumption
<1>2. ASSUME NEW a \in Attempt, Flow!Register(a) PROVE RoomKept'
  <2>1. CASE Flow!Room /\ waiters' = [waiters EXCEPT ![a] = Flow!OpenEntry]
    <3>1. Flow!Waiting' = Flow!Waiting \cup {a}
      BY <2>1 DEF Flow!Waiting, SignInForm, Flow!NoEntry, Flow!OpenEntry
    <3>2. /\ IsFiniteSet(Flow!Waiting')
          /\ Cardinality(Flow!Waiting') \in {Cardinality(Flow!Waiting), Cardinality(Flow!Waiting) + 1}
      BY <3>1, FS_AddElement DEF RoomKept
    <3> QED BY <1>0, <2>1, <3>2, Waiters DEF Flow!Room, RoomKept, Flow!SignInAssumption
  <2>2. CASE waiters' = waiters
    BY <1>1, <2>2 DEF Flow!Waiting
  <2> QED BY <1>2, <2>1, <2>2 DEF Flow!Register
<1>3. ASSUME NEW a \in Attempt, Flow!Forward(a) \/ Flow!Expire(a) \/ Flow!Callback(a)
      PROVE  Flow!Waiting' \subseteq Flow!Waiting
  BY <1>3 DEF Flow!Forward, Flow!Expire, Flow!Forget, Flow!Callback, Flow!Due, Flow!Waiting,
     SignInForm, Flow!NoEntry, Flow!OpenEntry
<1>4. Flow!Restart \/ waiters' = waiters => Flow!Waiting' \subseteq Flow!Waiting
  BY DEF Flow!Restart, Flow!Waiting
<1>5. ASSUME NEW a \in Attempt, \/ Flow!Begin(a) \/ Flow!OpenBrowser(a) \/ Flow!Quit(a) \/ Flow!Exchange(a)
                                \/ Flow!Identified(a) \/ Flow!Save(a) \/ Flow!SignOut(a) \/ Flow!Unlink(a)
      PROVE  waiters' = waiters
  BY <1>5 DEF Flow!Begin, Flow!OpenBrowser, Flow!Quit, Flow!Exchange, Flow!Identified, Flow!Save,
     Flow!SignOut, Flow!Unlink
<1> QED BY <1>1, <1>2, <1>3, <1>4, <1>5 DEF Flow!Next, Flow!vars, Flow!Relocate

\* The file names a window that is done with signing in.
LEMMA SavedDoneStep == ASSUME Flow!SignInAssumption, SignInForm, SavedDone, [Flow!Next]_Flow!vars
                       PROVE  SavedDone'
<1>1. CASE UNCHANGED Flow!vars
  BY <1>1 DEF Flow!vars, Flow!stored, SavedDone
<1>2. CASE Flow!Restart
  BY <1>2 DEF Flow!Restart, Flow!Listening, Flow!stored, SavedDone, SignInForm
<1>3. ASSUME NEW a \in Attempt, \/ Flow!Begin(a) \/ Flow!Register(a) \/ Flow!OpenBrowser(a) \/ Flow!Callback(a)
                                \/ Flow!Forward(a) \/ Flow!Expire(a)
      PROVE  SavedDone'
  BY <1>3 DEF Flow!Begin, Flow!Register, Flow!OpenBrowser, Flow!Callback, Flow!Forward, Flow!Expire,
     Flow!To, Flow!Listening, Flow!stored, SavedDone,
              SignInForm
<1>4. ASSUME NEW a \in Attempt, Flow!Quit(a) \/ Flow!Exchange(a) \/ Flow!Identified(a)
      PROVE  SavedDone'
  BY <1>4 DEF Flow!Quit, Flow!Exchange, Flow!Identified, Flow!To, Flow!Ended, Flow!stored,
     SavedDone, SignInForm
<1>5. ASSUME NEW a \in Attempt, Flow!Save(a) \/ Flow!SignOut(a) \/ Flow!Unlink(a) PROVE SavedDone'
  BY <1>5 DEF Flow!Save, Flow!SignOut, Flow!Unlink, Flow!To, SavedDone, SignInForm,
     Flow!SignInAssumption
<1>6. CASE Flow!Relocate
  BY <1>6 DEF Flow!Relocate, SavedDone
<1> QED BY <1>1, <1>2, <1>3, <1>4, <1>5, <1>6 DEF Flow!Next

\* A sign-out that found its session in the file knows what is there until it unlinks the
\* file, but for what is saved after it looked.
LEMMA SeenOrSinceStep == ASSUME SignInForm, SeenOrSince, [Flow!Next]_Flow!vars PROVE SeenOrSince'
<1>1. CASE UNCHANGED Flow!stored
  BY <1>1 DEF Flow!stored, SeenOrSince
<1>2. ASSUME NEW a \in Attempt, Flow!Save(a) PROVE SeenOrSince'
  <2>1. CASE file' = a /\ since' = [b \in Attempt |-> IF b \in clearing THEN since[b] \cup {a} ELSE {}]
    <3> SUFFICES ASSUME NEW b \in clearing' PROVE file' \in {b, NoAttempt} \cup since'[b]
      BY DEF SeenOrSince
    <3> QED BY <1>2, <2>1 DEF Flow!Save, SeenOrSince, SignInForm
  <2> QED BY <1>1, <1>2, <2>1 DEF Flow!Save, Flow!stored
<1>3. ASSUME NEW a \in Attempt, Flow!SignOut(a) PROVE SeenOrSince'
  BY <1>3 DEF Flow!SignOut, Flow!Mine, SeenOrSince
<1>4. ASSUME NEW a \in Attempt, Flow!Unlink(a) PROVE SeenOrSince'
  BY <1>4 DEF Flow!Unlink, SeenOrSince
<1>5. CASE Flow!Relocate
  BY <1>5 DEF Flow!Relocate, SeenOrSince
<1>6. ASSUME NEW a \in Attempt, \/ Flow!Begin(a) \/ Flow!Register(a) \/ Flow!OpenBrowser(a) \/ Flow!Callback(a) \/ Flow!Forward(a)
                                \/ Flow!Expire(a) \/ Flow!Quit(a) \/ Flow!Exchange(a) \/ Flow!Identified(a)
      PROVE  UNCHANGED Flow!stored
  BY <1>6 DEF Flow!Begin, Flow!Register, Flow!OpenBrowser, Flow!Callback, Flow!Forward, Flow!Expire,
     Flow!Quit, Flow!Exchange, Flow!Identified
<1> QED BY <1>1, <1>2, <1>3, <1>4, <1>5, <1>6 DEF Flow!Next, Flow!vars, Flow!Restart

LEMMA SignInInductive == ASSUME Flow!SignInAssumption PROVE Flow!Spec => []SignInInv
<1>1. Flow!Init => SignInInv
  BY SignInInit
<1>2. SignInInv /\ [Flow!Next]_Flow!vars => SignInInv'
  BY SignInFormStep, OwnCallbackStep, OwnCodeStep, RoomStep, SavedDoneStep, SeenOrSinceStep
     DEF SignInInv
<1> QED BY <1>1, <1>2, PTL DEF Flow!Spec

\* However many windows of a machine share the relay, and whatever the browsers, the node and
\* the broker do in between, a code reaches the attempt it is for, the relay keeps to its room,
\* and the session file is that of a window that has signed in (auth.py:361-375).
THEOREM CodesStayApart == ASSUME Flow!SignInAssumption PROVE Flow!Spec => []OnlyItsCode
<1>1. SignInInv => OnlyItsCode
  BY Waiters DEF SignInInv, OwnCode, RoomKept, SavedDone, Flow!OnlyItsCode, OnlyItsCode
<1> QED BY <1>1, SignInInductive, PTL

\* Whatever windows sign in and out and however often the lobby moves, a sign-out removes its
\* own session from the file or one that was saved after it had looked (auth_client.py:117).
THEOREM SeenSessionsKept == ASSUME Flow!SignInAssumption PROVE Flow!Spec => NewerKept
<1> DEFINE Kept == \A a, b \in Attempt : b \in clearing \ clearing' /\ file = a => a = b \/ a \in since[b]
<1>1. SignInInv => Kept
  BY DEF SignInInv, SeenOrSince, Flow!SignInAssumption
<1>2. SignInInv /\ [Flow!Next]_Flow!vars => [Kept]_Flow!vars
  BY <1>1
<1> QED BY <1>2, SignInInductive, PTL DEF Flow!Spec, Flow!NewerKept, NewerKept

-----------------------------------------------------------------------------
(* The host that moves (HostMove). *)

Place == [host : Seat \cup {NoSeat}, gen : Nat]
Unit == [host : Seat \cup {NoSeat}, gen : Nat, at : {"off", "starting", "up"}]

\* The files, the units and what a dailylogin holds are of these shapes.
MoveForm == /\ gen \in Nat /\ settings \in Place /\ applied \in Place /\ copy \in Place
            /\ mind \in [Seat -> Place] /\ moved \in [Seat -> BOOLEAN]
            /\ service \in [Seat -> Unit] /\ published \in Seat
            /\ login \in [Seat -> {"idle", "settings", "trust", "unit", "ping", "publish"}]

\* The lock of the owner's files: one dailylogin is under way.
LoginAlone == \A s, t \in Seat : login[s] # "idle" /\ login[t] # "idle" => s = t

\* The settings are drawn after whatever was applied, also when dailylogin
\* writes back what it read before set-owner wrote.
SettingsLater == /\ settings.gen <= gen /\ applied.gen <= settings.gen
                 /\ \A s \in Seat : login[s] = "settings" => applied.gen <= mind[s].gen /\ mind[s].gen <= gen

\* What a dailylogin waits for is of its seat and no later than the settings,
\* and the service that runs there is no older.
NoOlder == \A s \in Seat : login[s] \in {"ping", "publish"} =>
              /\ mind[s].host = s /\ mind[s].gen <= settings.gen
              /\ Move!Running(s) => mind[s].gen <= service[s].gen

\* What was applied to a seat, the service that runs there was started with.
AppliedRuns == \A s \in Seat : Move!Running(s) /\ applied.host = s => applied.gen <= service[s].gen

\* Who runs has shown the key.
InService == \A s \in Seat : Move!Running(s) => s \in served

MoveInv == MoveForm /\ LoginAlone /\ SettingsLater /\ NoOlder /\ AppliedRuns /\ InService /\ Move!ProvedFirst

LEMMA MoveInit == ASSUME Move!MoveAssumption, Move!Init PROVE MoveInv
<1>1. settings = [host |-> First, gen |-> 1] /\ applied = settings /\ copy = Move!NoCopy
  BY DEF Move!Init
<1>2. settings \in Place /\ copy \in Place /\ settings.gen = 1 /\ settings.host = First
  BY <1>1 DEF Place, Move!NoCopy, Move!MoveAssumption
<1>3. Move!Off \in Unit /\ Move!Up(settings) \in Unit /\ Move!Off.at = "off" /\ Move!Up(settings).gen = 1
  BY <1>2 DEF Place, Unit, Move!Off, Move!Up
<1>4. MoveForm
  BY <1>1, <1>2, <1>3 DEF Move!Init, MoveForm, Move!MoveAssumption
<1>5. \A s \in Seat : login[s] = "idle" /\ (Move!Running(s) => s = First /\ service[s].gen = 1)
  BY <1>3 DEF Move!Init, Move!Running
<1> QED BY <1>1, <1>2, <1>4, <1>5 DEF MoveInv, LoginAlone, SettingsLater, NoOlder, AppliedRuns,
           InService, Move!ProvedFirst, Move!Init

LEMMA FormStep == ASSUME MoveForm, [Move!Next]_Move!vars PROVE MoveForm'
<1>1. CASE UNCHANGED Move!vars
  BY <1>1 DEF Move!vars, MoveForm
<1>2. ASSUME NEW s \in Seat, Move!Daily(s) PROVE MoveForm'
  <2>1. UNCHANGED copy /\ login' \in [Seat -> {"idle", "settings", "trust", "unit", "ping", "publish"}]
    BY <1>2 DEF Move!Daily, Move!Begin, Move!WriteSettings, Move!WriteTrust, Move!Manage,
       Move!Ready, Move!Publish, Move!GivesUp, Move!At, MoveForm
  <2>2. Move!Begin(s) \/ Move!WriteTrust(s) \/ Move!GivesUp(s) => MoveForm'
    BY <2>1 DEF Move!Begin, Move!WriteTrust, Move!GivesUp, MoveForm
  <2>3. Move!WriteSettings(s) => MoveForm'
    BY <2>1 DEF Move!WriteSettings, Move!NextGen, MoveForm, Place
  <2>4. ASSUME Move!Manage(s) PROVE MoveForm'
    <3>1. Move!Starting \in Unit /\ Move!Desired(s) \in Place
      BY DEF Move!Starting, Move!Off, Unit, Move!Desired, Place, MoveForm
    <3> QED BY <2>1, <2>4, <3>1 DEF Move!Manage, MoveForm
  <2>5. Move!Ready(s) \/ Move!Publish(s) => MoveForm'
    BY <2>1 DEF Move!Ready, Move!Publish, MoveForm
  <2> QED BY <1>2, <2>2, <2>3, <2>4, <2>5 DEF Move!Daily
<1>3. ASSUME Move!ReadOwner \/ Move!WriteOwner PROVE MoveForm'
  BY <1>3 DEF Move!ReadOwner, Move!WriteOwner, Move!NextGen, Move!NoCopy, MoveForm, Place
<1>4. ASSUME NEW c \in Client, Move!Refresh(c) \/ Move!Named(c) PROVE MoveForm'
  BY <1>4 DEF Move!Refresh, Move!Named, Move!Follow, MoveForm
<1>5. ASSUME NEW s \in Seat,
             Move!Serve(s) \/ Move!Stop(s) \/ Move!Renew(s) \/ Move!Reboot(s) \/ Move!Dies(s)
      PROVE  MoveForm'
  <2>1. Move!Starting \in Unit /\ Move!Off \in Unit /\ Move!Up(settings) \in Unit
    BY DEF Move!Starting, Move!Off, Move!Up, Unit, Place, MoveForm
  <2>2. service' \in [Seat -> Unit]
    BY <1>5, <2>1 DEF Move!Serve, Move!Stop, Move!Renew, Move!Reboot, Move!Dies, MoveForm
  <2>3. login' \in [Seat -> {"idle", "settings", "trust", "unit", "ping", "publish"}]
    BY <1>5 DEF Move!Serve, Move!Stop, Move!Renew, Move!Reboot, Move!Dies, MoveForm
  <2> QED BY <1>5, <2>2, <2>3 DEF Move!Serve, Move!Stop, Move!Renew, Move!Reboot, Move!Dies,
             MoveForm
<1> QED BY <1>1, <1>2, <1>3, <1>4, <1>5 DEF Move!Next

LEMMA AloneStep == ASSUME MoveForm, LoginAlone, [Move!Next]_Move!vars PROVE LoginAlone'
<1>1. ASSUME NEW s \in Seat, Move!Begin(s) PROVE LoginAlone'
  BY <1>1 DEF Move!Begin, Move!At, Move!Locked, LoginAlone, MoveForm
<1>2. ASSUME NEW s \in Seat, Move!Daily(s), ~Move!Begin(s) PROVE LoginAlone'
  BY <1>2 DEF Move!Daily, Move!WriteSettings, Move!WriteTrust, Move!Manage, Move!Ready,
     Move!Publish, Move!GivesUp, Move!At, LoginAlone, MoveForm
<1>3. ASSUME NEW s \in Seat, Move!Reboot(s) \/ Move!Dies(s) PROVE LoginAlone'
  BY <1>3 DEF Move!Reboot, Move!Dies, LoginAlone, MoveForm
<1>4. ASSUME NEW s \in Seat, Move!Serve(s) \/ Move!Stop(s) \/ Move!Renew(s) PROVE login' = login
  BY <1>4 DEF Move!Serve, Move!Stop, Move!Renew
<1>5. ASSUME NEW c \in Client, Move!Refresh(c) \/ Move!Named(c) PROVE login' = login
  BY <1>5 DEF Move!Refresh, Move!Named, Move!Follow
<1>6. login' = login => LoginAlone'
  BY DEF LoginAlone
<1> QED BY <1>1, <1>2, <1>3, <1>4, <1>5, <1>6 DEF Move!Next, Move!vars, Move!ReadOwner,
           Move!WriteOwner

\* The steps of dailylogin on seat s keep what was applied behind the settings.
LEMMA DailyStep == ASSUME MoveForm, LoginAlone, SettingsLater, NoOlder, AppliedRuns, NEW s \in Seat,
                          Move!Daily(s)
                   PROVE  SettingsLater' /\ NoOlder' /\ AppliedRuns'
<1>0. \A t \in Seat \ {s} : login[s] # "idle" => login[t] = "idle"
  BY DEF LoginAlone
<1>1. CASE Move!Begin(s)
  <2>1. UNCHANGED <<settings, applied, gen, service>>
    BY <1>1 DEF Move!Begin
  <2>2. \A t \in Seat : login[t] = "idle"
    BY <1>1 DEF Move!Begin, Move!Locked
  <2>3. /\ \A t \in Seat : login'[t] # "idle" => t = s
        /\ login'[s] = "settings" /\ mind'[s] = settings
    BY <1>1, <2>2 DEF Move!Begin, Move!At, MoveForm
  <2>4. settings.gen \in Nat /\ applied.gen \in Nat
    BY DEF MoveForm, Place
  <2> QED BY <2>1, <2>3, <2>4 DEF SettingsLater, NoOlder, AppliedRuns, Move!Running
<1>2. CASE Move!WriteSettings(s)
  <2>1. UNCHANGED <<applied, mind, service>> /\ login[s] = "settings"
    BY <1>2 DEF Move!WriteSettings, Move!At
  <2>2. /\ \A t \in Seat : login'[t] # "idle" => t = s
        /\ login'[s] = "trust"
    BY <1>0, <1>2, <2>1 DEF Move!WriteSettings, Move!At, MoveForm
  <2>3. settings'.gen <= gen' /\ applied.gen <= settings'.gen
    BY <1>2, <2>1 DEF Move!WriteSettings, Move!NextGen, SettingsLater, MoveForm, Place
  <2> QED BY <2>1, <2>2, <2>3 DEF SettingsLater, NoOlder, AppliedRuns, Move!Running
<1>3. CASE Move!WriteTrust(s) \/ Move!GivesUp(s) \/ Move!Publish(s)
  <2>1. UNCHANGED <<settings, applied, gen, mind, service>>
    BY <1>3 DEF Move!WriteTrust, Move!GivesUp, Move!Publish
  <2>2. /\ login'[s] \in {"idle", "unit"}
        /\ \A t \in Seat \ {s} : login'[t] = login[t]
    BY <1>3 DEF Move!WriteTrust, Move!GivesUp, Move!Publish, Move!At, MoveForm
  <2> QED BY <2>1, <2>2 DEF SettingsLater, NoOlder, AppliedRuns, Move!Running
<1>4. CASE Move!Manage(s)
  <2>1. /\ UNCHANGED <<settings, applied, gen>>
        /\ \A t \in Seat : login'[t] # "idle" => t = s
        /\ login'[s] = "ping" /\ mind'[s] = Move!Desired(s)
        /\ \A t \in Seat \ {s} : service'[t] = service[t]
        /\ service'[s] = IF Move!Running(s) /\ ~Move!Stale(s) THEN service[s] ELSE Move!Starting
    BY <1>0, <1>4 DEF Move!Manage, Move!At, MoveForm
  <2>2. Move!Desired(s).host = s /\ Move!Desired(s).gen = settings.gen /\ Move!Starting.at = "starting"
    BY DEF Move!Desired, Move!Starting, Move!Off
  <2>3. settings.gen \in Nat /\ \A t \in Seat : service[t].gen \in Nat
    BY DEF MoveForm, Place, Unit
  <2>4. Move!Running(s)' => Move!Running(s) /\ applied = Move!Desired(s) /\ service'[s] = service[s]
    BY <2>1, <2>2 DEF Move!Running, Move!Stale
  <2>5. Move!Running(s)' => settings.gen <= service'[s].gen
    BY <2>2, <2>4 DEF AppliedRuns
  <2>6. NoOlder'
    BY <2>1, <2>2, <2>3, <2>5 DEF NoOlder
  <2>7. AppliedRuns'
    <3>1. ASSUME NEW t \in Seat, Move!Running(t)', applied.host = t
          PROVE  applied.gen <= service'[t].gen
      <4>1. CASE t = s
        BY <2>4, <3>1, <4>1 DEF AppliedRuns
      <4>2. CASE t # s
        BY <2>1, <3>1, <4>2 DEF AppliedRuns, Move!Running
      <4> QED BY <4>1, <4>2
    <3> QED BY <2>1, <3>1 DEF AppliedRuns
  <2>8. SettingsLater'
    BY <2>1 DEF SettingsLater
  <2> QED BY <2>6, <2>7, <2>8
<1>5. CASE Move!Ready(s)
  <2>1. /\ UNCHANGED <<settings, gen, mind, service>> /\ applied' = mind[s]
        /\ \A t \in Seat : login'[t] # "idle" => t = s
        /\ login[s] = "ping" /\ login'[s] = "publish" /\ Move!Running(s)
    BY <1>0, <1>5 DEF Move!Ready, Move!At, MoveForm
  <2>2. mind[s].host = s /\ mind[s].gen <= settings.gen /\ mind[s].gen <= service[s].gen
    BY <2>1 DEF NoOlder
  <2> QED BY <2>1, <2>2 DEF SettingsLater, NoOlder, AppliedRuns, Move!Running
<1> QED BY <1>1, <1>2, <1>3, <1>4, <1>5 DEF Move!Daily

\* So do set-owner, and the service of seat s.
LEMMA ServiceStep == ASSUME MoveForm, SettingsLater, NoOlder, AppliedRuns, InService,
                            NEW s \in Seat, Move!Serve(s) \/ Move!Stop(s) \/ Move!Renew(s) \/ Move!Reboot(s) \/ Move!Dies(s)
                     PROVE  SettingsLater' /\ NoOlder' /\ AppliedRuns' /\ InService'
<1>1. /\ UNCHANGED <<settings, applied, gen, mind>> /\ served \subseteq served'
      /\ login'[s] \in {login[s], "idle"} /\ \A t \in Seat \ {s} : login'[t] = login[t]
      /\ \A t \in Seat \ {s} : service'[t] = service[t]
  BY DEF Move!Serve, Move!Stop, Move!Renew, Move!Reboot, Move!Dies, MoveForm
<1>2. service'[s].at = "up" => \/ service'[s] = service[s]
                               \/ service'[s].gen = settings.gen /\ s \in served'
  BY DEF Move!Serve, Move!Stop, Move!Renew, Move!Reboot, Move!Dies, MoveForm, Move!Up, Move!Off,
     Move!Starting
<1>3. settings.gen \in Nat /\ applied.gen <= settings.gen
  BY DEF MoveForm, Place, SettingsLater
<1>4. SettingsLater'
  BY <1>1 DEF SettingsLater
<1>5. NoOlder'
  <2>1. ASSUME NEW t \in Seat, login'[t] \in {"ping", "publish"}
        PROVE  /\ mind[t].host = t /\ mind[t].gen <= settings.gen
               /\ Move!Running(t)' => mind[t].gen <= service'[t].gen
    BY <1>1, <1>2, <2>1 DEF NoOlder, Move!Running
  <2> QED BY <1>1, <2>1 DEF NoOlder
<1>6. AppliedRuns' /\ InService'
  BY <1>1, <1>2, <1>3 DEF AppliedRuns, InService, Move!Running
<1> QED BY <1>4, <1>5, <1>6

LEMMA OwnerStep == ASSUME MoveForm, SettingsLater, NoOlder, AppliedRuns,
                          Move!ReadOwner \/ Move!WriteOwner
                   PROVE  SettingsLater' /\ NoOlder' /\ AppliedRuns'
<1>1. UNCHANGED <<applied, mind, login, service>>
  BY DEF Move!ReadOwner, Move!WriteOwner
<1>2. \/ UNCHANGED <<settings, gen>>
      \/ settings'.gen = gen + 1 /\ gen' = gen + 1
  BY DEF Move!ReadOwner, Move!WriteOwner, Move!NextGen
<1>3. gen \in Nat /\ settings.gen \in Nat /\ applied.gen \in Nat /\ \A s \in Seat : mind[s].gen \in Nat
  BY DEF MoveForm, Place
<1> QED BY <1>1, <1>2, <1>3 DEF SettingsLater, NoOlder, AppliedRuns, Move!Running

\* A client goes where a service runs, and that has shown the key.
LEMMA ClientStep == ASSUME MoveForm, InService, Move!ProvedFirst, NEW c \in Client,
                           Move!Refresh(c) \/ Move!Named(c)
                    PROVE  Move!ProvedFirst'
<1>1. PICK s \in Seat : Move!Follow(c, s)
  BY DEF Move!Refresh, Move!Named, MoveForm
<1>2. s \in served /\ served' = served /\ client' = [client EXCEPT ![c] = s]
  BY <1>1 DEF Move!Follow, Move!Proof, InService
<1> QED BY <1>2 DEF Move!ProvedFirst

LEMMA MoveInductive == ASSUME Move!MoveAssumption PROVE Move!Spec => []MoveInv
<1>1. Move!Init => MoveInv
  BY MoveInit
<1>2. ASSUME MoveInv, [Move!Next]_Move!vars PROVE MoveInv'
  <2>1. MoveForm' /\ LoginAlone'
    BY <1>2, FormStep, AloneStep DEF MoveInv
  <2>2. ASSUME NEW s \in Seat, Move!Daily(s) PROVE MoveInv'
    <3>1. UNCHANGED <<client, served>> /\ \A t \in Seat : Move!Running(t)' => Move!Running(t)
      BY <1>2, <2>2 DEF Move!Daily, Move!Begin, Move!WriteSettings, Move!WriteTrust, Move!Manage,
         Move!Ready, Move!Publish, Move!GivesUp,
                        Move!Running, Move!Starting, Move!Off, MoveInv, MoveForm
    <3> QED BY <1>2, <2>1, <2>2, <3>1, DailyStep DEF MoveInv, InService, Move!ProvedFirst
  <2>3. ASSUME NEW s \in Seat,
               Move!Serve(s) \/ Move!Stop(s) \/ Move!Renew(s) \/ Move!Reboot(s) \/ Move!Dies(s)
        PROVE  MoveInv'
    <3>1. client' = client /\ served \subseteq served'
      BY <2>3 DEF Move!Serve, Move!Stop, Move!Renew, Move!Reboot, Move!Dies
    <3>2. Move!ProvedFirst'
      BY <1>2, <3>1 DEF MoveInv, Move!ProvedFirst
    <3> QED BY <1>2, <2>1, <2>3, <3>2, ServiceStep DEF MoveInv
  <2>4. ASSUME Move!ReadOwner \/ Move!WriteOwner PROVE MoveInv'
    <3>1. UNCHANGED <<client, served, service>>
      BY <2>4 DEF Move!ReadOwner, Move!WriteOwner
    <3> QED BY <1>2, <2>1, <2>4, <3>1, OwnerStep DEF MoveInv, InService, Move!ProvedFirst,
               Move!Running
  <2>5. ASSUME NEW c \in Client, Move!Refresh(c) \/ Move!Named(c) PROVE MoveInv'
    <3>1. UNCHANGED <<settings, applied, gen, login, mind, service, served>>
      BY <2>5 DEF Move!Refresh, Move!Named, Move!Follow
    <3> QED BY <1>2, <2>1, <2>5, <3>1, ClientStep
            DEF MoveInv, SettingsLater, NoOlder, AppliedRuns, InService, Move!Running
  <2>6. CASE UNCHANGED Move!vars
    BY <1>2, <2>1, <2>6 DEF Move!vars, MoveInv, SettingsLater, NoOlder, AppliedRuns, InService,
       Move!ProvedFirst, Move!Running
  <2> QED BY <1>2, <2>2, <2>3, <2>4, <2>5, <2>6 DEF Move!Next
<1> QED BY <1>1, <1>2, PTL DEF Move!Spec

\* Wherever a dailylogin dies, whatever it has written, and although set-owner takes no lock,
\* the service that answers a later one was started with the generation it then records, or a
\* later one; and a client trusts only seats that have shown the key (auth_daily.py:45-120).
THEOREM HostFollowed == ASSUME Move!MoveAssumption PROVE Move!Spec => []Followed
<1>1. MoveInv => Followed
  BY DEF MoveInv, NoOlder, Followed, Move!Followed, Move!ReadyRuns, Move!ProvedFirst
<1> QED BY <1>1, MoveInductive, PTL

-----------------------------------------------------------------------------
(* A round of Who Said That? (BluffRound). *)

\* The clock is a number, and players of the round alone have voted.
RoundInv == /\ now \in Nat /\ deadline \in Nat /\ present \subseteq Players
            /\ DOMAIN votes \subseteq Players
            /\ phase \in {"writing", "voting", "results"}

\* Counting is counting, also where the round is an instance.
LEMMA Voters == \A S : Bluff!Cardinality(S) = Cardinality(S)
BY DEF Bluff!Cardinality, Cardinality

LEMMA RoundInit == Bluff!BluffAssumption /\ Bluff!Init => RoundInv
BY DEF Bluff!Init, RoundInv, Bluff!BluffAssumption

LEMMA RoundStep == ASSUME Bluff!BluffAssumption, RoundInv, [Bluff!Next]_Bluff!vars PROVE RoundInv'
<1> USE DEF RoundInv
<1>0. Seconds \in Nat
  BY DEF Bluff!BluffAssumption
<1>1. ASSUME NEW given, NEW ballots, Bluff!Tick(given, ballots), now' = now
      PROVE  deadline' \in Nat /\ phase' \in {"writing", "voting", "results"}
  BY <1>0, <1>1 DEF Bluff!Tick, Bluff!OpenVote
<1>2. CASE Bluff!Poll
  BY <1>1, <1>2 DEF Bluff!Poll
<1>3. ASSUME NEW p \in Players, Bluff!Answer(p) PROVE RoundInv'
  BY <1>1, <1>3 DEF Bluff!Answer
<1>4. ASSUME NEW p \in Players, NEW ballot \in SUBSET options, Bluff!Vote(p, ballot) PROVE RoundInv'
  BY <1>1, <1>4 DEF Bluff!Vote
<1>5. CASE Bluff!Clock \/ (\E p \in Players : Bluff!Leave(p)) \/ UNCHANGED Bluff!vars
  BY <1>5 DEF Bluff!Clock, Bluff!Leave, Bluff!vars
<1> QED BY <1>2, <1>3, <1>4, <1>5 DEF Bluff!Next

\* Who is counted as a voter of all, is all voters.
LEMMA AllVoted == ASSUME Bluff!BluffAssumption, NEW voters, voters \subseteq Players,
                         Bluff!Cardinality(voters) >= Bluff!Cardinality(Players)
                  PROVE  voters = Players
<1>1. IsFiniteSet(Players)
  BY DEF Bluff!BluffAssumption, Bluff!IsFiniteSet, IsFiniteSet
<1>2. /\ Cardinality(voters) \in Nat /\ Cardinality(Players) \in Nat
      /\ Cardinality(voters) <= Cardinality(Players)
      /\ Cardinality(voters) = Cardinality(Players) => voters = Players
  BY <1>1, FS_Subset, FS_CardinalityType
<1> QED BY <1>2, Voters

\* tick() ends a phase before its deadline only when all are done.
LEMMA TickEnds == ASSUME Bluff!BluffAssumption, RoundInv, NEW given, NEW ballots,
                         DOMAIN ballots \subseteq Players, 
                         Bluff!Tick(given, ballots), phase' # phase, now < deadline
                  PROVE  IF phase = "writing" THEN given = Players ELSE DOMAIN ballots = Players
<1>1. ~(now >= deadline)
  BY DEF RoundInv
<1>2. Bluff!WritingDone(given) => phase = "writing" /\ given = Players
  BY <1>1 DEF Bluff!WritingDone
<1>3. Bluff!VotingDone(DOMAIN ballots) => phase = "voting" /\ DOMAIN ballots = Players
  BY <1>1, AllVoted DEF Bluff!VotingDone
<1> QED BY <1>2, <1>3 DEF Bluff!Tick

LEMMA NobodyCut == ASSUME Bluff!BluffAssumption, RoundInv, [Bluff!Next]_Bluff!vars, phase' # phase,
                          now < deadline
                   PROVE  IF phase = "writing" THEN answers' = Players ELSE DOMAIN votes' = Players
<1>1. CASE Bluff!Poll
  BY <1>1, TickEnds DEF Bluff!Poll, RoundInv
<1>2. ASSUME NEW p \in Players, Bluff!Answer(p)
      PROVE  IF phase = "writing" THEN answers' = Players ELSE DOMAIN votes' = Players
  BY <1>2, TickEnds DEF Bluff!Answer, RoundInv
<1>3. ASSUME NEW p \in Players, NEW ballot \in SUBSET options, Bluff!Vote(p, ballot)
      PROVE  IF phase = "writing" THEN answers' = Players ELSE DOMAIN votes' = Players
  <2>1. DOMAIN votes' \subseteq Players
    BY <1>3 DEF Bluff!Vote, RoundInv
  <2>2. Bluff!Tick(answers, votes') /\ phase = "voting"
    BY <1>3 DEF Bluff!Vote
  <2> QED BY <2>1, <2>2, TickEnds
<1>4. Bluff!Clock \/ (\E p \in Players : Bluff!Leave(p)) \/ UNCHANGED Bluff!vars => phase' = phase
  BY DEF Bluff!Clock, Bluff!Leave, Bluff!vars
<1> QED BY <1>1, <1>2, <1>3, <1>4 DEF Bluff!Next

LEMMA RoundInductive == ASSUME Bluff!BluffAssumption PROVE Bluff!Spec => []RoundInv
BY RoundInit, RoundStep, PTL DEF Bluff!Spec

\* However many players of a round leave it, a phase ends before its deadline only when every
\* player of the round has answered or voted (games.py:89-118, server.py:193).
THEOREM NoPhaseCutShort == ASSUME Bluff!BluffAssumption PROVE Bluff!Spec => NobodyCutOff
<1> DEFINE Whole == phase' # phase /\ now < deadline =>
                       IF phase = "writing" THEN answers' = Players ELSE DOMAIN votes' = Players
<1>1. RoundInv /\ [Bluff!Next]_Bluff!vars => [Whole]_Bluff!vars
  BY NobodyCut
<1>2. Bluff!Spec => [][Whole]_Bluff!vars
  BY <1>1, RoundInductive, PTL DEF Bluff!Spec
<1> QED BY <1>2, PTL DEF NobodyCutOff, Bluff!NobodyCutOff

-----------------------------------------------------------------------------
(* Messages of one client (DirectMessages). *)

Task == [at : {"none", "planning", "sleeping", "routing", "cancelled", "done"},
         targets : Nat, wake : Int, delivered : Nat, failed : Nat]

TextForm == /\ now \in Nat /\ last \in Int /\ batch \in Task
            /\ log \in [count : Nat, texts : Nat, text : Int]

\* The stamp is that of the last text or later, and a batch that sleeps wakes a
\* cooldown after that text: what other commands send meanwhile are no texts.
Stamped == /\ log.text <= last
           /\ batch.at = "sleeping" => log.text + Cooldown <= batch.wake

\* A batch that is not over has somebody left.
Counting == /\ batch.at \in {"planning", "sleeping", "routing"} => Texts!Left >= 0
            /\ batch.at \in {"sleeping", "routing"} => Texts!Left > 0
            /\ batch.at = "done" => Texts!Left = 0

TextInv == TextForm /\ Stamped /\ Counting

LEMMA Limits == ASSUME Texts!DirectAssumption
                PROVE  Cooldown \in Nat /\ Spacing \in Nat /\ MaxTargets \in Nat /\ Cooldown <= Spacing
BY DEF Texts!DirectAssumption

LEMMA SentIs == ASSUME TextForm, NEW kind, Texts!Sent(kind)
                PROVE  /\ log' \in [count : Nat, texts : Nat, text : Int] /\ last' = now
                       /\ log'.text \in {log.text, now}
                       /\ kind # "text" => log'.text = log.text /\ log'.texts = log.texts
                       /\ kind = "text" => log'.text = now
BY DEF Texts!Sent, TextForm

LEMMA TextInit == Texts!Init => TextInv
BY DEF Texts!Init, TextInv, TextForm, Stamped, Counting, Texts!NoBatch, Task

\* A message of the connection's own task; a text only while no batch runs.
LEMMA MainStep == ASSUME Texts!DirectAssumption, TextInv, Texts!Dm \/ Texts!Uwu PROVE TextInv'
<1>1. PICK kind \in {"text", "poke"} : Texts!Sent(kind) /\ (kind = "text" => ~Texts!Running)
  BY DEF Texts!Dm, Texts!Uwu
<1>2. UNCHANGED <<now, batch>> /\ now - last >= Cooldown
  BY DEF Texts!Dm, Texts!Uwu, Texts!Ready
<1>3. TextForm' /\ Counting'
  BY <1>1, <1>2, SentIs DEF TextInv, TextForm, Counting, Texts!Left
<1>4. now \in Int /\ last \in Int /\ log.text \in Int /\ log.text <= last
  BY DEF TextInv, TextForm, Stamped
<1>5. log'.text <= last'
  BY <1>1, <1>2, <1>4, SentIs, Limits DEF TextInv
<1>6. batch.at = "sleeping" => log'.text = log.text
  BY <1>1, SentIs DEF TextInv, Texts!Running
<1> QED BY <1>2, <1>3, <1>5, <1>6 DEF TextInv, Stamped

LEMMA PlanStep == ASSUME Texts!DirectAssumption, TextInv, Texts!Plan PROVE TextInv'
<1> USE DEF TextInv
<1>1. UNCHANGED <<now, last, log>> /\ batch.at = "planning"
  BY DEF Texts!Plan
<1>2. CASE Texts!Left = 0
  BY <1>1, <1>2 DEF Texts!Plan, TextForm, Task, Stamped, Counting, Texts!Left
<1>3. CASE Texts!Left # 0
  <2> DEFINE wake == IF last + Spacing > now THEN last + Spacing ELSE now
  <2>1. batch' = [batch EXCEPT !.at = "sleeping", !.wake = wake]
    BY <1>3 DEF Texts!Plan
  <2>2. wake \in Int /\ log.text + Cooldown <= wake
    BY Limits DEF TextForm, Stamped
  <2> HIDE DEF wake
  <2>3. batch'.at = "sleeping" /\ batch'.wake = wake /\ batch' \in Task
        /\ batch'.targets = batch.targets /\ batch'.delivered = batch.delivered /\ batch'.failed = batch.failed
    BY <2>1, <2>2 DEF TextForm, Task
  <2>4. Texts!Left' = Texts!Left /\ Texts!Left \in Int
    BY <2>3 DEF Texts!Left, TextForm, Task
  <2> QED BY <1>1, <1>3, <2>2, <2>3, <2>4 DEF TextForm, Stamped, Counting
<1> QED BY <1>2, <1>3

LEMMA WakeStep == ASSUME Texts!DirectAssumption, TextInv, Texts!Wake PROVE TextInv'
<1> USE DEF TextInv
<1>1. UNCHANGED now /\ batch.at = "sleeping" /\ Texts!Left > 0
  BY DEF Texts!Wake, Counting
<1>2. CASE session
  <2>1. Texts!Sent("text") /\ batch' = [batch EXCEPT !.at = "routing"]
    BY <1>2 DEF Texts!Wake
  <2>2. batch' \in Task /\ batch'.at = "routing" /\ Texts!Left' = Texts!Left
    BY <2>1 DEF TextForm, Task, Texts!Left
  <2> QED BY <1>1, <2>1, <2>2, SentIs DEF TextForm, Stamped, Counting
<1>3. CASE ~session
  <2>1. UNCHANGED <<last, log>> /\ batch' = [batch EXCEPT !.failed = @ + Texts!Left, !.at = "done"]
    BY <1>3 DEF Texts!Wake
  <2>2. Texts!Left \in Nat
    BY <1>1 DEF TextForm, Task, Texts!Left
  <2>3. /\ batch'.at = "done" /\ batch'.targets = batch.targets
        /\ batch'.delivered = batch.delivered /\ batch'.failed = batch.failed + Texts!Left
    BY <2>1 DEF TextForm, Task
  <2>5. batch' \in Task
    <3>1. batch \in Task /\ batch.failed + Texts!Left \in Nat
      BY <2>2 DEF TextForm, Task
    <3> QED BY <2>1, <3>1 DEF Task
  <2>4. Texts!Left' = 0
    BY <2>3 DEF Texts!Left, TextForm, Task
  <2> QED BY <1>1, <2>1, <2>3, <2>4, <2>5 DEF TextForm, Stamped, Counting
<1> QED BY <1>2, <1>3

LEMMA OtherStep == ASSUME Texts!DirectAssumption, TextInv,
                          \/ Texts!Tick \/ Texts!Expire \/ Texts!Routed \/ Texts!Delivered \/ Texts!End \/ Texts!Cancelled \/ Texts!Unregister
                          \/ \E n \in 1..MaxTargets : Texts!Group(n)
                   PROVE  TextInv'
<1> USE DEF TextInv
<1>1. CASE Texts!Tick \/ Texts!Expire \/ Texts!Routed \/ Texts!Unregister
  BY <1>1 DEF Texts!Tick, Texts!Expire, Texts!Routed, Texts!Unregister, TextForm, Stamped, Counting,
     Texts!Left
<1>2. CASE Texts!Delivered
  <2>1. UNCHANGED <<now, last, log>> /\ batch.at = "routing" /\ Texts!Left > 0
    BY <1>2 DEF Texts!Delivered, Counting
  <2>2. /\ batch'.at = "planning" /\ batch'.targets = batch.targets
        /\ \/ batch'.delivered = batch.delivered + 1 /\ batch'.failed = batch.failed
           \/ batch'.delivered = batch.delivered /\ batch'.failed = batch.failed + 1
    BY <1>2 DEF Texts!Delivered, TextForm, Task
  <2>3. batch.targets \in Int /\ batch.delivered \in Int /\ batch.failed \in Int
    BY DEF TextForm, Task
  <2>4. Texts!Left' = Texts!Left - 1 /\ Texts!Left \in Int
    BY <2>2, <2>3 DEF Texts!Left
  <2>5. batch' \in Task
    <3>1. \/ batch' = [batch EXCEPT !.delivered = @ + 1, !.at = "planning"]
          \/ batch' = [batch EXCEPT !.failed = @ + 1, !.at = "planning"]
      BY <1>2 DEF Texts!Delivered
    <3>2. batch \in Task /\ batch.delivered + 1 \in Nat /\ batch.failed + 1 \in Nat
      BY DEF TextForm, Task
    <3> QED BY <3>1, <3>2 DEF Task
  <2> QED BY <2>1, <2>2, <2>4, <2>5 DEF TextForm, Stamped, Counting
<1>3. CASE Texts!End \/ Texts!Cancelled
  <2>1. UNCHANGED <<now, last, log>>
    BY <1>3 DEF Texts!End, Texts!Cancelled
  <2>2. \/ batch' = batch
        \/ batch' \in Task /\ batch'.at \in {"none", "cancelled"}
    BY <1>3 DEF Texts!End, Texts!Cancelled, Texts!NoBatch, TextForm, Task
  <2> QED BY <2>1, <2>2 DEF TextForm, Stamped, Counting, Texts!Left
<1>4. ASSUME NEW n \in 1..MaxTargets, Texts!Group(n) PROVE TextInv'
  <2>1. n \in Nat /\ n > 0
    <3>1. MaxTargets \in Nat
      BY Limits
    <3> QED BY <3>1
  <2>5. UNCHANGED <<now, last, log>>
    BY <1>4 DEF Texts!Group
  <2>2. batch' = [at |-> "planning", targets |-> n, wake |-> 0, delivered |-> 0, failed |-> 0]
    BY <1>4 DEF Texts!Group, Texts!NoBatch
  <2>4. batch' \in Task
    BY <2>1, <2>2 DEF Task
  <2>3. Texts!Left' = n
    BY <2>1, <2>2 DEF Texts!Left
  <2> QED BY <2>1, <2>2, <2>3, <2>4, <2>5 DEF TextForm, Stamped, Counting
<1> QED BY <1>1, <1>2, <1>3, <1>4

LEMMA TextStep == ASSUME Texts!DirectAssumption, TextInv, [Texts!Next]_Texts!vars PROVE TextInv'
<1>1. CASE UNCHANGED Texts!vars
  BY <1>1 DEF Texts!vars, TextInv, TextForm, Stamped, Counting, Texts!Left
<1>2. CASE Texts!Next
  BY <1>2, MainStep, PlanStep, WakeStep, OtherStep DEF Texts!Next, Texts!Batch
<1> QED BY <1>1, <1>2

\* A text goes out a cooldown after the one before it.
LEMMA Spaced == ASSUME Texts!DirectAssumption, TextInv, [Texts!Next]_Texts!vars,
                       log'.texts > log.texts
                PROVE  log'.text - log.text >= Cooldown
<1> USE DEF TextInv
<1>1. log \in [count : Nat, texts : Nat, text : Int] /\ now \in Int /\ last \in Int
  BY DEF TextForm
<1>2. log' # log
  BY <1>1
<1>3. CASE Texts!Dm
  <2>1. log'.text = now /\ now - last >= Cooldown
    BY <1>3, SentIs DEF Texts!Dm, Texts!Ready
  <2> QED BY <1>1, <2>1, Limits DEF Stamped
<1>4. CASE Texts!Wake
  <2>1. log'.text = now /\ now >= batch.wake /\ batch.at = "sleeping"
    BY <1>2, <1>4, SentIs DEF Texts!Wake
  <2>2. batch.wake \in Int
    BY DEF TextForm, Task
  <2> QED BY <1>1, <2>1, <2>2, Limits DEF Stamped
<1>5. CASE Texts!Uwu
  BY <1>1, <1>5, SentIs DEF Texts!Uwu
<1>6. CASE UNCHANGED Texts!vars \/ Texts!Tick \/ Texts!Expire \/ Texts!Routed \/ Texts!Delivered \/ Texts!End \/ Texts!Cancelled \/ Texts!Unregister \/ Texts!Plan
  BY <1>2, <1>6 DEF Texts!vars, Texts!Tick, Texts!Expire, Texts!Routed, Texts!Delivered, Texts!End,
     Texts!Cancelled, Texts!Unregister, Texts!Plan
<1>7. ASSUME NEW n \in 1..MaxTargets, Texts!Group(n) PROVE FALSE
  BY <1>2, <1>7 DEF Texts!Group
<1> QED BY <1>3, <1>4, <1>5, <1>6, <1>7 DEF Texts!Next, Texts!Batch

LEMMA TextInductive == ASSUME Texts!DirectAssumption PROVE Texts!Spec => []TextInv
BY TextInit, TextStep, PTL DEF Texts!Spec

\* The summary of a batch counts every recipient once, also when the sign-in expires while
\* it sleeps or the client sends other messages meanwhile (server.py:612-647).
THEOREM EveryoneCounted == ASSUME Texts!DirectAssumption PROVE Texts!Spec => []SummaryComplete
<1>1. TextInv => SummaryComplete
  BY DEF TextInv, Counting, SummaryComplete, Texts!SummaryComplete
<1> QED BY <1>1, TextInductive, PTL

\* The texts of a client are a cooldown apart, whatever it mixes of /dm, /uwu and batches
\* (server.py:600).
THEOREM TextsApart == ASSUME Texts!DirectAssumption PROVE Texts!Spec => TextsSpaced
<1> DEFINE Apart == log'.texts > log.texts => log'.text - log.text >= Cooldown
<1>1. TextInv /\ [Texts!Next]_Texts!vars => [Apart]_Texts!vars
  BY Spaced
<1>2. Texts!Spec => [][Apart]_Texts!vars
  BY <1>1, TextInductive, PTL DEF Texts!Spec
<1> QED BY <1>2, PTL DEF TextsSpaced, Texts!TextsSpaced

-----------------------------------------------------------------------------
(* The alarms of two windows (AlarmClock). *)

\* An entry has the fields of Entry, and setting one leaves the others.
Shape(e) == e = [id |-> e.id, kind |-> e.kind, due |-> e.due, every |-> e.every, wall |-> e.wall,
                 enabled |-> e.enabled, paused |-> e.paused, remaining |-> e.remaining, turn |-> e.turn, left |-> e.left]

Formed(e) == Shape(e) /\ e.id \in Nat /\ e.turn \in Nat /\ e.enabled \in BOOLEAN /\ e.paused \in BOOLEAN

\* A timer counts down: what it has left is what the clock has still to go, and
\* one that rang has nothing left, so that it may be paused and resumed.
Exact(e) == e.kind = "timer" =>
               /\ e.due \in Int /\ e.remaining \in Nat /\ e.left \in Nat /\ e.every = 0 /\ e.wall = {}
               /\ e.paused => e.remaining = e.left
               /\ ~e.enabled => e.due <= now /\ e.left = 0
               /\ Alarm!Running(e) /\ e.due > now => e.left = e.due - now
               /\ Alarm!Running(e) /\ e.due <= now => e.left = 0

\* The present turn of an entry did not ring while it is enabled, no later one did.
Unrung(e) == \A o \in DOMAIN rung : o[1] = e.id /\ (o[2] > e.turn \/ (o[2] = e.turn /\ e.enabled)) => rung[o] = 0

Sound(e) == Formed(e) /\ Exact(e) /\ Unrung(e)

Jobs == {"poll", "add", "cancel", "clear", "pause", "resume", "snooze"}

\* What a window with the lock holds is the file as it is, and an entry that is new.
Job(j) == /\ j.op \in Jobs /\ j.copy = alarms
          /\ j.op = "snooze" => j.n \in Nat
          /\ j.op = "add" => /\ Sound(j.entry) /\ j.entry.id <= made
                             /\ \A e \in alarms : e.id # j.entry.id

Numbers == now \in Nat /\ made \in Nat /\ rung \in [Alarm!Id \X (0..(LastTick + MaxTurns)) -> 0..1]
Places == /\ \A e \in alarms : e.id <= made
          /\ \A e, f \in alarms : e.id = f.id => e = f
Unmade == \A o \in DOMAIN rung : o[1] > made => rung[o] = 0
Locks == /\ DOMAIN held = Window
         /\ \A w \in Window : held[w] # Alarm!Idle => Job(held[w])
         /\ \A w, v \in Window : held[w] # Alarm!Idle /\ held[v] # Alarm!Idle => w = v

ClockInv == Numbers /\ (\A e \in alarms : Sound(e)) /\ Places /\ Unmade /\ Locks

LEMMA ClockLimits == ASSUME Alarm!ClockAssumption
                     PROVE  LastTick \in Nat /\ MaxMade \in Nat /\ MaxTurns \in Nat /\ Length \subseteq Nat
BY DEF Alarm!ClockAssumption

LEMMA Ring == ASSUME Alarm!ClockAssumption, NEW o \in Alarm!Id \X (0..(LastTick + MaxTurns))
              PROVE  o[1] \in Nat /\ o[2] \in Nat /\ o = <<o[1], o[2]>>
BY ClockLimits DEF Alarm!Id

LEMMA ClockInit == ASSUME Alarm!ClockAssumption, Alarm!Init PROVE ClockInv
BY DEF Alarm!Init, ClockInv, Numbers, Places, Unmade, Locks

\* What the operations make of an entry: all its fields, with those they set.
Made(g, i, k, d, n, w, on, p, r, t, l) ==
    g = [id |-> i, kind |-> k, due |-> d, every |-> n, wall |-> w,
         enabled |-> on, paused |-> p, remaining |-> r, turn |-> t, left |-> l]

Began(e, n, g) ==
    /\ Formed(g) /\ g.id = e.id /\ g.kind = e.kind /\ g.due = now + n /\ g.every = e.every /\ g.wall = e.wall
    /\ g.enabled = TRUE /\ g.paused = FALSE /\ g.remaining = e.remaining /\ g.turn = e.turn + 1 /\ g.left = n

Stopped(e, g) ==
    /\ Formed(g) /\ g.id = e.id /\ g.kind = e.kind /\ g.due = e.due /\ g.every = e.every /\ g.wall = e.wall
    /\ g.enabled = e.enabled /\ g.paused = TRUE /\ g.remaining = Alarm!Later(0, e.due - now) /\ g.turn = e.turn /\ g.left = e.left

Ended(e, g) ==
    /\ Formed(g) /\ g.id = e.id /\ g.kind = e.kind /\ g.due = e.due /\ g.every = e.every /\ g.wall = e.wall
    /\ g.enabled = FALSE /\ g.paused = e.paused /\ g.remaining = e.remaining /\ g.turn = e.turn /\ g.left = e.left

HasLeft(e, n, g) ==
    /\ Formed(g) /\ g.id = e.id /\ g.kind = e.kind /\ g.due = e.due /\ g.every = e.every /\ g.wall = e.wall
    /\ g.enabled = e.enabled /\ g.paused = e.paused /\ g.remaining = e.remaining /\ g.turn = e.turn /\ g.left = n

LEMMA AgainIs == ASSUME NEW e, Formed(e), NEW n, NEW g, g = Alarm!Again(e, n)
                 PROVE  Began(e, n, g)
<1>t. PICK yes : yes = TRUE
  OBVIOUS
<1>f. PICK no : no = FALSE
  OBVIOUS
<1>1. PICK e1 : e1 = [e EXCEPT !.due = now + n]
  OBVIOUS
<1>2. Made(e1, e.id, e.kind, now + n, e.every, e.wall, e.enabled, e.paused, e.remaining, e.turn, e.left)
  BY <1>1 DEF Made, Shape, Formed
<1>3. PICK e2 : e2 = [e1 EXCEPT !.enabled = yes]
  OBVIOUS
<1>4. Made(e2, e.id, e.kind, now + n, e.every, e.wall, yes, e.paused, e.remaining, e.turn, e.left)
  BY <1>2, <1>3 DEF Made
<1>5. PICK e3 : e3 = [e2 EXCEPT !.paused = no]
  OBVIOUS
<1>6. Made(e3, e.id, e.kind, now + n, e.every, e.wall, yes, no, e.remaining, e.turn, e.left)
  BY <1>4, <1>5 DEF Made
<1>7. PICK e4 : e4 = [e3 EXCEPT !.turn = e.turn + 1]
  OBVIOUS
<1>8. Made(e4, e.id, e.kind, now + n, e.every, e.wall, yes, no, e.remaining, e.turn + 1, e.left)
  BY <1>6, <1>7 DEF Made
<1>9. g = [e4 EXCEPT !.left = n]
  BY <1>1, <1>3, <1>5, <1>7, <1>t, <1>f, Zenon DEF Alarm!Again
<1>10. Made(g, e.id, e.kind, now + n, e.every, e.wall, yes, no, e.remaining, e.turn + 1, n)
  BY <1>8, <1>9 DEF Made
<1>11. /\ Shape(g) /\ g.id = e.id /\ g.kind = e.kind /\ g.due = now + n /\ g.every = e.every /\ g.wall = e.wall
       /\ g.enabled = yes /\ g.paused = no /\ g.remaining = e.remaining /\ g.turn = e.turn + 1 /\ g.left = n
  BY <1>10 DEF Made, Shape
<1>12. g.enabled = TRUE /\ g.paused = FALSE
  BY <1>11, <1>t, <1>f, Zenon
<1>13. g.enabled \in BOOLEAN /\ g.paused \in BOOLEAN
  BY <1>12, Zenon
<1>14. g.id \in Nat /\ g.turn \in Nat
  BY <1>11 DEF Formed
<1>15. Formed(g)
  BY <1>11, <1>13, <1>14, Zenon DEF Formed
<1> QED BY <1>11, <1>12, <1>15, Zenon DEF Began

LEMMA PausedIs == ASSUME NEW e, Formed(e), ~e.paused, NEW g, g = Alarm!Paused(e)
                  PROVE  Stopped(e, g)
<1>t. PICK yes : yes = TRUE
  OBVIOUS
<1>1. PICK e1 : e1 = [e EXCEPT !.remaining = Alarm!Later(0, e.due - now)]
  OBVIOUS
<1>2. Made(e1, e.id, e.kind, e.due, e.every, e.wall, e.enabled, e.paused, Alarm!Later(0, e.due - now), e.turn, e.left)
  BY <1>1 DEF Made, Shape, Formed
<1>3. g = [e1 EXCEPT !.paused = yes]
  BY <1>1, <1>t, Zenon DEF Alarm!Paused
<1>4. Made(g, e.id, e.kind, e.due, e.every, e.wall, e.enabled, yes, Alarm!Later(0, e.due - now), e.turn, e.left)
  BY <1>2, <1>3 DEF Made
<1>5. /\ Shape(g) /\ g.id = e.id /\ g.kind = e.kind /\ g.due = e.due /\ g.every = e.every /\ g.wall = e.wall
      /\ g.enabled = e.enabled /\ g.paused = yes /\ g.remaining = Alarm!Later(0, e.due - now) /\ g.turn = e.turn /\ g.left = e.left
  BY <1>4 DEF Made, Shape
<1> QED BY <1>5, <1>t DEF Formed, Stopped

LEMMA OverIs == ASSUME NEW e, Formed(e), NEW no, no = FALSE,
                        NEW g, g = [e EXCEPT !.enabled = no]
                PROVE  Ended(e, g)
<1>1. Made(g, e.id, e.kind, e.due, e.every, e.wall, no, e.paused, e.remaining, e.turn, e.left)
  BY DEF Made, Shape, Formed
<1>2. /\ Shape(g) /\ g.id = e.id /\ g.kind = e.kind /\ g.due = e.due /\ g.every = e.every /\ g.wall = e.wall
      /\ g.enabled = no /\ g.paused = e.paused /\ g.remaining = e.remaining /\ g.turn = e.turn /\ g.left = e.left
  BY <1>1 DEF Made, Shape
<1>3. g.enabled = FALSE
  BY <1>2, Zenon
<1>4. g.enabled \in BOOLEAN
  BY <1>3, Zenon
<1>5. Formed(g)
  BY <1>2, <1>4, Zenon DEF Formed
<1> QED BY <1>2, <1>3, <1>5, Zenon DEF Ended

LEMMA LeftIs == ASSUME NEW e, Formed(e), NEW n, NEW g, g = [e EXCEPT !.left = n]
                PROVE  HasLeft(e, n, g)
<1>1. Made(g, e.id, e.kind, e.due, e.every, e.wall, e.enabled, e.paused, e.remaining, e.turn, n)
  BY DEF Made, Shape, Formed
<1>2. /\ Shape(g) /\ g.id = e.id /\ g.kind = e.kind /\ g.due = e.due /\ g.every = e.every /\ g.wall = e.wall
      /\ g.enabled = e.enabled /\ g.paused = e.paused /\ g.remaining = e.remaining /\ g.turn = e.turn /\ g.left = n
  BY <1>1 DEF Made, Shape
<1> QED BY <1>2 DEF Formed, HasLeft

\* A step keeps an entry in its place, and begins a new turn or none.
Follows(e, g) == /\ Formed(g) /\ Exact(g) /\ g.id = e.id
                 /\ \/ g.turn = e.turn /\ (g.enabled => e.enabled)
                    \/ g.turn = e.turn + 1

LEMMA AlterFollows == ASSUME now \in Nat, NEW job, job.op = "snooze" => job.n \in Nat,
                             NEW e, Formed(e), Exact(e)
                      PROVE  Follows(e, Alarm!Alter(job, e))
<1>0. Follows(e, e)
  BY DEF Follows
<1>1. CASE job.op = "pause"
  <2>1. Alarm!Alter(job, e) = Alarm!Paused(e)
    BY <1>1 DEF Alarm!Alter
  <2>2. CASE e.paused
    BY <1>0, <2>1, <2>2 DEF Alarm!Paused
  <2>3. CASE ~e.paused
    <3>1. PICK g : g = Alarm!Paused(e)
      OBVIOUS
    <3>2. Stopped(e, g)
      BY <2>3, <3>1, PausedIs, Zenon
    <3>3. Exact(g)
      BY <2>3, <3>2 DEF Stopped, Exact, Alarm!Running, Alarm!Later
    <3>4. Follows(e, g)
      BY <3>2, <3>3 DEF Follows, Stopped
    <3> QED BY <2>1, <3>1, <3>4
  <2> QED BY <2>2, <2>3
<1>2. CASE job.op = "resume"
  <2>1. Alarm!Alter(job, e) = Alarm!Resumed(e)
    BY <1>2 DEF Alarm!Alter
  <2>2. CASE ~e.paused
    BY <1>0, <2>1, <2>2 DEF Alarm!Resumed
  <2>3. CASE e.paused
    <3>1. PICK f : f = Alarm!Again(e, e.remaining)
      OBVIOUS
    <3>2. PICK g : g = [f EXCEPT !.left = e.left]
      OBVIOUS
    <3>3. Began(e, e.remaining, f)
      BY <3>1, AgainIs, Zenon
    <3>4. HasLeft(f, e.left, g)
      BY <3>2, <3>3, LeftIs, Zenon DEF Began
    <3>5. Alarm!Resumed(e) = g
      BY <2>3, <3>1, <3>2 DEF Alarm!Resumed
    <3>6. Exact(g)
      BY <2>3, <3>3, <3>4 DEF Began, HasLeft, Exact, Alarm!Running
    <3>7. Follows(e, g)
      BY <3>3, <3>4, <3>6 DEF Follows, Began, HasLeft
    <3> QED BY <2>1, <3>5, <3>7
  <2> QED BY <2>2, <2>3
<1>3. CASE job.op = "snooze"
  <2>0. PICK g : g = Alarm!Again(e, job.n)
    OBVIOUS
  <2>1. Alarm!Alter(job, e) = g
    BY <1>3, <2>0 DEF Alarm!Alter
  <2>2. Began(e, job.n, g)
    BY <2>0, AgainIs, Zenon
  <2>3. Exact(g)
    BY <1>3, <2>2 DEF Began, Exact, Alarm!Running
  <2>4. Follows(e, g)
    BY <2>2, <2>3 DEF Follows, Began
  <2> QED BY <2>1, <2>4
<1>4. CASE job.op \notin {"pause", "resume", "snooze"}
  BY <1>0, <1>4 DEF Alarm!Alter
<1> QED BY <1>1, <1>2, <1>3, <1>4

\* What rings goes on to a new turn, or is over.
LEMMA RearmedFollows == ASSUME now \in Nat, NEW e, Formed(e), Exact(e), Alarm!Running(e),
                               e.due <= now
                        PROVE  /\ Follows(e, Alarm!Rearmed(e))
                               /\ Alarm!Rearmed(e).turn = e.turn => ~Alarm!Rearmed(e).enabled
<1>1. ASSUME NEW n, e.kind # "timer"
      PROVE  Follows(e, Alarm!Again(e, n)) /\ Alarm!Again(e, n).turn # e.turn
  <2>0. PICK g : g = Alarm!Again(e, n)
    OBVIOUS
  <2>1. Began(e, n, g)
    BY <2>0, AgainIs, Zenon
  <2>2. Exact(g)
    BY <1>1, <2>1 DEF Began, Exact
  <2>3. Follows(e, g)
    BY <2>1, <2>2 DEF Began, Follows
  <2>4. g.turn # e.turn
    BY <2>1 DEF Began, Formed
  <2> QED BY <2>0, <2>3, <2>4
<1>2. e.kind = "timer" => ~(e.every > 0) /\ e.wall = {}
  BY DEF Exact
<1>3. CASE e.every > 0
  BY <1>1, <1>2, <1>3 DEF Alarm!Rearmed
<1>4. CASE ~(e.every > 0) /\ e.wall # {}
  BY <1>1, <1>2, <1>4 DEF Alarm!Rearmed
<1>5. CASE ~(e.every > 0) /\ e.wall = {}
  <2>f. PICK no : no = FALSE
    OBVIOUS
  <2>0. PICK g : g = [e EXCEPT !.enabled = no]
    OBVIOUS
  <2>1. Ended(e, g)
    BY <2>f, <2>0, OverIs, Zenon
  <2>2. Alarm!Rearmed(e) = g
    BY <1>5, <2>f, <2>0, Zenon DEF Alarm!Rearmed
  <2>3. Exact(g)
    BY <2>1 DEF Ended, Exact, Alarm!Running
  <2>4. Follows(e, g)
    BY <2>1, <2>3 DEF Ended, Follows
  <2> QED BY <2>1, <2>2, <2>4 DEF Ended
<1> QED BY <1>3, <1>4, <1>5

LEMMA FollowsSound == ASSUME Alarm!ClockAssumption, Numbers, NEW e, NEW g, Sound(e), Follows(e, g),
                             now' = now, rung' = rung
                      PROVE  Sound(g)'
<1>1. Formed(g)' /\ Exact(g)'
  BY DEF Follows, Formed, Shape, Exact, Alarm!Running
<1>2. ASSUME NEW o \in DOMAIN rung, o[1] = g.id, o[2] > g.turn \/ (o[2] = g.turn /\ g.enabled)
      PROVE  rung[o] = 0
  <2>1. o[2] \in Nat
    BY <1>2, Ring DEF Numbers
  <2>2. e.turn \in Nat /\ o[1] = e.id
    BY <1>2 DEF Sound, Formed, Follows
  <2>3. o[2] > e.turn \/ (o[2] = e.turn /\ e.enabled)
    BY <1>2, <2>1, <2>2 DEF Follows
  <2> QED BY <2>2, <2>3 DEF Sound, Unrung
<1>3. Unrung(g)'
  BY <1>2 DEF Unrung
<1> QED BY <1>1, <1>3 DEF Sound

LEMMA TickSound == ASSUME Alarm!ClockAssumption, Numbers, NEW e, Sound(e), now' = now + 1,
                          rung' = rung, 
                          NEW g, g = IF Alarm!Running(e) THEN [e EXCEPT !.left = Alarm!Later(0, @ - 1)] ELSE e
                   PROVE  Sound(g)' /\ g.id = e.id
<1>1. CASE ~Alarm!Running(e)
  <2>1. g = e
    BY <1>1
  <2> QED BY <1>1, <2>1 DEF Numbers, Sound, Formed, Shape, Exact, Unrung, Alarm!Running
<1>2. CASE Alarm!Running(e)
  <2>1. PICK n : n = Alarm!Later(0, e.left - 1)
    OBVIOUS
  <2>2. g = [e EXCEPT !.left = n]
    BY <1>2, <2>1
  <2>3. HasLeft(e, n, g)
    BY <2>2, LeftIs, Zenon DEF Sound
  <2>4. Exact(g)'
    BY <1>2, <2>1, <2>3 DEF HasLeft, Sound, Exact, Alarm!Running, Alarm!Later, Numbers
  <2>5. Formed(g)' /\ Unrung(g)'
    BY <2>3 DEF HasLeft, Sound, Formed, Shape, Unrung
  <2> QED BY <2>3, <2>4, <2>5 DEF Sound, HasLeft
<1> QED BY <1>1, <1>2

\* The steps.
LEMMA TickClock == ASSUME Alarm!ClockAssumption, ClockInv, Alarm!Tick PROVE ClockInv'
<1> USE DEF ClockInv
<1>1. Numbers' /\ Unmade' /\ UNCHANGED <<rung, made, held>> /\ now' = now + 1
  BY DEF Alarm!Tick, Numbers, Unmade
<1>2. \A g \in alarms' : \E e \in alarms :
          /\ g = IF Alarm!Running(e) THEN [e EXCEPT !.left = Alarm!Later(0, @ - 1)] ELSE e
          /\ Sound(g)' /\ g.id = e.id
  <2> SUFFICES ASSUME NEW g \in alarms'
               PROVE  \E e \in alarms :
                         /\ g = IF Alarm!Running(e) THEN [e EXCEPT !.left = Alarm!Later(0, @ - 1)] ELSE e
                         /\ Sound(g)' /\ g.id = e.id
    OBVIOUS
  <2>1. PICK e \in alarms : g = IF Alarm!Running(e) THEN [e EXCEPT !.left = Alarm!Later(0, @ - 1)] ELSE e
    BY Zenon DEF Alarm!Tick
  <2>2. Sound(g)' /\ g.id = e.id
    BY <1>1, <2>1, TickSound, Zenon
  <2> QED BY <2>1, <2>2
<1>3. Places'
  <2>1. \A g \in alarms' : g.id <= made'
    BY <1>1, <1>2 DEF Places
  <2>2. \A g, h \in alarms' : g.id = h.id => g = h
    <3> SUFFICES ASSUME NEW g \in alarms', NEW h \in alarms', g.id = h.id PROVE g = h
      OBVIOUS
    <3>1. PICK e \in alarms : g = (IF Alarm!Running(e) THEN [e EXCEPT !.left = Alarm!Later(0, @ - 1)] ELSE e) /\ g.id = e.id
      BY <1>2, Zenon
    <3>2. PICK f \in alarms : h = (IF Alarm!Running(f) THEN [f EXCEPT !.left = Alarm!Later(0, @ - 1)] ELSE f) /\ h.id = f.id
      BY <1>2, Zenon
    <3>3. e = f
      BY <3>1, <3>2 DEF Places
    <3> QED BY <3>1, <3>2, <3>3, Zenon
  <2> QED BY <2>1, <2>2 DEF Places
<1>4. Locks'
  BY <1>1 DEF Alarm!Tick, Locks
<1> QED BY <1>1, <1>2, <1>3, <1>4

LEMMA StepSound == ASSUME NEW e, Sound(e), now' = now, rung' = rung PROVE Sound(e)'
BY DEF Sound, Formed, Shape, Exact, Unrung, Alarm!Running

\* A window that takes the lock reads the file that is there.
LEMMA HoldClock == ASSUME Alarm!ClockAssumption, ClockInv, NEW w \in Window, NEW job,
                          Alarm!Hold(w, job), 
                          made' \in Nat, made' >= made,
                          NEW j, j = [job EXCEPT !.copy = alarms], Job(j)'
                   PROVE  ClockInv'
<1> USE DEF ClockInv
<1>1. UNCHANGED <<now, alarms, rung>> /\ held' = [held EXCEPT ![w] = j]
  BY DEF Alarm!Hold
<1>2. Numbers'
  BY <1>1 DEF Numbers
<1>3. \A e \in alarms' : Sound(e)'
  BY <1>1, StepSound
<1>4. Places' /\ Unmade'
  <2>1. \A e \in alarms : e.id \in Nat
    BY DEF Sound, Formed
  <2>2. \A o \in DOMAIN rung : o[1] \in Nat
    BY Ring DEF Numbers
  <2> QED BY <1>1, <2>1, <2>2 DEF Places, Unmade, Numbers
<1>5. Locks'
  BY <1>1 DEF Alarm!Hold, Alarm!Free, Locks
<1> QED BY <1>2, <1>3, <1>4, <1>5

LEMMA PollClock == ASSUME Alarm!ClockAssumption, ClockInv, NEW w \in Window, Alarm!Poll(w)
                   PROVE  ClockInv'
<1>1. PICK j : j = [[op |-> "poll", copy |-> {}] EXCEPT !.copy = alarms]
  OBVIOUS
<1>2. Alarm!Hold(w, [op |-> "poll", copy |-> {}]) /\ made' = made /\ alarms' = alarms
  BY DEF Alarm!Poll, Alarm!Hold
<1>3. Job(j)'
  BY <1>1, <1>2 DEF Job, Jobs
<1>4. made' \in Nat /\ made' >= made
  BY <1>2 DEF ClockInv, Numbers
<1> QED BY <1>1, <1>2, <1>3, <1>4, HoldClock

LEMMA ChangeClock == ASSUME Alarm!ClockAssumption, ClockInv, NEW w \in Window, Alarm!Change(w)
                     PROVE  ClockInv'
<1>1. made' = made /\ made' \in Nat /\ made' >= made
  BY DEF Alarm!Change, ClockInv, Numbers
<1>2. PICK i \in Alarm!Id : \/ \E op \in {"pause", "resume"} : Alarm!Hold(w, [op |-> op, id |-> i, copy |-> {}])
                            \/ \E n \in Length : Alarm!Hold(w, [op |-> "snooze", id |-> i, n |-> n, copy |-> {}])
                            \/ Alarm!Hold(w, [op |-> "cancel", id |-> i, copy |-> {}])
  BY Zenon DEF Alarm!Change
<1>3. ASSUME NEW op \in {"pause", "resume", "cancel"},
             Alarm!Hold(w, [op |-> op, id |-> i, copy |-> {}])
      PROVE  ClockInv'
  <2>1. PICK j : j = [[op |-> op, id |-> i, copy |-> {}] EXCEPT !.copy = alarms]
    OBVIOUS
  <2>2. Job(j)'
    BY <1>3, <2>1 DEF Job, Jobs, Alarm!Hold
  <2> QED BY <1>1, <1>3, <2>1, <2>2, HoldClock
<1>4. ASSUME NEW n \in Length, Alarm!Hold(w, [op |-> "snooze", id |-> i, n |-> n, copy |-> {}])
      PROVE  ClockInv'
  <2>1. PICK j : j = [[op |-> "snooze", id |-> i, n |-> n, copy |-> {}] EXCEPT !.copy = alarms]
    OBVIOUS
  <2>2. Job(j)'
    BY <1>4, <2>1, ClockLimits DEF Job, Jobs, Alarm!Hold
  <2> QED BY <1>1, <1>4, <2>1, <2>2, HoldClock
<1> QED BY <1>2, <1>3, <1>4

LEMMA ClearClock == ASSUME Alarm!ClockAssumption, ClockInv, NEW w \in Window, Alarm!Clear(w)
                    PROVE  ClockInv'
<1>1. made' = made /\ made' \in Nat /\ made' >= made
  BY DEF Alarm!Clear, ClockInv, Numbers
<1>2. PICK kind : Alarm!Hold(w, [op |-> "clear", kind |-> kind, copy |-> {}])
  BY DEF Alarm!Clear
<1>3. PICK j : j = [[op |-> "clear", kind |-> kind, copy |-> {}] EXCEPT !.copy = alarms]
  OBVIOUS
<1>4. Job(j)'
  BY <1>2, <1>3 DEF Job, Jobs, Alarm!Hold
<1> QED BY <1>1, <1>2, <1>3, <1>4, HoldClock

\* A new entry: its name is new, and it has its whole time to run.
LEMMA EntryIs == ASSUME NEW i, NEW kind, NEW due, NEW every, NEW wall, NEW e,
                        e = Alarm!Entry(i, kind, due, every, wall)
                 PROVE  /\ Shape(e) /\ e.id = i /\ e.kind = kind /\ e.due = due /\ e.every = every /\ e.wall = wall
                        /\ e.enabled /\ ~e.paused /\ e.enabled \in BOOLEAN /\ e.paused \in BOOLEAN
                        /\ e.remaining = 0 /\ e.turn = 0 /\ e.left = due - now
BY DEF Alarm!Entry, Shape

LEMMA AddedSound == ASSUME Alarm!ClockAssumption, Numbers, Unmade, NEW e \in Alarm!Added(made + 1)
                    PROVE  Sound(e) /\ e.id = made + 1
<1>1. PICK kind, due, every, wall :
          /\ e = Alarm!Entry(made + 1, kind, due, every, wall)
          /\ kind = "timer" => every = 0 /\ wall = {} /\ \E n \in Length : due = now + n
  BY DEF Alarm!Added
<1>2. /\ Shape(e) /\ e.id = made + 1 /\ e.kind = kind /\ e.due = due /\ e.every = every /\ e.wall = wall
      /\ e.enabled /\ ~e.paused /\ e.enabled \in BOOLEAN /\ e.paused \in BOOLEAN
      /\ e.remaining = 0 /\ e.turn = 0 /\ e.left = due - now
  BY <1>1, EntryIs
<1>3. Formed(e)
  BY <1>2 DEF Formed, Numbers
<1>4. Exact(e)
  BY <1>1, <1>2, ClockLimits DEF Exact, Alarm!Running, Numbers
<1>5. Unrung(e)
  <2>1. \A o \in DOMAIN rung : o[1] \in Nat
    BY Ring DEF Numbers
  <2> QED BY <1>2, <2>1 DEF Unrung, Unmade, Numbers
<1> QED BY <1>2, <1>3, <1>4, <1>5 DEF Sound

LEMMA AddClock == ASSUME Alarm!ClockAssumption, ClockInv, NEW w \in Window, Alarm!Add(w)
                  PROVE  ClockInv'
<1>1. PICK e \in Alarm!Added(made + 1) : Alarm!Hold(w, [op |-> "add", entry |-> e, copy |-> {}])
  BY DEF Alarm!Add
<1>2. made' = made + 1 /\ UNCHANGED <<now, alarms, rung>> /\ made \in Nat
  BY <1>1 DEF Alarm!Add, Alarm!Hold, ClockInv, Numbers
<1>3. PICK j : j = [[op |-> "add", entry |-> e, copy |-> {}] EXCEPT !.copy = alarms]
  OBVIOUS
<1>4. Sound(e) /\ e.id = made + 1
  BY AddedSound DEF ClockInv
<1>5. Sound(e)'
  BY <1>2, <1>4, StepSound
<1>6. \A f \in alarms : f.id <= made /\ f.id \in Nat
  BY DEF ClockInv, Places, Sound, Formed
<1>7. Job(j)'
  <2>1. j.op = "add" /\ j.entry = e /\ j.copy = alarms
    BY <1>3
  <2> QED BY <1>2, <1>4, <1>5, <1>6, <2>1 DEF Job, Jobs
<1>8. made' \in Nat /\ made' >= made
  BY <1>2
<1> QED BY <1>1, <1>3, <1>7, <1>8, HoldClock

\* What rings is enabled, and its turn did not ring before.
LEMMA RingsOnce == ASSUME Alarm!ClockAssumption, ClockInv, NEW w \in Window, held[w] # Alarm!Idle,
                          Alarm!Save(w), held[w].op = "poll"
                   PROVE  /\ \A o \in DOMAIN rung : rung'[o] # rung[o] =>
                                 \E e \in Alarm!Fires(alarms) : o = <<e.id, e.turn>> /\ rung[o] = 0 /\ rung'[o] = 1
                          /\ rung' \in [Alarm!Id \X (0..(LastTick + MaxTurns)) -> 0..1]
<1>1. held[w].copy = alarms
  BY DEF ClockInv, Locks, Job
<1>2. rung' = [o \in DOMAIN rung |-> IF \E e \in Alarm!Fires(alarms) : o = <<e.id, e.turn>> THEN rung[o] + 1 ELSE rung[o]]
  BY <1>1 DEF Alarm!Save
<1>3. \A e \in Alarm!Fires(alarms) : e \in alarms /\ Alarm!Running(e) /\ e.due <= now
  BY DEF Alarm!Fires
<1>4. ASSUME NEW o \in DOMAIN rung, NEW e \in Alarm!Fires(alarms), o = <<e.id, e.turn>>
      PROVE  rung[o] = 0
  <2>1. o[1] = e.id /\ o[2] = e.turn /\ e.enabled
    BY <1>3, <1>4 DEF Alarm!Running
  <2> QED BY <1>3, <2>1 DEF ClockInv, Sound, Unrung
<1>5. \A o \in DOMAIN rung : rung'[o] = rung[o] \/ (rung[o] = 0 /\ rung'[o] = 1)
  BY <1>2, <1>4
<1>6. \A o \in DOMAIN rung : rung'[o] # rung[o] =>
           \E e \in Alarm!Fires(alarms) : o = <<e.id, e.turn>> /\ rung[o] = 0 /\ rung'[o] = 1
  BY <1>2, <1>4
<1>7. rung' \in [Alarm!Id \X (0..(LastTick + MaxTurns)) -> 0..1]
  BY <1>2, <1>5 DEF ClockInv, Numbers
<1> QED BY <1>6, <1>7

LEMMA PollSaved == ASSUME Alarm!ClockAssumption, ClockInv, NEW w \in Window, held[w] # Alarm!Idle,
                          Alarm!Save(w), held[w].op = "poll"
                   PROVE  Numbers' /\ (\A e \in alarms' : Sound(e)') /\ Places' /\ Unmade'
<1> USE DEF ClockInv
<1>1. held[w].copy = alarms /\ UNCHANGED <<now, made>>
  BY DEF Alarm!Save, Locks, Job
<1>2. alarms' = {IF e \in Alarm!Fires(alarms) THEN Alarm!Rearmed(e) ELSE e : e \in alarms}
  BY <1>1 DEF Alarm!Save, Alarm!Written
<1>3. \A e \in Alarm!Fires(alarms) : e \in alarms /\ Alarm!Running(e) /\ e.due <= now
  BY DEF Alarm!Fires
<1>4. ASSUME NEW e \in alarms, NEW g, g = IF e \in Alarm!Fires(alarms) THEN Alarm!Rearmed(e) ELSE e
      PROVE  Sound(g)' /\ g.id = e.id
  <2>1. Follows(e, g) /\ (e \in Alarm!Fires(alarms) => (g.turn = e.turn => ~g.enabled))
    <3>1. CASE e \in Alarm!Fires(alarms)
      BY <1>3, <1>4, <3>1, RearmedFollows DEF Sound, Numbers
    <3>2. CASE e \notin Alarm!Fires(alarms)
      BY <1>4, <3>2 DEF Follows, Sound
    <3> QED BY <3>1, <3>2
  <2>2. Formed(g)' /\ Exact(g)' /\ g.id = e.id
    BY <1>1, <2>1 DEF Follows, Formed, Shape, Exact, Alarm!Running
  <2>3. ASSUME NEW o \in DOMAIN rung, o[1] = g.id, o[2] > g.turn \/ (o[2] = g.turn /\ g.enabled)
        PROVE  rung'[o] = 0
    <3>1. o[2] \in Nat /\ o[1] = e.id /\ e.turn \in Nat
      BY <2>2, <2>3, Ring DEF Numbers, Sound, Formed
    <3>2. o[2] > e.turn \/ (o[2] = e.turn /\ e.enabled /\ e \notin Alarm!Fires(alarms))
      BY <2>1, <2>3, <3>1 DEF Follows
    <3>3. rung[o] = 0
      BY <3>1, <3>2 DEF Sound, Unrung
    <3>4. ASSUME NEW f \in Alarm!Fires(alarms), o = <<f.id, f.turn>> PROVE FALSE
      <4>1. f.id = e.id /\ o[2] = f.turn
        BY <3>1, <3>4
      <4>2. f = e
        BY <1>3, <4>1 DEF Places
      <4> QED BY <3>1, <3>2, <4>1, <4>2
    <3> QED BY <3>3, <3>4, RingsOnce
  <2>4. DOMAIN rung' = DOMAIN rung
    BY RingsOnce DEF Numbers
  <2>5. Unrung(g)'
    BY <2>3, <2>4 DEF Unrung
  <2> QED BY <2>2, <2>5 DEF Sound
<1>5. \A g \in alarms' : \E e \in alarms : g = (IF e \in Alarm!Fires(alarms) THEN Alarm!Rearmed(e) ELSE e) /\ Sound(g)' /\ g.id = e.id
  <2> SUFFICES ASSUME NEW g \in alarms'
               PROVE  \E e \in alarms : g = (IF e \in Alarm!Fires(alarms) THEN Alarm!Rearmed(e) ELSE e) /\ Sound(g)' /\ g.id = e.id
    OBVIOUS
  <2>1. PICK e \in alarms : g = IF e \in Alarm!Fires(alarms) THEN Alarm!Rearmed(e) ELSE e
    BY <1>2, Zenon
  <2>2. Sound(g)' /\ g.id = e.id
    BY <1>4, <2>1, Zenon
  <2> QED BY <2>1, <2>2, Zenon
<1>6. Numbers'
  BY <1>1, RingsOnce DEF Numbers
<1>7. Places'
  <2>1. \A g \in alarms' : g.id <= made'
    BY <1>1, <1>5 DEF Places
  <2>2. \A g, h \in alarms' : g.id = h.id => g = h
    <3> SUFFICES ASSUME NEW g \in alarms', NEW h \in alarms', g.id = h.id PROVE g = h
      OBVIOUS
    <3>1. PICK e \in alarms : g = (IF e \in Alarm!Fires(alarms) THEN Alarm!Rearmed(e) ELSE e) /\ g.id = e.id
      BY <1>5, Zenon
    <3>2. PICK f \in alarms : h = (IF f \in Alarm!Fires(alarms) THEN Alarm!Rearmed(f) ELSE f) /\ h.id = f.id
      BY <1>5, Zenon
    <3>3. e = f
      BY <3>1, <3>2 DEF Places
    <3> QED BY <3>1, <3>2, <3>3, Zenon
  <2> QED BY <2>1, <2>2 DEF Places
<1>8. Unmade'
  <2> SUFFICES ASSUME NEW o \in DOMAIN rung', o[1] > made' PROVE rung'[o] = 0
    BY DEF Unmade
  <2>1. o \in DOMAIN rung /\ rung[o] = 0
    BY <1>1, RingsOnce DEF Numbers, Unmade
  <2>2. ASSUME NEW e \in Alarm!Fires(alarms), o = <<e.id, e.turn>> PROVE FALSE
    BY <1>1, <1>3, <2>2 DEF Places, Sound, Formed, Numbers
  <2> QED BY <2>1, <2>2, RingsOnce
<1> QED BY <1>5, <1>6, <1>7, <1>8

\* The other jobs ring nothing; each leaves some entries, alters one or adds one.
LEMMA WrittenSaved == ASSUME Alarm!ClockAssumption, ClockInv, NEW w \in Window,
                             held[w] # Alarm!Idle, Alarm!Save(w), held[w].op # "poll"
                      PROVE  Numbers' /\ (\A e \in alarms' : Sound(e)') /\ Places' /\ Unmade'
<1> USE DEF ClockInv
<1>1. PICK j : j = held[w]
  OBVIOUS
<1>2. /\ Job(j) /\ j.op # "poll" /\ j.copy = alarms
  BY <1>1 DEF Locks, Job
<1>3. UNCHANGED <<now, made>> /\ alarms' = Alarm!Written(j)
  BY <1>1 DEF Alarm!Save
<1>4. rung' = rung
  BY DEF Alarm!Save, Numbers
<1>5. Numbers' /\ Unmade'
  BY <1>3, <1>4 DEF Numbers, Unmade
<1>6. \A e : Sound(e) => Sound(e)'
  BY <1>3, <1>4, StepSound
<1>7. CASE j.op = "add"
  <2>1. alarms' = alarms \cup {j.entry}
    BY <1>2, <1>3, <1>7 DEF Alarm!Written
  <2>2. \A e \in alarms' : Sound(e)'
    BY <1>2, <1>6, <1>7, <2>1 DEF Job
  <2>3. Places'
    BY <1>2, <1>3, <1>7, <2>1 DEF Job, Places
  <2> QED BY <1>5, <2>2, <2>3
<1>8. CASE j.op \in {"cancel", "clear"}
  <2>1. alarms' \subseteq alarms
    BY <1>2, <1>3, <1>8 DEF Alarm!Written
  <2> QED BY <1>3, <1>5, <1>6, <2>1 DEF Places
<1>9. CASE j.op \in {"pause", "resume", "snooze"}
  <2>1. alarms' = {IF e.id = j.id THEN Alarm!Alter(j, e) ELSE e : e \in alarms}
    BY <1>2, <1>3, <1>9 DEF Alarm!Written
  <2>2. ASSUME NEW g \in alarms'
        PROVE  \E e \in alarms : g = (IF e.id = j.id THEN Alarm!Alter(j, e) ELSE e) /\ Sound(g)' /\ g.id = e.id
    <3>1. PICK e \in alarms : g = IF e.id = j.id THEN Alarm!Alter(j, e) ELSE e
      BY <2>1, Zenon
    <3>2. Follows(e, g)
      <4>1. CASE e.id = j.id
        BY <1>2, <3>1, <4>1, AlterFollows DEF Job, Sound, Numbers
      <4>2. CASE e.id # j.id
        BY <3>1, <4>2 DEF Follows, Sound
      <4> QED BY <4>1, <4>2
    <3>3. Sound(g)' /\ g.id = e.id
      BY <1>3, <1>4, <3>2, FollowsSound DEF Follows
    <3> QED BY <3>1, <3>3, Zenon
  <2>3. \A g \in alarms' : g.id <= made'
    BY <1>3, <2>2 DEF Places
  <2>4. \A g, h \in alarms' : g.id = h.id => g = h
    <3> SUFFICES ASSUME NEW g \in alarms', NEW h \in alarms', g.id = h.id PROVE g = h
      OBVIOUS
    <3>1. PICK e \in alarms : g = (IF e.id = j.id THEN Alarm!Alter(j, e) ELSE e) /\ g.id = e.id
      BY <2>2, Zenon
    <3>2. PICK f \in alarms : h = (IF f.id = j.id THEN Alarm!Alter(j, f) ELSE f) /\ h.id = f.id
      BY <2>2, Zenon
    <3>3. e = f
      BY <3>1, <3>2 DEF Places
    <3> QED BY <3>1, <3>2, <3>3, Zenon
  <2> QED BY <1>5, <2>2, <2>3, <2>4 DEF Places
<1> QED BY <1>2, <1>7, <1>8, <1>9 DEF Job, Jobs

LEMMA SaveClock == ASSUME Alarm!ClockAssumption, ClockInv, NEW w \in Window, Alarm!Save(w)
                   PROVE  ClockInv'
<1>1. held[w] # Alarm!Idle /\ held' = [held EXCEPT ![w] = Alarm!Idle]
  BY DEF Alarm!Save
<1>2. Numbers' /\ (\A e \in alarms' : Sound(e)') /\ Places' /\ Unmade'
  BY <1>1, PollSaved, WrittenSaved
<1>3. Locks'
  BY <1>1 DEF ClockInv, Locks
<1> QED BY <1>2, <1>3 DEF ClockInv

\* A window that ends gives up its lock; one that opens has none.
LEMMA OpenClock == ASSUME Alarm!ClockAssumption, ClockInv, NEW w \in Window,
                          Alarm!Close(w) \/ Alarm!Open(w) \/ UNCHANGED Alarm!vars
                   PROVE  ClockInv'
<1> USE DEF ClockInv
<1>1. UNCHANGED <<now, alarms, made, rung>>
  BY DEF Alarm!Close, Alarm!Open, Alarm!vars
<1>2. Numbers' /\ Places' /\ Unmade'
  BY <1>1 DEF Numbers, Places, Unmade
<1>3. \A e : Sound(e) => Sound(e)'
  BY <1>1, StepSound
<1>4. held' = held \/ held' = [held EXCEPT ![w] = Alarm!Idle]
  BY DEF Alarm!Close, Alarm!Open, Alarm!vars
<1>5. Locks'
  <2>1. \A j : Job(j) => Job(j)'
    BY <1>1, <1>3 DEF Job
  <2> QED BY <1>4, <2>1 DEF Locks
<1> QED BY <1>1, <1>2, <1>3, <1>5

LEMMA ClockStep == ASSUME Alarm!ClockAssumption, ClockInv, [Alarm!Next]_Alarm!vars PROVE ClockInv'
<1>1. CASE Alarm!Tick
  BY <1>1, TickClock
<1>2. ASSUME NEW w \in Window,
             Alarm!Poll(w) \/ Alarm!Save(w) \/ Alarm!Add(w) \/ Alarm!Change(w) \/ Alarm!Clear(w) \/ Alarm!Close(w) \/ Alarm!Open(w)
      PROVE  ClockInv'
  BY <1>2, PollClock, SaveClock, AddClock, ChangeClock, ClearClock, OpenClock
<1>3. CASE UNCHANGED Alarm!vars
  <2>1. UNCHANGED <<now, alarms, held, made, rung>>
    BY <1>3 DEF Alarm!vars
  <2>2. \A e : Sound(e) => Sound(e)'
    BY <2>1, StepSound
  <2>3. \A j : Job(j) => Job(j)'
    BY <2>1, <2>2 DEF Job
  <2> QED BY <2>1, <2>2, <2>3 DEF ClockInv, Numbers, Places, Unmade, Locks
<1> QED BY <1>1, <1>2, <1>3 DEF Alarm!Next

\* However many windows look, pause, resume and snooze, a turn of an entry rings once, and a
\* timer when it has run for as long as it was set to (time_tools.py:173-186, 240-267).
THEOREM TimersExact == ASSUME Alarm!ClockAssumption PROVE Alarm!Spec => []RungInTime
<1>1. Alarm!Init => ClockInv
  BY ClockInit
<1>2. ClockInv /\ [Alarm!Next]_Alarm!vars => ClockInv'
  BY ClockStep
<1>3. ClockInv => RungInTime
  <2> SUFFICES ASSUME ClockInv PROVE RungInTime
    OBVIOUS
  <2>1. Alarm!RungOnce
    BY DEF ClockInv, Numbers, Alarm!RungOnce
  <2>2. Alarm!Measured
    BY DEF ClockInv, Sound, Exact, Alarm!Measured
  <2> QED BY <2>1, <2>2 DEF Alarm!RungInTime, RungInTime
<1> QED BY <1>1, <1>2, <1>3, PTL DEF Alarm!Spec

-----------------------------------------------------------------------------
(* A window with its threads (HQWindow). *)

\* What may be asked: a decision is one by its act and by its stage.
Item == {p \in [cat : HQ!Category, stage : {"once", "decision", "always"},
                act : {"signin", "notice", "decide", "allow"}] : p.act = "decide" <=> p.stage = "decision"}

Questions == pending \in Seq(Item) /\ active \in Item \cup {HQ!NoOne}

HQInv == Questions /\ Consent

LEMMA Items == /\ HQ!Signin \in Item /\ HQ!Notice \in Item /\ HQ!Decision \in Item
               /\ \A c \in HQ!Category : HQ!Always(c) \in Item
               /\ HQ!NoOne \notin Item
BY DEF Item, HQ!Signin, HQ!Notice, HQ!Decision, HQ!Always, HQ!NoOne, HQ!Category

\* A finite set of numbers has a largest and a smallest one.
LEMMA Extremes == ASSUME NEW S, S \subseteq Nat, S # {}, IsFiniteSet(S)
                  PROVE  /\ \E n \in S : \A m \in S : n >= m
                         /\ \E n \in S : \A m \in S : n <= m
<1> DEFINE Ends(U) == /\ \E n \in U : \A m \in U : n >= m
                      /\ \E n \in U : \A m \in U : n <= m
           Bad == {U \in SUBSET S : U # {} /\ ~ Ends(U)}
<1>1. SUFFICES ASSUME Bad # {} PROVE FALSE
  BY DEF Bad
<1>2. PICK U \in Bad : \A V \in Bad : ~ (<<V, U>> \in StrictSubsetOrdering(S))
  <2>1. Bad \subseteq FiniteSubsetsOf(S)
    BY FS_Subset DEF FiniteSubsetsOf
  <2>2. IsWellFoundedOn(StrictSubsetOrdering(S), FiniteSubsetsOf(S))
    BY FS_StrictSubsetOrderingWellFounded
  <2> QED BY <1>1, <2>1, <2>2, WFMin, Zenon
<1>3. PICK u \in U : TRUE
  OBVIOUS
<1> DEFINE V == U \ {u}
<1>4. V \in SUBSET S /\ U \in SUBSET S /\ V \subseteq U /\ V # U
  BY <1>3
<1>5. V \notin Bad
  BY <1>2, <1>4 DEF StrictSubsetOrdering
<1>6. CASE V = {}
  BY <1>3, <1>4, <1>6
<1>7. CASE Ends(V)
  <2>1. PICK n \in V : \A m \in V : n >= m
    BY <1>7
  <2>2. PICK k \in V : \A m \in V : k <= m
    BY <1>7
  <2>3. \E x \in U : \A m \in U : x >= m
    BY <1>3, <1>4, <2>1
  <2>4. \E x \in U : \A m \in U : x <= m
    BY <1>3, <1>4, <2>2
  <2> QED BY <2>3, <2>4
<1> QED BY <1>4, <1>5, <1>6, <1>7

\* A set of positions of the queue has a last and a first one.
LEMMA EndsIn == ASSUME NEW n \in Nat, NEW S, S \subseteq 1..n, S # {}
                PROVE  HQ!Max(S) \in S /\ HQ!Min(S) \in S
<1>1. S \subseteq Nat /\ IsFiniteSet(S)
  <2>1. IsFiniteSet(1..n)
    BY FS_Interval
  <2>2. IsFiniteSet(S)
    BY <2>1, FS_Subset
  <2> QED BY <2>2
<1>2. /\ \E x \in S : \A y \in S : x >= y
      /\ \E x \in S : \A y \in S : x <= y
  BY <1>1, Extremes
<1> QED BY <1>2 DEF HQ!Max, HQ!Min

\* What can be said of zero and of the successor can be said of a number.
LEMMA FirstOf == ASSUME NEW n \in Nat, NEW S, S \subseteq 0..n, S # {}
                 PROVE  \E m \in S : m = 0 \/ (m - 1 \in 0..n /\ m - 1 \notin S)
<1>1. S \subseteq Nat /\ IsFiniteSet(S)
  <2>1. IsFiniteSet(0..n)
    BY FS_Interval
  <2>2. IsFiniteSet(S)
    BY <2>1, FS_Subset
  <2> QED BY <2>2
<1>2. PICK m \in S : \A k \in S : m <= k
  BY <1>1, Extremes
<1> QED BY <1>1, <1>2

\* Who drops the questions of a category keeps questions.
LEMMA OthersType == ASSUME pending \in Seq(Item), NEW c PROVE HQ!Others(c) \in Seq(Item)
<1> DEFINE n == Len(pending)
           Next1(F, i) == IF i = 0 THEN <<>>
                          ELSE IF pending[i].cat = c THEN F[i - 1] ELSE Append(F[i - 1], pending[i])
           Table(m, F) == F = [i \in 0..m |-> Next1(F, i)]
           upTo == CHOOSE F : F = [i \in 0..n |-> Next1(F, i)]
<1>0. n \in Nat
  OBVIOUS
<1>1. \E F : Table(n, F)
  <2> DEFINE Bad == {m \in 0..n : ~ \E F : Table(m, F)}
  <2>0. n \in 0..n
    BY <1>0
  <2>1. SUFFICES ASSUME Bad # {} PROVE FALSE
    BY <2>0, Zenon
  <2>2. PICK m \in Bad : m = 0 \/ (m - 1 \in 0..n /\ m - 1 \notin Bad)
    BY <1>0, <2>1, FirstOf
  <2>3. CASE m = 0
    <3> DEFINE G == [i \in 0..0 |-> <<>>]
    <3>1. \A i \in 0..0 : Next1(G, i) = <<>>
      OBVIOUS
    <3>2. G = [i \in 0..0 |-> Next1(G, i)]
      BY <3>1
    <3> QED BY <2>2, <2>3, <3>2
  <2>4. CASE m # 0
    <3>1. PICK F : Table(m - 1, F)
      BY <2>2, <2>4
    <3> DEFINE G == [i \in 0..m |-> IF i = m THEN Next1(F, m) ELSE F[i]]
    <3>2. m \in Nat \ {0}
      BY <1>0, <2>2, <2>4
    <3>3. ASSUME NEW i \in 0..m PROVE G[i] = Next1(G, i)
      <4>1. CASE i = m
        <5>1. G[m - 1] = F[m - 1]
          BY <3>2
        <5>2. G[m] = Next1(F, m)
          BY <3>2
        <5> QED BY <3>2, <4>1, <5>1, <5>2
      <4>2. CASE i # m
        <5>1. G[i] = F[i] /\ i \in 0..(m - 1)
          BY <3>2, <4>2
        <5>2. F[i] = Next1(F, i)
          BY <3>1, <5>1
        <5>3. i # 0 => G[i - 1] = F[i - 1]
          BY <3>2, <4>2
        <5> QED BY <5>1, <5>2, <5>3
      <4> QED BY <4>1, <4>2
    <3>4. Table(m, G)
      BY <3>3
    <3> QED BY <2>2, <3>4
  <2> QED BY <2>3, <2>4
<1>2. upTo = [i \in 0..n |-> Next1(upTo, i)]
  BY <1>1
<1>3. HQ!Others(c) = upTo[n]
  BY DEF HQ!Others
<1> HIDE DEF upTo
<1>4. ASSUME NEW i \in 0..n PROVE upTo[i] = Next1(upTo, i)
  BY <1>2
<1>5. upTo[n] \in Seq(Item)
  <2> DEFINE Bad == {m \in 0..n : upTo[m] \notin Seq(Item)}
  <2>1. SUFFICES ASSUME Bad # {} PROVE FALSE
    BY <1>0
  <2>2. PICK m \in Bad : m = 0 \/ (m - 1 \in 0..n /\ m - 1 \notin Bad)
    BY <1>0, <2>1, FirstOf
  <2>3. upTo[m] = Next1(upTo, m)
    BY <1>4, <2>2
  <2>4. CASE m = 0
    <3>1. upTo[m] = <<>>
      BY <2>3, <2>4
    <3>2. <<>> \in Seq(Item)
      OBVIOUS
    <3> QED BY <2>2, <3>1, <3>2
  <2>5. CASE m # 0
    <3>1. upTo[m - 1] \in Seq(Item)
      BY <2>2, <2>5
    <3>2. pending[m] \in Item
      BY <1>0, <2>2, <2>5
    <3>3. Append(upTo[m - 1], pending[m]) \in Seq(Item)
      BY <3>1, <3>2
    <3> QED BY <2>2, <2>3, <2>5, <3>1, <3>3
  <2> QED BY <2>4, <2>5
<1> QED BY <1>3, <1>5

LEMMA Rest == ASSUME NEW T, NEW s \in Seq(T), NEW k \in Nat \ {0}
              PROVE  SubSeq(s, k, Len(s)) \in Seq(T)
<1>1. CASE k <= Len(s)
  BY <1>1
<1>2. CASE k > Len(s)
  <2>1. SubSeq(s, k, Len(s)) = <<>>
    BY <1>2
  <2> QED BY <2>1
<1> QED BY <1>1, <1>2

LEMMA QueueType == ASSUME Questions, NEW item \in Item PROVE HQ!Queue(item) \in Seq(Item)
<1>1. HQ!Kept(item) \in Seq(Item)
  BY OthersType DEF HQ!Kept, Questions
<1> QED BY <1>1 DEF HQ!Queue

LEMMA RememberType == ASSUME Questions, NEW c \in HQ!Category, HQ!Remember(c)
                      PROVE  pending' \in Seq(Item)
<1>1. HQ!Scope(c) \in HQ!Category
  BY DEF HQ!Scope, HQ!Category
<1> QED BY <1>1, Items DEF HQ!Remember, Questions

LEMMA HQInit == HQ!Init => HQInv
BY DEF HQ!Init, HQInv, Questions, Consent, HQ!Consent

LEMMA ConsumeStep == ASSUME HQInv, HQ!Consume PROVE HQInv'
<1> USE DEF HQInv
<1>1. UNCHANGED <<active, asked>> /\ HQ!Heard(Head(inbox))
  BY DEF HQ!Consume
<1> DEFINE m == Head(inbox)
<1>2. CASE m = "found" \/ m = "failed"
  <2>1. UNCHANGED <<pending, ran>>
    BY <1>1, <1>2 DEF HQ!Heard
  <2> QED BY <1>1, <2>1 DEF Questions, Consent, HQ!Consent
<1>3. CASE m = "ask"
  <2>1. CASE HQ!Mode("signin") = "allow"
    <3>1. pending' = pending /\ HQ!Carried(HQ!Signin, "policy")
      BY <1>1, <1>3, <2>1 DEF HQ!Heard
    <3>2. ran'.act = "signin" /\ ran'.mode = "allow"
      BY <2>1, <3>1 DEF HQ!Carried, HQ!Signin
    <3> QED BY <1>1, <3>1, <3>2 DEF Questions, Consent, HQ!Consent
  <2>2. CASE HQ!Mode("signin") # "allow"
    <3>1. ran' = ran /\ pending' \in {pending, HQ!Queue(HQ!Signin)}
      BY <1>1, <1>3, <2>2 DEF HQ!Heard
    <3> QED BY <1>1, <3>1, Items, QueueType DEF Questions, Consent, HQ!Consent
  <2> QED BY <2>1, <2>2
<1>4. CASE m = "popup_opened"
  <2>1. ran' = ran /\ HQ!Remember("signin")
    BY <1>1, <1>4 DEF HQ!Heard
  <2>2. pending' \in Seq(Item)
    BY <2>1, RememberType DEF HQ!Category
  <2> QED BY <1>1, <2>1, <2>2 DEF Questions, Consent, HQ!Consent
<1>5. CASE m = "event"
  <2>1. HQ!Request(HQ!Notice)
    BY <1>1, <1>5 DEF HQ!Heard
  <2>2. CASE HQ!Mode(HQ!Notice.cat) = "allow"
    <3>1. pending' = pending /\ HQ!Act(HQ!Notice, "policy")
      BY <2>1, <2>2 DEF HQ!Request
    <3>2. HQ!Carried(HQ!Notice, "policy") /\ HQ!Notice.act = "notice"
      BY <3>1 DEF HQ!Act, HQ!Notice
    <3>3. ran'.act = "notice" /\ ran'.mode = "allow"
      BY <2>2, <3>2 DEF HQ!Carried
    <3> QED BY <1>1, <3>1, <3>3 DEF Questions, Consent, HQ!Consent
  <2>3. CASE HQ!Mode(HQ!Notice.cat) # "allow"
    <3>1. ran' = ran /\ pending' \in {pending, HQ!Queue(HQ!Notice)}
      BY <2>1, <2>3 DEF HQ!Request
    <3> QED BY <1>1, <3>1, Items, QueueType DEF Questions, Consent, HQ!Consent
  <2> QED BY <2>2, <2>3
<1>6. CASE m \notin {"found", "failed", "ask", "popup_opened", "event"}
  <2>1. ran' = ran /\ pending' = HQ!Queue(HQ!Decision)
    BY <1>1, <1>6 DEF HQ!Heard
  <2> QED BY <1>1, <2>1, Items, QueueType DEF Questions, Consent, HQ!Consent
<1> QED BY <1>2, <1>3, <1>4, <1>5, <1>6

\* The queue is looked through up to its first question that has to be asked.
LEMMA TurnStep == ASSUME HQInv, HQ!Turn PROVE HQInv'
<1> USE DEF HQInv
<1>1. CASE wizard
  <2>1. UNCHANGED <<pending, active, asked, ran>>
    BY <1>1 DEF HQ!Turn
  <2> QED BY <2>1 DEF Questions, Consent, HQ!Consent
<1>2. CASE ~wizard /\ active # HQ!NoOne
  <2>1. UNCHANGED <<pending, active, ran>>
    BY <1>2 DEF HQ!Turn
  <2> QED BY <1>2, <2>1 DEF Questions, Consent, HQ!Consent
<1>3. CASE ~wizard /\ active = HQ!NoOne
  <2> DEFINE stop == {k \in DOMAIN pending : ~HQ!Moot(pending[k])}
             end == IF stop = {} THEN Len(pending) ELSE HQ!Min(stop) - 1
             run == {k \in 1..end : HQ!ByPolicy(pending[k]) /\ HQ!Mode(pending[k].cat) = "allow"}
  <2>1. /\ pending' = SubSeq(pending, end + 2, Len(pending))
        /\ active' = IF stop = {} THEN HQ!NoOne ELSE pending[end + 1]
        /\ asked' = (stop # {})
        /\ IF run = {} THEN ran' = ran
           ELSE IF \E k \in run : pending[k] = HQ!Signin THEN HQ!Carried(HQ!Signin, "policy")
           ELSE HQ!Carried(pending[HQ!Max(run)], "policy")
    BY <1>3 DEF HQ!Turn, HQ!Act
  <2>2. Len(pending) \in Nat /\ stop \subseteq 1..Len(pending) /\ \A k \in 1..Len(pending) : pending[k] \in Item
    BY DEF Questions
  <2>3. stop # {} => HQ!Min(stop) \in stop
    BY <2>2, EndsIn
  <2>4. end \in 0..Len(pending)
    BY <2>2, <2>3
  <2>5. Questions' /\ (asked' => active' # HQ!NoOne)
    <3>1. pending' \in Seq(Item)
      <4>1. SubSeq(pending, end + 2, Len(pending)) \in Seq(Item)
        <5>1. end + 2 \in Nat \ {0}
          BY <2>2, <2>4
        <5> QED BY <5>1, Rest DEF Questions
      <4> QED BY <2>1, <4>1
    <3>2. stop # {} => active' \in Item
      BY <2>1, <2>2, <2>3
    <3>3. CASE stop = {}
      BY <2>1, <3>1, <3>3 DEF Questions
    <3>4. CASE stop # {}
      BY <2>1, <3>1, <3>2, <3>4, Items DEF Questions
    <3> QED BY <3>3, <3>4
  <2>6. /\ ran'.act = "decide" => ran'.ground = "yes"
        /\ ran'.act \in {"signin", "notice"} => ran'.mode # "deny"
    <3> HIDE DEF end
    <3>1. CASE run = {}
      BY <2>1, <3>1 DEF Consent, HQ!Consent
    <3>2. ASSUME NEW k \in run,
                 ran' = [act |-> pending[k].act, ground |-> "policy", mode |-> HQ!Mode(pending[k].cat)]
          PROVE  ran'.act # "decide" /\ ran'.mode = "allow"
      <4>1. pending[k] \in Item /\ pending[k].stage = "once" /\ HQ!Mode(pending[k].cat) = "allow"
        BY <2>2, <2>4, <3>2 DEF HQ!ByPolicy
      <4> QED BY <3>2, <4>1 DEF Item
    <3>3. CASE run # {}
      <4>1. HQ!Max(run) \in run
        <5>1. end \in Nat /\ run \subseteq 1..end
          BY <2>2, <2>4
        <5> HIDE DEF run
        <5> QED BY <3>3, <5>1, EndsIn
      <4>2. \E k \in run : ran' = [act |-> pending[k].act, ground |-> "policy", mode |-> HQ!Mode(pending[k].cat)]
        BY <2>1, <3>3, <4>1 DEF HQ!Carried
      <4> QED BY <3>2, <4>2
    <3> QED BY <3>1, <3>3
  <2> QED BY <2>5, <2>6 DEF Consent, HQ!Consent
<1> QED BY <1>1, <1>2, <1>3

\* An answer: a popup is looked up again.
LEMMA YesStep == ASSUME HQInv, HQ!Yes PROVE HQInv'
<1> USE DEF HQInv
<1>1. asked /\ ~asked' /\ active' = HQ!NoOne /\ active \in Item
  BY DEF HQ!Yes, Questions, Consent, HQ!Consent
<1>2. CASE active.stage = "decision"
  <2>1. HQ!Act(active, "yes") /\ UNCHANGED <<policy, granted, offered, pending, edits>>
    BY <1>2 DEF HQ!Yes
  <2>2. ran'.act = "decide" /\ ran'.ground = "yes"
    BY <1>1, <1>2, <2>1 DEF HQ!Act, HQ!Carried, Item
  <2> QED BY <1>1, <2>1, <2>2 DEF Questions, Consent, HQ!Consent
<1>3. CASE active.stage = "always" \/ (active.stage = "once" /\ HQ!Barred(active))
  <2>1. UNCHANGED <<pending, ran>>
    BY <1>3 DEF HQ!Yes
  <2> QED BY <1>1, <2>1 DEF Questions, Consent, HQ!Consent
<1>4. CASE active.stage \notin {"decision", "always"} /\ ~HQ!Barred(active)
  <2>1. HQ!Act(active, "yes") /\ (HQ!Remember(active.cat) \/ pending' = pending)
    BY <1>4 DEF HQ!Yes
  <2>2. ran'.ground = "yes" /\ ran'.mode # "deny"
    BY <1>4, <2>1 DEF HQ!Act, HQ!Carried, HQ!Barred
  <2>3. pending' \in Seq(Item)
    BY <1>1, <2>1, RememberType DEF Item, Questions
  <2> QED BY <1>1, <2>2, <2>3 DEF Questions, Consent, HQ!Consent
<1> QED BY <1>1, <1>2, <1>3, <1>4 DEF Item

LEMMA KeyStep == ASSUME HQInv, HQ!Key PROVE HQInv'
<1> USE DEF HQInv
<1>1. CASE HQ!Yes
  BY <1>1, YesStep
<1>2. CASE HQ!NoKey \/ HQ!SetupAnswer \/ HQ!SetupEnds \/ HQ!SignInKey
  <2>1. UNCHANGED <<pending, active, asked, ran>>
    BY <1>2 DEF HQ!NoKey, HQ!SetupAnswer, HQ!SetupEnds, HQ!SignInKey, HQ!consent
  <2> QED BY <2>1 DEF Questions, Consent, HQ!Consent
<1>3. CASE HQ!No
  <2>1. UNCHANGED <<pending, ran>> /\ ~asked' /\ active' = HQ!NoOne
    BY <1>3 DEF HQ!No
  <2> QED BY <2>1 DEF Questions, Consent, HQ!Consent
<1>4. CASE HQ!Setup
  <2>1. ran' = ran /\ ~asked' /\ active' = HQ!NoOne
    BY <1>4 DEF HQ!Setup, HQ!Hidden
  <2>2. pending' \in Seq(Item)
    <3>1. active # HQ!NoOne => <<active>> \o pending \in Seq(Item)
      BY DEF Questions
    <3> QED BY <1>4, <3>1 DEF HQ!Setup, Questions
  <2> QED BY <2>1, <2>2 DEF Questions, Consent, HQ!Consent
<1> QED BY <1>1, <1>2, <1>3, <1>4 DEF HQ!Key

LEMMA HQStep == ASSUME HQInv, [HQ!Next]_HQ!vars PROVE HQInv'
<1>1. UNCHANGED <<pending, active, asked, ran>> => HQInv'
  BY DEF HQInv, Questions, Consent, HQ!Consent
<1>2. CASE HQ!Receive \/ HQ!Opened \/ HQ!ResumeDies
  BY <1>1, <1>2 DEF HQ!Receive, HQ!Opened, HQ!ResumeDies, HQ!consent
<1>3. ASSUME NEW kind \in {"resume", "browser"}, HQ!ThreadEnds(kind) PROVE HQInv'
  BY <1>1, <1>3 DEF HQ!ThreadEnds, HQ!consent
<1>4. CASE HQ!Elsewhere
  BY <1>1, <1>4 DEF HQ!Elsewhere
<1>5. CASE UNCHANGED HQ!vars
  BY <1>1, <1>5 DEF HQ!vars, HQ!consent
<1> QED BY <1>2, <1>3, <1>4, <1>5, ConsumeStep, TurnStep, KeyStep DEF HQ!Next

\* However the policies change under the questions that wait, in this window or another, a
\* decision is carried out on a yes to it, and a popup never against its policy of that
\* moment; what is drawn as a question is one (popup_permissions.py:170-211).
THEOREM Consented == HQ!Spec => []Consent
<1>1. HQInv => Consent
  BY DEF HQInv
<1> QED BY <1>1, HQInit, HQStep, PTL DEF HQ!Spec

-----------------------------------------------------------------------------
(* The sounds of the windows (QuietHours). *)

Windows == SUBSET (Nat \X Nat)
Word == [issued : Nat, at : Nat, windows : Windows]

\* Hours of quiet are pairs of times, wherever they are kept.
HoursForm == /\ now \in Nat /\ issued \in Nat
             /\ calendar \in [Lists -> Windows] /\ sources \in [Lists -> Windows] /\ manual \in Windows
             /\ mail \in SUBSET Word /\ heard \in Word /\ newest \in Word

\* An answer has a number of its own, which the file does not have while the
\* answer is on its way.
OwnNumber == /\ \A m \in mail : m.issued <= issued /\ m.issued # heard.issued
             /\ \A m, n \in mail : m.issued = n.issued => m = n
             /\ heard.issued <= issued

\* What is left of the newest answer is in the file.
FileCovers == newest.issued = heard.issued /\ Hours!Left(newest.windows) \subseteq heard.windows

HoursInv == HoursForm /\ OwnNumber /\ FileCovers /\ ~noise

LEMMA HoursInit == Hours!HoursAssumption /\ Hours!Init => HoursInv
BY DEF Hours!HoursAssumption, Hours!Init, HoursInv, HoursForm, OwnNumber, FileCovers, Hours!Nothing,
   Windows, Word, Hours!Left

\* The user hears nothing that is unwanted or in hours that the host has named.
LEMMA PlayQuiet == ASSUME HoursInv, NEW w, NEW what, Hours!Play(w, what) PROVE noise' = noise
<1>1. Hours!In(newest.windows) => Hours!In(heard.windows)
  BY DEF HoursInv, FileCovers, Hours!In, Hours!Left
<1>2. Hours!In(heard.windows) => Hours!Active
  BY DEF Hours!Active, Hours!In
<1>3. Hours!Wanted(w, what) => sound /\ (what = "auto" => auto[w])
  BY DEF Hours!Wanted
<1>4. noise = FALSE
  BY DEF HoursInv
<1> QED BY <1>1, <1>2, <1>3, <1>4 DEF Hours!Play

\* An answer that comes is taken by the file if it is the newest yet.
LEMMA AcceptStep == ASSUME HoursInv, NEW m \in mail, Hours!Accept(m) PROVE HoursInv'
<1> USE DEF HoursInv
<1>1. UNCHANGED <<now, issued, calendar, sources, manual, noise>> /\ mail' = mail \ {m}
  BY DEF Hours!Accept, Hours!host, Hours!calls
<1>2. m \in Word /\ m.issued \in Nat /\ m.at \in Nat /\ m.windows \in Windows /\ heard.issued \in Nat
  BY DEF HoursForm, Word
<1> DEFINE read == [m EXCEPT !.windows = Hours!Left(@)]
<1>3. read \in Word /\ read.issued = m.issued /\ read.windows = Hours!Left(m.windows)
  BY <1>2 DEF Word, Windows, Hours!Left
<1> HIDE DEF read
<1>4. CASE now - m.at <= Fresh /\ m.issued >= heard.issued
  <2>1. heard' = read
    BY <1>4 DEF Hours!Accept, Hours!Newer, read
  <2>2. m.issued # heard.issued
    BY DEF OwnNumber
  <2>3. m.issued > newest.issued
    BY <1>2, <1>4, <2>2 DEF FileCovers
  <2>4. newest' = m
    BY <1>4, <2>3 DEF Hours!Accept
  <2>5. HoursForm'
    BY <1>1, <1>2, <1>3, <2>1, <2>4 DEF HoursForm
  <2>6. OwnNumber'
    BY <1>1, <1>3, <2>1 DEF OwnNumber
  <2>7. FileCovers'
    BY <1>1, <1>3, <2>1, <2>4 DEF FileCovers, Hours!Left
  <2> QED BY <1>1, <2>5, <2>6, <2>7
<1>5. CASE ~(now - m.at <= Fresh /\ m.issued >= heard.issued)
  <2>1. heard' = heard
    BY <1>5 DEF Hours!Accept, Hours!Newer
  <2>2. newest' = newest
    BY <1>2, <1>5 DEF Hours!Accept, FileCovers
  <2> QED BY <1>1, <2>1, <2>2 DEF HoursForm, OwnNumber, FileCovers, Hours!Left
<1> QED BY <1>4, <1>5

LEMMA AnswerStep == ASSUME HoursInv, Hours!Answer PROVE HoursInv'
<1> USE DEF HoursInv
<1> DEFINE word == [issued |-> issued + 1, at |-> now,
                    windows |-> Hours!Left(manual \cup UNION {sources[k] : k \in Lists})]
<1>1. /\ UNCHANGED <<now, calendar, sources, manual, heard, newest, noise>>
      /\ issued' = issued + 1 /\ mail' = mail \cup {word}
  BY DEF Hours!Answer, Hours!calls
<1>2. word.issued = issued + 1 /\ word \in Word
  <2>1. Hours!Left(manual \cup UNION {sources[k] : k \in Lists}) \in Windows
    <3>1. \A k \in Lists : sources[k] \subseteq Nat \X Nat
      BY DEF HoursForm, Windows
    <3>2. UNION {sources[k] : k \in Lists} \subseteq Nat \X Nat
      BY <3>1
    <3>3. manual \subseteq Nat \X Nat
      BY DEF HoursForm, Windows
    <3>4. \A X : X \subseteq Nat \X Nat => Hours!Left(X) \subseteq Nat \X Nat
      BY DEF Hours!Left
    <3>5. manual \cup UNION {sources[k] : k \in Lists} \subseteq Nat \X Nat
      <4>1. \A X, Y : X \subseteq Nat \X Nat /\ Y \subseteq Nat \X Nat => X \cup Y \subseteq Nat \X Nat
        OBVIOUS
      <4> QED BY <3>2, <3>3, <4>1, Zenon
    <3> QED BY <3>4, <3>5, Zenon DEF Windows
  <2> QED BY <2>1 DEF Word, HoursForm
<1> HIDE DEF word
<1>3. issued \in Nat /\ heard.issued \in Nat /\ \A m \in mail : m.issued \in Nat
  BY DEF HoursForm, Word
<1>4. HoursForm'
  BY <1>1, <1>2 DEF HoursForm
<1>5. OwnNumber'
  <2>1. \A m \in mail' : m.issued <= issued' /\ m.issued # heard'.issued
    BY <1>1, <1>2, <1>3 DEF OwnNumber
  <2>2. \A m, n \in mail' : m.issued = n.issued => m = n
    BY <1>1, <1>2, <1>3 DEF OwnNumber
  <2> QED BY <1>1, <1>3, <2>1, <2>2 DEF OwnNumber
<1> QED BY <1>1, <1>4, <1>5 DEF FileCovers, Hours!Left

\* The calendar, the host and the clock leave the answers as they are.
LEMMA HostStep == ASSUME Hours!HoursAssumption, HoursInv,
                         Hours!Tick \/ Hours!Announce \/ Hours!Refresh \/ Hours!SetQuiet
                  PROVE  HoursInv'
<1> USE DEF HoursInv
<1>1. UNCHANGED <<issued, mail, heard, newest, noise>>
  BY DEF Hours!Tick, Hours!Announce, Hours!Refresh, Hours!SetQuiet, Hours!host, Hours!heard,
     Hours!calls
<1>2. now' \in Nat /\ now <= now'
  BY DEF Hours!Tick, Hours!Announce, Hours!Refresh, Hours!SetQuiet, HoursForm
<1>3. Hours!Left(newest.windows)' \subseteq Hours!Left(newest.windows)
  BY <1>1, <1>2 DEF Hours!Left, HoursForm, Word, Windows
<1>4. calendar' \in [Lists -> Windows] /\ sources' \in [Lists -> Windows] /\ manual' \in Windows
  <2>1. CASE Hours!Tick
    BY <2>1 DEF Hours!Tick, Hours!host, HoursForm
  <2>2. CASE Hours!Announce
    <3>1. PICK k \in Lists, x \in Exam :
             calendar' = [calendar EXCEPT ![k] = IF x \in @ THEN @ \ {x} ELSE @ \cup {x}]
      BY <2>2 DEF Hours!Announce
    <3>2. x \in Nat \X Nat
      BY DEF Hours!HoursAssumption
    <3> QED BY <2>2, <3>1, <3>2 DEF Hours!Announce, HoursForm, Windows
  <2>3. CASE Hours!Refresh
    <3>1. PICK read \in SUBSET Lists :
             sources' = [k \in Lists |-> Hours!Left(IF k \in read THEN calendar[k] ELSE sources[k])]
      BY <2>3 DEF Hours!Refresh
    <3>2. \A k \in Lists : Hours!Left(calendar[k]) \in Windows /\ Hours!Left(sources[k]) \in Windows
      BY DEF HoursForm, Windows, Hours!Left
    <3>3. \A k \in Lists : Hours!Left(IF k \in read THEN calendar[k] ELSE sources[k]) \in Windows
      BY <3>2
    <3>4. sources' \in [Lists -> Windows]
      BY <3>1, <3>3
    <3> QED BY <2>3, <3>4 DEF Hours!Refresh, HoursForm
  <2>4. CASE Hours!SetQuiet
    <3>1. PICK n \in Manual \cup {0} : manual' = IF n = 0 THEN {} ELSE {<<now, now + n>>}
      BY <2>4 DEF Hours!SetQuiet
    <3>2. n \in Nat
      BY DEF Hours!HoursAssumption
    <3>3. <<now, now + n>> \in Nat \X Nat
      BY <3>2 DEF HoursForm
    <3>4. manual' \in Windows
      BY <3>1, <3>3 DEF Windows
    <3> QED BY <2>4, <3>4 DEF Hours!SetQuiet, HoursForm
  <2> QED BY <2>1, <2>2, <2>3, <2>4
<1>5. HoursForm'
  BY <1>1, <1>2, <1>4 DEF HoursForm
<1>6. OwnNumber' /\ FileCovers'
  BY <1>1, <1>3 DEF OwnNumber, FileCovers
<1> QED BY <1>1, <1>5, <1>6

LEMMA Untouched == ASSUME HoursInv, UNCHANGED <<now, Hours!host, Hours!heard>>, noise' = noise
                   PROVE  HoursInv'
BY DEF Hours!host, Hours!heard, HoursInv, HoursForm, OwnNumber, FileCovers, Hours!Left

\* What users and windows do leaves the hours as they are, and plays what may be heard.
LEMMA CallStep == ASSUME HoursInv,
                         \/ Hours!Choose
                         \/ \E w \in Window : Hours!Turn(w) \/ Hours!AutoCall(w) \/ Hours!SetAuto(w) \/ Hours!Uwu(w) \/ Hours!Raise(w) \/ Hours!Decline(w)
                  PROVE  HoursInv'
<1>1. CASE Hours!Choose
  <2>1. UNCHANGED <<now, Hours!host, Hours!heard, noise>>
    BY <1>1 DEF Hours!Choose
  <2> QED BY <2>1, Untouched
<1>2. ASSUME NEW w \in Window, Hours!Turn(w) \/ Hours!SetAuto(w) \/ Hours!Decline(w) PROVE HoursInv'
  <2>1. UNCHANGED <<now, Hours!host, Hours!heard>>
    BY <1>2 DEF Hours!Turn, Hours!Tell, Hours!Sync, Hours!SetAuto, Hours!Decline
  <2>2. noise' = noise
    BY <1>2 DEF Hours!Turn, Hours!Tell, Hours!Sync, Hours!SetAuto, Hours!Decline
  <2> QED BY <2>1, <2>2, Untouched
<1>3. ASSUME NEW w \in Window, Hours!AutoCall(w) \/ Hours!Uwu(w) PROVE HoursInv'
  <2>1. UNCHANGED <<now, Hours!host, Hours!heard>>
    BY <1>3 DEF Hours!AutoCall, Hours!Uwu
  <2>2. PICK what \in {"auto", "uwu"} : Hours!Call(w, what)
    BY <1>3 DEF Hours!AutoCall, Hours!Uwu
  <2>3. Hours!Play(w, what) \/ noise' = noise
    BY <2>2 DEF Hours!Call
  <2> QED BY <2>1, <2>3, PlayQuiet, Untouched
<1>4. ASSUME NEW w \in Window, Hours!Raise(w) PROVE HoursInv'
  <2>1. UNCHANGED <<now, Hours!host, Hours!heard>>
    BY <1>4 DEF Hours!Raise
  <2>2. Hours!Play(w, asking[w]) \/ noise' = noise
    BY <1>4 DEF Hours!Raise
  <2> QED BY <2>1, <2>2, PlayQuiet, Untouched
<1> QED BY <1>1, <1>2, <1>3, <1>4

LEMMA HoursStep == ASSUME Hours!HoursAssumption, HoursInv, [Hours!Next]_Hours!vars PROVE HoursInv'
<1>1. CASE UNCHANGED Hours!vars
  BY <1>1, Untouched DEF Hours!vars, Hours!host, Hours!heard
<1>2. CASE Hours!Next
  BY <1>2, AcceptStep, AnswerStep, HostStep, CallStep DEF Hours!Next
<1> QED BY <1>1, <1>2

\* Whatever the answers of the host and the order in which they come, and however late a user
\* lets the volume be raised, no sound is heard in hours the host has called quiet or after
\* the user turned it off (audio_quiet.py:46, local_console.py:124, client.py:213).
THEOREM HoursKept == ASSUME Hours!HoursAssumption PROVE Hours!Spec => []Hushed
<1>1. Hours!Init => HoursInv
  BY HoursInit
<1>2. HoursInv /\ [Hours!Next]_Hours!vars => HoursInv'
  BY HoursStep
<1>3. HoursInv => Hushed
  BY DEF HoursInv, Hushed, Hours!Hushed
<1> QED BY <1>1, <1>2, <1>3, PTL DEF Hours!Spec
=============================================================================
