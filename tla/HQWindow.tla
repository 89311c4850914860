------------------------------ MODULE HQWindow ------------------------------
(***************************************************************************)
(* The terminal window of one person (campus_lan/client.py): a loop that   *)
(* empties an inbox, asks the first question that still needs an answer,   *)
(* and handles one key; the thread that reads the server, and the threads  *)
(* of a sign-in, which report through the same inbox; and the questions    *)
(* about popups (popup_permissions.py), whose policies are a file that all *)
(* windows of the person share.                                            *)
(*                                                                         *)
(* Three questions stand for all: a browser page (42 sign-in), a desktop   *)
(* notification, and a decision (a file receipt, joining a flock), which   *)
(* is asked like a notification but is no popup.  Bounds of the model:     *)
(* MaxEdits changes of the policies, MaxSignins sign-ins, MaxWire messages *)
(* of the server.                                                          *)
(***************************************************************************)
EXTENDS Integers, Sequences, SequencesExt

CONSTANTS InboxSize, MaxPending, MaxEdits, MaxSignins, MaxWire

VARIABLES phase,     \* of the loop: "read", "key" or "left"
          conn,      \* is the thread that reads the server still running
          inbox,
          signing,   \* signing_in
          threads,   \* [kind -> how many sign-in threads run]
          dead,      \* did a thread end without a message
          arrived,   \* auth_destination
          policy,    \* the file: [category -> mode], "unset" where it has none
          granted,   \* the browser is allowed for this session
          offered,   \* categories whose "always" was offered
          pending, active,   \* the questions
          asked,     \* permission_prompt: the active question is on screen
          wizard,    \* is /setup running
          ran,       \* the last act that was carried out, and on what ground
          edits, signins, wired

consent == <<policy, granted, offered, pending, active, asked, wizard, ran, edits>>
flow == <<signing, threads, dead, arrived, signins>>
vars == <<phase, conn, inbox, flow, consent, wired>>

Category == {"browser", "signin", "notifications"}
NoOne == [stage |-> "none"]
Signin == [cat |-> "signin", stage |-> "once", act |-> "signin"]
Notice == [cat |-> "notifications", stage |-> "once", act |-> "notice"]
Decision == [cat |-> "notifications", stage |-> "decision", act |-> "decide"]
Always(c) == [cat |-> c, stage |-> "always", act |-> "allow"]

Init == /\ phase = "read" /\ conn = TRUE /\ inbox = <<>>
        /\ signing = FALSE /\ threads = [resume |-> 0, browser |-> 0]
        /\ dead = FALSE /\ arrived = FALSE
        /\ policy = [c \in Category |-> "unset"] /\ granted = FALSE /\ offered = {}
        /\ pending = <<>> /\ active = NoOne /\ asked = FALSE /\ wizard = FALSE
        /\ ran = [act |-> "none", ground |-> "none", mode |-> "ask"]
        /\ edits = 0 /\ signins = 0 /\ wired = 0

\* The policy of a category; a browser page without one of its own has that
\* of the browser, and none if the browser is denied.
Own(c) == IF policy[c] = "unset" THEN "ask" ELSE policy[c]
Scope(c) == IF c = "signin" /\ policy[c] = "unset" THEN "browser" ELSE c
Persistent(c) == IF c = "signin" /\ policy["browser"] = "deny" THEN "deny" ELSE Own(Scope(c))
Mode(c) == IF Persistent(c) = "ask" /\ Scope(c) = "browser" /\ granted THEN "allow" ELSE Persistent(c)

\* start_signin(): a thread looks for a saved session; a second one, when the
\* user allowed the browser, waits for the callback.  One at a time.
Idle == ~signing
Starts(kind) == /\ signing' = TRUE /\ threads' = [threads EXCEPT ![kind] = @ + 1]
                /\ UNCHANGED <<dead, arrived, signins>>
Carried(item, ground) == ran' = [act |-> item.act, ground |-> ground, mode |-> Mode(item.cat)]
Act(item, ground) == /\ Carried(item, ground)
                     /\ IF item.act = "signin" /\ Idle THEN Starts("browser") ELSE UNCHANGED flow

\* request(), confirm() and remember() of Prompts: what becomes of the queue.
\* A notification first drops all that waits in its category, also decisions.
Others(c) ==
    LET upTo[n \in 0..Len(pending)] == IF n = 0 THEN <<>>
                                       ELSE IF pending[n].cat = c THEN upTo[n - 1]
                                       ELSE Append(upTo[n - 1], pending[n])
    IN  upTo[Len(pending)]
Kept(item) == IF item.act = "notice" THEN Others(item.cat) ELSE pending
Queue(item) == IF Len(Kept(item)) >= MaxPending THEN Kept(item) ELSE Append(Kept(item), item)
Request(item) == \/ Mode(item.cat) = "allow" /\ Act(item, "policy") /\ UNCHANGED pending
                 \/ Mode(item.cat) = "deny" /\ UNCHANGED <<pending, ran, flow>>
                 \/ /\ Mode(item.cat) = "ask" /\ UNCHANGED <<ran, flow>>
                    /\ pending' = IF item = active THEN pending ELSE Queue(item)
Remember(c) == LET s == Scope(c) IN
               IF Persistent(s) = "ask" /\ s \notin offered
               THEN offered' = offered \cup {s} /\ pending' = Append(pending, Always(s))
               ELSE UNCHANGED <<offered, pending>>
-----------------------------------------------------------------------------
\* The thread that reads the server drops what only this window may say.  If
\* the inbox stays full for two seconds it ends, and with it the connection.
Private == {"found", "ask", "failed", "popup_opened"}
Passed(kind) == kind \notin Private

Receive == /\ conn /\ wired < MaxWire /\ wired' = wired + 1
           /\ \E kind \in {"event", "koel_invite", "ask"} :
                 IF ~Passed(kind) THEN UNCHANGED <<conn, inbox>>
                 ELSE IF Len(inbox) < InboxSize THEN inbox' = Append(inbox, kind) /\ UNCHANGED conn
                 ELSE conn' = FALSE /\ UNCHANGED inbox
           /\ UNCHANGED <<phase, flow, consent>>

\* A sign-in thread ends: it found a destination, has to ask for the browser
\* (signin_resume), or failed; with a full inbox it takes the flag back itself.
Reports(kind) == IF kind = "resume" THEN {"found", "ask", "failed"} ELSE {"found", "failed"}
ThreadEnds(kind) == /\ threads[kind] > 0 /\ threads' = [threads EXCEPT ![kind] = @ - 1]
                    /\ IF Len(inbox) < InboxSize
                       THEN (\E m \in Reports(kind) : inbox' = Append(inbox, m)) /\ UNCHANGED signing
                       ELSE signing' = FALSE /\ UNCHANGED inbox
                    /\ UNCHANGED <<phase, conn, dead, arrived, signins, consent, wired>>

\* resume() catches OSError and ValueError.  An answer that breaks off in its
\* middle is an HTTPException, which is neither: the thread is gone.
ResumeDies == /\ threads.resume > 0 /\ threads' = [threads EXCEPT !.resume = @ - 1] /\ dead' = TRUE
              /\ UNCHANGED <<phase, conn, inbox, signing, arrived, signins, consent, wired>>

\* The browser was opened, says the thread; it goes on waiting for the code.
Opened == /\ threads.browser > 0 /\ Len(inbox) < InboxSize /\ "popup_opened" \notin Range(inbox)
          /\ inbox' = Append(inbox, "popup_opened")
          /\ UNCHANGED <<phase, conn, flow, consent, wired>>

\* consume(): one message after the other.
Settled == signing' = FALSE
Heard(m) ==
    CASE m = "found" -> /\ Settled /\ arrived' = TRUE
                        /\ UNCHANGED <<threads, dead, signins, offered, pending, ran>>
      [] m = "ask" -> IF Mode("signin") = "allow"
            THEN /\ Carried(Signin, "policy") /\ signing' = TRUE /\ threads' = [threads EXCEPT !.browser = @ + 1]
                 /\ UNCHANGED <<dead, arrived, signins, offered, pending>>
            ELSE /\ Settled /\ UNCHANGED <<threads, dead, arrived, signins, offered, ran>>
                 /\ pending' = IF Mode("signin") = "deny" \/ active = Signin THEN pending ELSE Queue(Signin)
      [] m = "failed" -> Settled /\ UNCHANGED <<threads, dead, arrived, signins, offered, pending, ran>>
      [] m = "popup_opened" -> Remember("signin") /\ UNCHANGED <<flow, ran>>
      [] m = "event" -> Request(Notice) /\ UNCHANGED offered
      [] OTHER -> pending' = Queue(Decision) /\ UNCHANGED <<flow, offered, ran>>
Consume == /\ phase = "read" /\ inbox # <<>> /\ inbox' = Tail(inbox) /\ Heard(Head(inbox))
           /\ UNCHANGED <<phase, conn, policy, granted, active, asked, wizard, edits, wired>>

\* permission_tick(): the queue up to its first question that has to be asked.
\* Popups that were denied since are dropped, those allowed since are run.
\* Mutant: decisions are run by policy, too.
ByPolicyAll(p) == Mode(p.cat) \in {"allow", "deny"}
ByPolicy(p) == p.stage = "once" /\ Mode(p.cat) \in {"allow", "deny"}

Moot(p) == ByPolicy(p) \/ (p.stage = "always" /\ Persistent(p.cat) # "ask")
Turn == /\ phase = "read" /\ inbox = <<>>
        /\ IF wizard THEN UNCHANGED <<pending, active, asked, ran, flow>>
           ELSE IF active # NoOne THEN asked' = TRUE /\ UNCHANGED <<pending, active, ran, flow>>
           ELSE LET stop == {k \in DOMAIN pending : ~Moot(pending[k])}
                    last == IF stop = {} THEN Len(pending) ELSE Min(stop) - 1
                    run == {k \in 1..last : ByPolicy(pending[k]) /\ Mode(pending[k].cat) = "allow"}
                IN /\ pending' = SubSeq(pending, last + 2, Len(pending))
                   /\ active' = IF stop = {} THEN NoOne ELSE pending[last + 1]
                   /\ asked' = (stop # {})
                   /\ IF run = {} THEN UNCHANGED <<ran, flow>>
                      ELSE IF \E k \in run : pending[k] = Signin THEN Act(Signin, "policy")
                      ELSE Act(pending[Max(run)], "policy")
        /\ phase' = IF arrived /\ ~asked' THEN "left" ELSE "key"
        /\ UNCHANGED <<conn, inbox, policy, granted, offered, wizard, edits, wired>>
-----------------------------------------------------------------------------
\* The keys: nothing; an answer; /setup and its answers; /signin.
Pressed == phase = "key" /\ phase' = "read" /\ UNCHANGED <<conn, inbox, wired>>

NoKey == Pressed /\ UNCHANGED <<flow, consent>>

SetPolicy(c, mode) == /\ edits < MaxEdits /\ edits' = edits + 1
                      /\ policy' = [policy EXCEPT ![c] = mode]
                      /\ granted' = (granted /\ (c # "browser" \/ mode = "allow"))

\* answer(): a popup is looked up again, since its policy may have changed.
Barred(item) == Mode(item.cat) = "deny"
Yes == /\ Pressed /\ asked /\ asked' = FALSE /\ active' = NoOne
       /\ CASE active.stage = "decision" -> Act(active, "yes") /\ UNCHANGED <<policy, granted, offered, pending, edits>>
            [] active.stage = "always" -> /\ policy' = [policy EXCEPT ![active.cat] = "allow"]
                                          /\ UNCHANGED <<flow, granted, offered, pending, ran, edits>>
            [] active.stage = "once" /\ Barred(active) -> UNCHANGED <<flow, policy, granted, offered, pending, ran, edits>>
            [] OTHER -> /\ Act(active, "yes") /\ granted' = (granted \/ Scope(active.cat) = "browser")
                        /\ IF active.act = "notice" \/ ~Idle THEN Remember(active.cat) ELSE UNCHANGED <<offered, pending>>
                        /\ UNCHANGED <<policy, edits>>
       /\ UNCHANGED wizard
No == /\ Pressed /\ asked /\ asked' = FALSE /\ active' = NoOne
      /\ UNCHANGED <<flow, policy, granted, offered, pending, wizard, ran, edits>>

\* /setup takes the question off the screen and puts it back in front.
Hidden == asked' = FALSE
Setup == /\ Pressed /\ ~wizard /\ wizard' = TRUE /\ Hidden
         /\ active' = NoOne /\ pending' = IF active = NoOne THEN pending ELSE <<active>> \o pending
         /\ UNCHANGED <<flow, policy, granted, offered, ran, edits>>
SetupAnswer == /\ Pressed /\ wizard /\ wizard' \in BOOLEAN
               /\ \E c \in Category, mode \in {"allow", "ask", "deny"} : SetPolicy(c, mode)
               /\ UNCHANGED <<flow, offered, pending, active, asked, ran>>
SetupEnds == /\ Pressed /\ wizard /\ wizard' = FALSE
             /\ UNCHANGED <<flow, policy, granted, offered, pending, active, asked, ran, edits>>

\* /signin, and the automatic one at the start; not while a question is asked.
SignInKey == /\ Pressed /\ ~asked /\ ~wizard /\ Idle /\ signins < MaxSignins
             /\ signing' = TRUE /\ threads' = [threads EXCEPT !.resume = @ + 1] /\ signins' = signins + 1
             /\ UNCHANGED <<dead, arrived, consent>>

\* Another window of the same person, or /settings permissions in this one.
Elsewhere == /\ phase # "left" /\ \E c \in Category, mode \in {"allow", "ask", "deny"} : SetPolicy(c, mode)
             /\ UNCHANGED <<phase, conn, inbox, flow, offered, pending, active, asked, wizard, ran, wired>>

Key == NoKey \/ Yes \/ No \/ Setup \/ SetupAnswer \/ SetupEnds \/ SignInKey
Next == \/ Receive \/ ResumeDies \/ Opened \/ Consume \/ Turn \/ Key \/ Elsewhere
        \/ \E kind \in {"resume", "browser"} : ThreadEnds(kind)

\* The loop goes round at least every 80 ms, and a thread has time limits.
Spec == /\ Init /\ [][Next]_vars /\ WF_vars(Consume) /\ WF_vars(Turn) /\ WF_vars(Key)
        /\ \A kind \in {"resume", "browser"} : WF_vars(ThreadEnds(kind))
-----------------------------------------------------------------------------
\* There is one sign-in at a time: the flag stands for one thread that runs
\* or one message of it that was not read yet, whatever the server sends,
\* however often the user asks, and when the inbox is full.
Outstanding == threads.resume + threads.browser
               + Cardinality({k \in DOMAIN inbox : inbox[k] \in {"found", "ask", "failed"}})
OneSignIn == Outstanding = IF signing /\ ~dead THEN 1 ELSE 0

\* What is drawn as a question is one (drawing takes the active question
\* apart); a decision is carried out on a yes to it alone, and a popup never
\* against its policy of that moment, which any window may have set.
Consent == /\ asked => active # NoOne
           /\ ran.act = "decide" => ran.ground = "yes"
           /\ ran.act \in {"signin", "notice"} => ran.mode # "deny"

\* A decision that waits is asked: it goes only by an answer.  (It does not:
\* a notification that is queued removes it, see Kept.)
Waiting == Cardinality({k \in DOMAIN pending : pending[k] = Decision}) + IF active = Decision THEN 1 ELSE 0
DecisionsAsked == [][Waiting' >= Waiting \/ Yes \/ No]_vars

\* A sign-in does not stay "already waiting": it arrives or may be started
\* again.  The exception is the thread that died without a message.
SignInOver == ~signing \/ dead \/ phase = "left"
SignInSettles == []<>SignInOver
=============================================================================
