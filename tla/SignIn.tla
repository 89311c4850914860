------------------------------- MODULE SignIn -------------------------------
(***************************************************************************)
(* A sign-in from the client's side (campus_lan/auth_client.py), through   *)
(* the callback relay of the local node (auth.py, CallbackRelay) and the   *)
(* browser.  The windows of one machine share the relay and the file with  *)
(* the session; the broker is the one of AuthBroker, reduced to which      *)
(* flows may still be redeemed.                                            *)
(*                                                                         *)
(* An attempt is one call of sign_in().  Its answers may be lost, its      *)
(* window closed, the node restarted, and the browser may call back late,  *)
(* twice, or never.  A provider token is what identify() works with.       *)
(***************************************************************************)
EXTENDS Naturals, FiniteSets

CONSTANTS Attempt,
          MaxWaiters,    \* 8 callbacks a node waits for
          MaxBusy,       \* 32 requests the broker serves at once
          NoAttempt,
          MaxCallbacks   \* bound of the instance on what the browser sends

\* What an instance must satisfy.
SignInAssumption == NoAttempt \notin Attempt /\ MaxWaiters \in Nat

VARIABLES step,      \* [Attempt -> where sign_in() is]
          waiters,   \* [Attempt -> its entry in the relay, and the result of its future]
          flows,     \* flows that the broker would still redeem
          serving,   \* requests to the broker that are being served
          tokens,    \* provider tokens that were issued and not revoked
          sessions,  \* sessions that the broker issued
          got,       \* [Attempt -> the code it was handed, by the flow it is for]
          file,      \* whose session auth-session.json holds
          clearing,  \* windows that found their session there, and will unlink the file
          since,     \* [Attempt -> the sessions saved since its window looked]
          calls

NoEntry == [at |-> "none"]
OpenEntry == [at |-> "open"]

stored == <<file, clearing, since>>
vars == <<step, waiters, flows, serving, tokens, sessions, got, stored, calls>>

Init == /\ step = [a \in Attempt |-> "new"]
        /\ waiters = [a \in Attempt |-> NoEntry]
        /\ flows = {} /\ serving = {} /\ tokens = {} /\ sessions = {}
        /\ got = [a \in Attempt |-> NoAttempt]
        /\ file = NoAttempt /\ clearing = {} /\ since = [a \in Attempt |-> {}]
        /\ calls = 0

Ended == {"done", "failed"}
To(a, s) == step' = [step EXCEPT ![a] = s]
Waiting == {a \in Attempt : waiters[a] # NoEntry}
\* The connection on which the client waits for its callback.
Listening(a) == step[a] \in {"registered", "opened"}

\* POST /begin: the broker is asked, and answers or does not; above the limit
\* of requests it refuses.
Begin(a) == /\ step[a] = "new"
            /\ \/ Cardinality(serving) < MaxBusy /\ flows' = flows \cup {a} /\ To(a, "begun")
               \/ flows' \in {flows, flows \cup {a}} /\ To(a, "failed")
            /\ UNCHANGED <<waiters, serving, tokens, sessions, got, stored, calls>>

\* wait(): the local node takes a registration, or is gone or full.
Room == Cardinality(Waiting) < MaxWaiters
Register(a) == /\ step[a] = "begun"
               /\ \/ Room /\ waiters' = [waiters EXCEPT ![a] = OpenEntry] /\ To(a, "registered")
                  \/ UNCHANGED waiters /\ To(a, "failed")
               /\ UNCHANGED <<flows, serving, tokens, sessions, got, stored, calls>>

\* The client opens the browser, or cannot and hangs up.
OpenBrowser(a) == /\ step[a] = "registered" /\ To(a, "opened")
                  /\ UNCHANGED <<waiters, flows, serving, tokens, sessions, got, stored, calls>>

\* handle(): the browser calls back with a code or an error.  Its future is
\* found by the state, and set once; anything else is answered with an error.
\* Mutant: the state is not compared.
DueAny(a) == {w \in Attempt : waiters[w] = OpenEntry}
Due(a) == IF waiters[a] = OpenEntry THEN {a} ELSE {}

Callback(a) == /\ a \in flows /\ calls < MaxCallbacks /\ calls' = calls + 1
               /\ \E r \in {"code", "error"} :
                     waiters' = [w \in Attempt |-> IF w \in Due(a) THEN [at |-> "set", what |-> r, of |-> a] ELSE waiters[w]]
               /\ UNCHANGED <<step, flows, serving, tokens, sessions, got, stored>>

\* wait() goes on: the result is written to the client and the entry removed.
Result(a) == waiters[a].at = "set"
Forward(a) == /\ Result(a) /\ waiters' = [waiters EXCEPT ![a] = NoEntry]
              /\ IF ~Listening(a) THEN UNCHANGED <<step, got>>
                 ELSE IF waiters[a].what = "code"
                 THEN To(a, "code") /\ got' = [got EXCEPT ![a] = waiters[a].of]
                 ELSE To(a, "failed") /\ UNCHANGED got
              /\ UNCHANGED <<flows, serving, tokens, sessions, stored, calls>>

\* Five minutes are over, or the client hung up: the entry is removed.
Forget(a) == waiters' = [waiters EXCEPT ![a] = NoEntry]

Expire(a) == /\ waiters[a] = OpenEntry /\ Forget(a)
             /\ IF Listening(a) THEN To(a, "failed") ELSE UNCHANGED step
             /\ UNCHANGED <<flows, serving, tokens, sessions, got, stored, calls>>

\* The node restarts after an update; its clients read the end of the stream.
Restart == /\ Waiting # {} /\ waiters' = [a \in Attempt |-> NoEntry]
           /\ step' = [a \in Attempt |-> IF Listening(a) THEN "failed" ELSE step[a]]
           /\ UNCHANGED <<flows, serving, tokens, sessions, got, stored, calls>>

\* The window of the attempt is closed, wherever it is.
Quit(a) == /\ step[a] \notin Ended /\ To(a, "failed")
           /\ UNCHANGED <<waiters, flows, serving, tokens, sessions, got, stored, calls>>

\* POST /exchange: the flow is redeemed, and the provider asked for a token.
Exchange(a) == /\ step[a] = "code"
               /\ IF a \in flows /\ got[a] = a /\ Cardinality(serving) < MaxBusy
                  THEN /\ flows' = flows \ {a} /\ serving' = serving \cup {a}
                       /\ tokens' = tokens \cup {a} /\ To(a, "exchanging")
                  ELSE UNCHANGED <<flows, serving, tokens>> /\ To(a, "failed")
               /\ UNCHANGED <<waiters, sessions, got, stored, calls>>

\* identify() ends, with an identity or without one; the token is revoked in
\* either case, if the provider can be reached.
Revoked(a) == tokens \ {a}
Identified(a) == /\ a \in serving /\ serving' = serving \ {a}
                 /\ \/ tokens' = Revoked(a)
                    \/ tokens' = tokens      \* best effort: revocation is down
                 /\ \/ sessions' = sessions \cup {a} /\ step' = [step EXCEPT ![a] = IF @ = "exchanging" THEN "answered" ELSE @]
                    \/ UNCHANGED sessions /\ step' = [step EXCEPT ![a] = IF @ = "exchanging" THEN "failed" ELSE @]
                 /\ UNCHANGED <<waiters, flows, got, stored, calls>>

\* The answer is saved, or was lost.
Save(a) == /\ step[a] = "answered"
           /\ \/ /\ file' = a /\ To(a, "done")
                 /\ since' = [b \in Attempt |-> IF b \in clearing THEN since[b] \cup {a} ELSE {}]
              \/ UNCHANGED <<file, since>> /\ To(a, "failed")
           /\ UNCHANGED <<waiters, flows, serving, tokens, sessions, got, clearing, calls>>

\* clear_session(): a window that was signed out reads the file and compares the
\* session there with the one it knows, and unlinks the file in a later step.
\* Mutant: it removes whatever session is there.
MineAlways(a) == TRUE
Mine(a) == file = a

SignOut(a) == /\ a \in sessions /\ step[a] = "done" /\ sessions' = sessions \ {a}
              /\ clearing' = IF Mine(a) THEN clearing \cup {a} ELSE clearing
              /\ UNCHANGED <<step, waiters, flows, serving, tokens, got, file, since, calls>>

Unlink(a) == /\ a \in clearing /\ clearing' = clearing \ {a}
             /\ file' = NoAttempt /\ since' = [since EXCEPT ![a] = {}]
             /\ UNCHANGED <<step, waiters, flows, serving, tokens, sessions, got, calls>>

\* change_host() and prepare(): the lobby is at another seat, because the user, the
\* locator or dailylogin says so, and whatever session is there is removed.
Relocate == /\ file # NoAttempt /\ file' = NoAttempt
            /\ UNCHANGED <<step, waiters, flows, serving, tokens, sessions, got, clearing, since, calls>>

Next == Restart \/ Relocate \/ \E a \in Attempt :
           \/ Begin(a) \/ Register(a) \/ OpenBrowser(a) \/ Callback(a) \/ Forward(a) \/ Expire(a)
           \/ Quit(a) \/ Exchange(a) \/ Identified(a) \/ Save(a)
           \/ SignOut(a) \/ Unlink(a)

\* Sockets and provider calls have time limits, and so has the relay's wait.
Goes(a) == Register(a) \/ OpenBrowser(a) \/ Exchange(a) \/ Identified(a) \/ Save(a)
Relay(a) == Forward(a) \/ Expire(a)
Spec == Init /\ [][Next]_vars /\ \A a \in Attempt : WF_vars(Goes(a)) /\ WF_vars(Relay(a))
-----------------------------------------------------------------------------
\* A code reaches the attempt it is for and no other, although windows share
\* the relay; the relay never holds more than it has room for, and what it
\* holds for a client that is gone it gives back.
OnlyItsCode == /\ \A a \in Attempt : got[a] \in {a, NoAttempt}
               /\ Cardinality(Waiting) <= MaxWaiters
               /\ file # NoAttempt => step[file] = "done"

\* A window that signs out removes its own session, or one that was saved after it
\* had looked at the file: never one that it could have seen there.  ("An old game
\* window must not delete a newly authenticated session", auth_client.py:118; one that
\* is saved between the two steps is deleted all the same.)
NewerKept == [][\A a, b \in Attempt : b \in clearing \ clearing' /\ file = a => a = b \/ a \in since[b]]_vars

\* Every attempt ends, and the relay's entry with it, whatever the browser,
\* the user, the node and the broker do in between.
AllEnded == \A a \in Attempt : step[a] \in {"new"} \cup Ended /\ waiters[a] = NoEntry
AttemptsEnd == []<>AllEnded
=============================================================================
