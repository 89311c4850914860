--------------------------- MODULE DirectMessages ---------------------------
(***************************************************************************)
(* The direct messages of one lobby connection (campus_lan/server.py):     *)
(* /dm, /uwu and group batches share the cooldown stamp last_dm.           *)
(*                                                                         *)
(* Commands run in the connection's own task, one at a time; a batch is a  *)
(* second task (client['dm_task']).  Both yield while a message is routed, *)
(* the batch also while it sleeps.                                         *)
(***************************************************************************)
EXTENDS Integers

CONSTANTS Cooldown,    \* 2 seconds
          Spacing,     \* 2.05 seconds, slept by the batch
          MaxTargets,  \* 100 in the code
          Horizon,     \* bounds of the instance: the clock when no batch sleeps,
          MaxSent      \* and the messages sent

\* What an instance must satisfy.
DirectAssumption == /\ {Cooldown, Spacing, MaxTargets, Horizon, MaxSent} \subseteq Nat
                    /\ Cooldown <= Spacing

VARIABLES now,
          last,     \* last_dm of the client; -1000 before the first message
          main,     \* the connection's task: idle, routing a message, ending or gone
          session,  \* the sign-in is active
          batch,    \* the batch task
          log       \* what was sent: messages, texts among them, the time of the last text

vars == <<now, last, main, session, batch, log>>

NoBatch == [at |-> "none", targets |-> 0, wake |-> 0, delivered |-> 0, failed |-> 0]

Init == /\ now = 0 /\ last = -1000
        /\ main = "idle" /\ session = TRUE
        /\ batch = NoBatch
        /\ log = [count |-> 0, texts |-> 0, text |-> -1000]

Running == batch.at \notin {"none", "done"}
Ready == now - last >= Cooldown

Tick == /\ now < Horizon \/ (batch.at = "sleeping" /\ now < batch.wake)
        /\ now' = now + 1
        /\ UNCHANGED <<last, main, session, batch, log>>

Expire == session /\ session' = FALSE /\ UNCHANGED <<now, last, main, batch, log>>

Sent(kind) == /\ log.count < MaxSent
              /\ log' = IF kind = "text"
                        THEN [count |-> log.count + 1, texts |-> log.texts + 1, text |-> now]
                        ELSE [log EXCEPT !.count = @ + 1]
              /\ last' = now
-----------------------------------------------------------------------------
\* Mutant: /dm does not wait for the batch.
DmBesideBatch == /\ main = "idle" /\ session /\ Ready
                 /\ Sent("text") /\ main' = "routing"
                 /\ UNCHANGED <<now, session, batch>>

\* /dm: the stamp is set before route_direct() is awaited.
Dm == /\ main = "idle" /\ session
      /\ ~Running /\ Ready
      /\ Sent("text") /\ main' = "routing"
      /\ UNCHANGED <<now, session, batch>>

\* /uwu looks at the stamp and not at the batch.
Uwu == /\ main = "idle" /\ session /\ Ready
       /\ Sent("poke") /\ main' = "routing"
       /\ UNCHANGED <<now, session, batch>>

\* route_direct() and the reply are done.
Routed == /\ main = "routing" /\ main' = "idle"
          /\ UNCHANGED <<now, last, session, batch, log>>

\* start_direct_batch()
Group(n) == /\ main = "idle" /\ session /\ ~Running
            /\ batch' = [NoBatch EXCEPT !.at = "planning", !.targets = n]
            /\ UNCHANGED <<now, last, main, session, log>>

Left == batch.targets - batch.delivered - batch.failed

\* direct_batch(), head of the loop: how long to sleep is computed once.
Plan == /\ batch.at = "planning"
        /\ batch' = IF Left = 0 THEN [batch EXCEPT !.at = "done"]
                    ELSE [batch EXCEPT !.at = "sleeping",
                                       !.wake = IF last + Spacing > now THEN last + Spacing ELSE now]
        /\ UNCHANGED <<now, last, main, session, log>>

\* Mutant: an expired sign-in skips the message it found and forgets the rest.
WakeForgetful == /\ batch.at = "sleeping" /\ now >= batch.wake
                 /\ \/ ~session /\ batch' = [batch EXCEPT !.failed = @ + 1, !.at = "done"]
                       /\ UNCHANGED <<last, log>>
                    \/ session /\ Sent("text") /\ batch' = [batch EXCEPT !.at = "routing"]
                 /\ UNCHANGED <<now, main, session>>

\* The sleep is over: an expired sign-in ends the batch, or the message goes out.
Wake == /\ batch.at = "sleeping" /\ now >= batch.wake
        /\ \/ /\ ~session
              /\ batch' = [batch EXCEPT !.failed = @ + Left, !.at = "done"]
              /\ UNCHANGED <<last, log>>
           \/ /\ session
              /\ Sent("text")
              /\ batch' = [batch EXCEPT !.at = "routing"]
        /\ UNCHANGED <<now, main, session>>

\* route_direct() of the batch returned, and the delivery was reported.
Delivered == /\ batch.at = "routing"
             /\ \/ batch' = [batch EXCEPT !.delivered = @ + 1, !.at = "planning"]
                \/ batch' = [batch EXCEPT !.failed = @ + 1, !.at = "planning"]
             /\ UNCHANGED <<now, last, main, session, log>>
-----------------------------------------------------------------------------

\* End of file: the finally clause cancels the batch task and waits for it.
End == /\ main = "idle"
       /\ main' = "ending"
       /\ batch' = IF Running THEN [batch EXCEPT !.at = "cancelled"] ELSE batch
       /\ UNCHANGED <<now, last, session, log>>

Cancelled == /\ batch.at = "cancelled" /\ batch' = NoBatch
             /\ UNCHANGED <<now, last, main, session, log>>

Unregister == /\ main = "ending" /\ batch.at # "cancelled"
              /\ main' = "gone"
              /\ UNCHANGED <<now, last, session, batch, log>>

Batch == Plan \/ Wake \/ Delivered \/ Cancelled

Next == \/ Tick \/ Expire
        \/ Dm \/ Uwu \/ Routed \/ (\E n \in 1..MaxTargets : Group(n))
        \/ End \/ Unregister
        \/ Batch

Spec == Init /\ [][Next]_vars

\* Routing is bounded by socket timeouts; time passes.
FairSpec == Spec /\ WF_vars(Tick) /\ WF_vars(Batch)
-----------------------------------------------------------------------------
\* The clock, the stamps and the batch keep their ranges.
TypeOK == /\ now \in Nat /\ last \in -1000..now
          /\ main \in {"idle", "routing", "ending", "gone"} /\ session \in BOOLEAN
          /\ batch \in [at : {"none", "planning", "sleeping", "routing", "cancelled", "done"},
                        targets : 0..MaxTargets, wake : 0..(now + Spacing),
                        delivered : 0..MaxTargets, failed : 0..MaxTargets]
          /\ log \in [count : 0..MaxSent, texts : 0..MaxSent, text : -1000..now]

\* Whatever mixture of /dm and batches a client uses, its texts are a cooldown apart.
TextsSpaced == [][log'.texts > log.texts
                     => log'.text - log.text >= Cooldown]_vars

\* A batch's summary counts every recipient exactly once, sign-out included.
SummaryComplete == batch.at = "done" => Left = 0

\* Nothing is sent in the name of a connection that ended.
SilentAfterEnd == [][(main \in {"ending", "gone"}) => UNCHANGED log]_vars

\* A batch ends: done, or cancelled with its connection (within the messages of the bound).
BatchOver == ~Running \/ log.count = MaxSent
BatchEnds == []<>BatchOver
=============================================================================
