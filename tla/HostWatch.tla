----------------------------- MODULE HostWatch -----------------------------
(***************************************************************************)
(* The windows of one account that poll the announcement desk              *)
(* (campus_lan/announcement_client.py, HostWatch; announcement_ui.py).     *)
(*                                                                         *)
(* A window's thread polls and puts what is new into the inbox of the      *)
(* window, which may be full; the window shows it later.  The exclusive    *)
(* creation of a file makes one popup of it for the account on a machine.  *)
(* When a thread polls is left open.                                       *)
(***************************************************************************)
EXTENDS Announcements

CONSTANTS Window, InboxSize

VARIABLES cursor, known,  \* HostWatch.cursor and .epoch (0 for none)
          online,         \* HostWatch.online
          inbox,          \* messages not read yet: what became known, and the epoch
          shown,          \* [Window -> [Id -> 0..2]]: lines in the history of a window
          claimed,        \* files of announcement-notices
          popups          \* [Id -> 0..2]

watch == <<cursor, known, online, inbox, shown, claimed, popups>>

Init == /\ DeskInit
        /\ cursor = [w \in Window |-> 0] /\ known = [w \in Window |-> 0]
        /\ online = [w \in Window |-> FALSE]
        /\ inbox = [w \in Window |-> <<>>]
        /\ shown = [w \in Window |-> [i \in Id |-> 0]]
        /\ claimed = {} /\ popups = [i \in Id |-> 0]

More(n) == IF n = 0 THEN 1 ELSE 2

Put(w, message) == inbox' = IF Len(inbox[w]) < InboxSize
                            THEN [inbox EXCEPT ![w] = Append(@, message)] ELSE inbox

\* The entries that a poll with this cursor is answered with.
Answer(w) == {e \in Feed : e.seq > cursor[w]}

\* Where the cursor stands when the answer is looked at: a new process counts from one.
Reset(w) == IF known[w] # epoch THEN 0 ELSE cursor[w]

\* step(): the answer was filtered by the cursor that was sent.
Poll(w) == /\ Prune
           /\ LET valid == {e \in Answer(w) : e.seq > Reset(w)}
              IN /\ \/ valid = {} /\ cursor' = [cursor EXCEPT ![w] = Reset(w)]
                    \/ \E newest \in valid : /\ \A e \in valid : e.seq <= newest.seq
                                            /\ cursor' = [cursor EXCEPT ![w] = newest.seq]
                 /\ Put(w, [epoch |-> epoch, news |-> {e.id : e \in valid}])
           /\ known' = [known EXCEPT ![w] = epoch] /\ online' = [online EXCEPT ![w] = TRUE]
           /\ UNCHANGED <<shown, claimed, popups>>

\* The host does not answer: reported once, and again while it is not known what is
\* configured.
Miss(w) == /\ online' = [online EXCEPT ![w] = FALSE]
           /\ \/ Put(w, [epoch |-> known[w], news |-> {}])
              \/ ~online[w] /\ UNCHANGED inbox
           /\ UNCHANGED <<desk, cursor, known, shown, claimed, popups>>

\* Mutant: a window looks whether somebody has shown the popup, and does not claim it.
ClaimLooking(keys) == claimed' = claimed

Claim(keys) == claimed' = claimed \cup keys

\* announcement_event(): lines for this window, a popup for whoever claims it.
Show(w) == /\ inbox[w] # <<>>
           /\ LET message == Head(inbox[w])
                  mine == {i \in message.news : <<message.epoch, i>> \notin claimed}
              IN /\ shown' = [shown EXCEPT ![w] = [i \in Id |-> IF i \in message.news THEN More(@[i]) ELSE @[i]]]
                 /\ popups' = [i \in Id |-> IF i \in mine THEN More(popups[i]) ELSE popups[i]]
                 /\ Claim({<<message.epoch, i>> : i \in mine})
           /\ inbox' = [inbox EXCEPT ![w] = Tail(@)]
           /\ UNCHANGED <<desk, cursor, known, online>>

Next == \/ DeskNext /\ UNCHANGED watch
        \/ \E w \in Window : Poll(w) \/ Miss(w) \/ Show(w)
Spec == Init /\ [][Next]_<<desk, watch>>

\* "Each window gets terminal history and each local computer gets one desktop alert"
\* (docs/hosting.md:65): nothing is shown twice, whatever is polled late, missed or restarted.
HeardOnce == \A i \in Id : popups[i] <= 1 /\ \A w \in Window : shown[w][i] <= 1

\* "Every trusted running client receives an admin alert" (announcement_ui.py:80): an entry
\* of the feed that a window's cursor has passed is in its history or in its inbox.
EveryWindowHears == \A w \in Window : \A e \in feed :
    known[w] = epoch /\ e.seq <= cursor[w] =>
        shown[w][e.id] > 0 \/ \E m \in 1..Len(inbox[w]) : e.id \in inbox[w][m].news
=============================================================================
