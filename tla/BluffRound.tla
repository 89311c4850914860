----------------------------- MODULE BluffRound -----------------------------
(***************************************************************************)
(* One round of Who Said That? (campus_lan/games.py, class Bluff) in a     *)
(* room whose players may leave at any time.                               *)
(*                                                                         *)
(* Texts are left out: an entry is its author.  A vote names one player    *)
(* per entry; the points tell apart only whether the name is the author's, *)
(* so a ballot is the set of entries whose author it names.  The engine    *)
(* reads the clock only when it is called: a deadline is noticed late, at  *)
(* most Late units in an instance.  The room forbids a return to a running *)
(* round, so players only leave.                                           *)
(***************************************************************************)
EXTENDS Naturals, FiniteSetsExt

CONSTANTS Players,  \* the members when the host said /start
          Leader,   \* the player whose style the others imitate
          Seconds,  \* length of a phase
          Late      \* bound of the instance on how late the lobby ticks

\* What an instance must satisfy.
BluffAssumption == /\ Leader \in Players /\ IsFiniteSet(Players)
                   /\ Seconds \in Nat \ {0} /\ Late \in Nat

VARIABLES now, phase, deadline,
          present,  \* players who still sit in the room
          answers,  \* keys of Bluff.answers
          options,  \* authors of the shuffled entries
          votes,    \* voters, each with a ballot
          scores    \* of the players, when the result is known

vars == <<now, phase, deadline, present, answers, options, votes, scores>>

Init == /\ now = 0 /\ phase = "writing" /\ deadline = Seconds
        /\ present = Players /\ answers = {} /\ options = {}
        /\ votes = [p \in {} |-> {}] /\ scores = [p \in Players |-> 0]

Clock == /\ phase # "results" /\ now < deadline + Late /\ now' = now + 1
         /\ UNCHANGED <<phase, deadline, present, answers, options, votes, scores>>

\* leave(): the round goes on without p.
Leave(p) == /\ p \in present /\ present' = present \ {p}
            /\ UNCHANGED <<now, phase, deadline, answers, options, votes, scores>>
-----------------------------------------------------------------------------

\* Points of q: two for every entry of somebody else q saw through, one for every other
\* voter who did not recognise q's own entry.
Points(q, ballots) ==
    MapThenSumSet(LAMBDA v : IF v = q THEN 2 * Cardinality(ballots[v] \ {q})
                             ELSE IF q \in options \ ballots[v] THEN 1 ELSE 0, DOMAIN ballots)

\* Mutant: writing ends when the players still in the room have answered.
WritingDonePresent(given) == phase = "writing" /\ (present \subseteq given \/ now >= deadline)

WritingDone(given) == phase = "writing" /\ (given = Players \/ now >= deadline)

VotingDone(voters) == /\ phase = "voting"
                      /\ Cardinality(voters) >= Cardinality(Players) \/ now >= deadline

\* Enough was written to vote on.
Playable(given) == Leader \in given /\ Cardinality(given) >= 2

OpenVote(given) == /\ options' = given /\ phase' = "voting" /\ deadline' = now + Seconds
                   /\ UNCHANGED scores

\* Bluff.tick() on the answers and ballots of this moment: at most one phase per call.
Tick(given, ballots) ==
    \/ WritingDone(given) /\ Playable(given) /\ OpenVote(given)
    \/ WritingDone(given) /\ ~Playable(given)
       /\ phase' = "results" /\ UNCHANGED <<deadline, options, scores>>
    \/ VotingDone(DOMAIN ballots)
       /\ phase' = "results" /\ scores' = [q \in Players |-> Points(q, ballots)]
       /\ UNCHANGED <<deadline, options>>
    \/ ~WritingDone(given) /\ ~VotingDone(DOMAIN ballots)
       /\ UNCHANGED <<phase, deadline, options, scores>>

\* Lobby.tick(), every 0.2 seconds, while the room has a member and so exists.
Poll == present # {} /\ Tick(answers, votes) /\ UNCHANGED <<now, present, answers, votes>>

\* /answer, and the tick() behind it.
Answer(p) == /\ p \in present /\ phase = "writing" /\ now < deadline
             /\ answers' = answers \cup {p}
             /\ Tick(answers', votes)
             /\ UNCHANGED <<now, present, votes>>

\* /vote: one name per entry, replaced by a later vote of the same player.
Vote(p, ballot) == /\ p \in present /\ phase = "voting" /\ now < deadline
                   /\ votes' = [v \in DOMAIN votes \cup {p} |-> IF v = p THEN ballot ELSE votes[v]]
                   /\ Tick(answers, votes')
                   /\ UNCHANGED <<now, present, answers>>

Next == \/ Clock \/ Poll
        \/ \E p \in Players : \/ Leave(p) \/ Answer(p)
                              \/ \E ballot \in SUBSET options : Vote(p, ballot)

\* The clock runs and the lobby's tick task goes round.
Spec == Init /\ [][Next]_vars /\ WF_vars(Clock) /\ WF_vars(Poll)
-----------------------------------------------------------------------------
\* Entries have authors who answered, and every ballot is about these entries.
TypeOK == /\ now \in Nat /\ phase \in {"writing", "voting", "results"} /\ deadline \in Nat
          /\ present \subseteq Players /\ answers \subseteq Players /\ options \subseteq answers
          /\ DOMAIN votes \subseteq Players /\ \A v \in DOMAIN votes : votes[v] \subseteq options
          /\ scores \in [Players -> Nat]

\* Scoring is a zero-sum split (games.py:107-115): a guess about another's entry pays its
\* voter two points or its author one, never both and never neither, so the points of a
\* round are those of its guesses, whoever voted late, twice or not at all.
PointsBalance ==
    phase = "results" =>
        MapThenSumSet(LAMBDA q : scores[q], Players)
        = MapThenSumSet(LAMBDA v : Cardinality(options \ {v}) + Cardinality(votes[v] \ {v}),
                        DOMAIN votes)

\* "Timed rounds continue" (server.py:193): leaving never cuts a phase short for those who
\* stay; before its deadline a phase ends only when every player of the round is done.
NobodyCutOff == [][phase' # phase /\ now < deadline =>
                      IF phase = "writing" THEN answers' = Players ELSE DOMAIN votes' = Players]_vars

\* What is shown does not move under the voters: the entries are fixed once voting begins,
\* and ballots and points once they are revealed, whatever call arrives late.
FixedOnceShown == [][/\ phase # "writing" => UNCHANGED <<answers, options>>
                     /\ phase = "results" => UNCHANGED <<votes, scores, phase>>]_vars

\* A round is decided, however many of its players left or fell silent, unless all left and
\* the room is gone.
Decided == phase = "results" \/ present = {}
RoundEnds == []<>Decided
=============================================================================
