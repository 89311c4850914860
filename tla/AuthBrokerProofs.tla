-------------------------- MODULE AuthBrokerProofs --------------------------
(***************************************************************************)
(* Proofs about AuthBroker for any limits and any number of flows, sources *)
(* and connections.                                                        *)
(***************************************************************************)
EXTENDS AuthBroker, FiniteSetTheorems, TLAPS

\* Grants are kept apart, and at most one is at the provider.
Apart == /\ pending \cap inflight = {} /\ pending \cap sessions = {} /\ inflight \cap sessions = {}
         /\ inflight = {} \/ \E f \in Flow : inflight = {f}
         /\ busy <=> inflight # {}

Finite == IsFiniteSet(pending) /\ IsFiniteSet(sessions)

Inv == TypeOK /\ Apart /\ Finite /\ Bounded

LEMMA InflightCount == ASSUME Apart
                       PROVE  /\ IsFiniteSet(inflight)
                              /\ Cardinality(inflight) = IF busy THEN 1 ELSE 0
<1>1. CASE inflight = {}
  BY <1>1, FS_EmptySet DEF Apart
<1>2. CASE \E f \in Flow : inflight = {f}
  BY <1>2, FS_Singleton DEF Apart
<1> QED BY <1>1, <1>2 DEF Apart

\* prune() only shrinks the tables.
LEMMA Pruned == ASSUME NEW S, IsFiniteSet(S)
                PROVE  /\ Unexpired(S) \subseteq S /\ IsFiniteSet(Unexpired(S))
                       /\ Cardinality(Unexpired(S)) <= Cardinality(S)
                       /\ Cardinality(Unexpired(S)) \in Nat /\ Cardinality(S) \in Nat
BY FS_Subset, FS_CardinalityType DEF Unexpired

LEMMA CurrentType == ASSUME TypeOK
                     PROVE  Current \in [Source -> [started : Nat, count : Nat]]
BY DEF TypeOK, Current, NoRate

LEMMA InitInv == Init => Inv
<1> SUFFICES ASSUME Init PROVE Inv
  OBVIOUS
<1>1. TypeOK
  <2>1. expires \in [Flow -> Nat] /\ rates \in [Source -> [started : Nat, count : Nat]]
    BY DEF Init, NoRate
  <2>2. conn \in [Conn -> [at : {"away", "asking", "served"}, flow : Flow \cup {NoFlow}]]
    BY DEF Init, Away
  <2>3. now \in Nat /\ busy \in BOOLEAN
    BY DEF Init
  <2> QED BY <2>1, <2>2, <2>3 DEF Init, TypeOK
<1>2. Apart
  BY DEF Init, Apart
<1>3. Cardinality({}) = 0 /\ IsFiniteSet({})
  BY FS_EmptySet
<1>4. Finite /\ Bounded
  BY <1>3, AuthAssumption DEF Init, Finite, Bounded
<1> QED BY <1>1, <1>2, <1>4 DEF Inv

\* The type of what a begin(), an exchange() or a refusal does to the tables.
LEMMA BeginInv == ASSUME Inv, NEW f \in Flow, NEW s \in Source, Begin(f, s) PROVE Inv'
<1> USE DEF Inv
<1>p. /\ Unexpired(pending) \subseteq pending /\ IsFiniteSet(Unexpired(pending))
      /\ Cardinality(Unexpired(pending)) \in Nat
      /\ Unexpired(sessions) \subseteq sessions /\ IsFiniteSet(Unexpired(sessions))
      /\ Cardinality(Unexpired(sessions)) \in Nat
  BY Pruned DEF Finite
<1>r. rates' \in [Source -> [started : Nat, count : Nat]]
  <2>1. Current[s] \in [started : Nat, count : Nat]
    BY CurrentType
  <2>2. [started |-> IF Current[s].count = 0 THEN now ELSE Current[s].started,
         count |-> Current[s].count + 1] \in [started : Nat, count : Nat]
    BY <2>1 DEF TypeOK
  <2> QED BY <2>2, CurrentType DEF Begin
<1>1. TypeOK'
  <2>1. expires' \in [Flow -> Nat]
    BY AuthAssumption DEF Begin, TypeOK
  <2> QED BY <1>p, <1>r, <2>1 DEF Begin, TypeOK, Recent
<1>2. Apart'
  BY <1>p DEF Begin, Apart, TypeOK
<1>3. f \notin Unexpired(pending)
  BY <1>p DEF Begin, TypeOK
<1>4. /\ IsFiniteSet(pending') /\ IsFiniteSet(sessions')
      /\ Cardinality(pending') = Cardinality(Unexpired(pending)) + 1
      /\ Cardinality(sessions') = Cardinality(Unexpired(sessions))
  BY <1>3, <1>p, FS_AddElement DEF Begin
<1>5. Cardinality(inflight') \in {0, 1}
  BY InflightCount DEF Begin
<1>6. Bounded'
  BY <1>p, <1>4, <1>5, AuthAssumption DEF Begin, Bounded
<1> QED BY <1>1, <1>2, <1>4, <1>6 DEF Finite

LEMMA ExchangeInv == ASSUME Inv, NEW f \in Flow, Exchange(f) PROVE Inv'
<1> USE DEF Inv
<1>p. /\ Unexpired(pending) \subseteq pending /\ IsFiniteSet(Unexpired(pending))
      /\ Cardinality(Unexpired(pending)) \in Nat /\ Cardinality(pending) \in Nat
      /\ Cardinality(Unexpired(pending)) <= Cardinality(pending)
      /\ Unexpired(sessions) \subseteq sessions /\ IsFiniteSet(Unexpired(sessions))
      /\ Cardinality(Unexpired(sessions)) \in Nat /\ Cardinality(sessions) \in Nat
      /\ Cardinality(Unexpired(sessions)) <= Cardinality(sessions)
  BY Pruned DEF Finite
<1>0. inflight = {} /\ inflight' = {f} /\ busy' = TRUE
  BY DEF Exchange, Apart
<1>1. TypeOK'
  BY <1>p, <1>0, CurrentType DEF Exchange, TypeOK, Recent
<1>2. Apart'
  BY <1>p, <1>0 DEF Exchange, Apart
<1>4. /\ IsFiniteSet(pending') /\ IsFiniteSet(sessions')
      /\ Cardinality(pending') = Cardinality(Unexpired(pending)) - 1
      /\ Cardinality(sessions') = Cardinality(Unexpired(sessions))
  BY <1>p, FS_RemoveElement DEF Exchange
<1>5. Cardinality(inflight) = 0 /\ Cardinality(inflight') = 1
  BY <1>0, FS_EmptySet, FS_Singleton
<1>6. Bounded'
  BY <1>p, <1>4, <1>5, AuthAssumption DEF Bounded
<1> QED BY <1>1, <1>2, <1>4, <1>6 DEF Finite

LEMMA IdentifiedInv == ASSUME Inv, NEW f \in Flow, Identified(f) PROVE Inv'
<1> USE DEF Inv
<1>0. inflight = {f} /\ inflight' = {} /\ busy' = FALSE
  BY DEF Identified, Apart
<1>s. sessions' = sessions \/ sessions' = sessions \cup {f}
  BY DEF Identified
<1>1. TypeOK'
  <2>1. expires' \in [Flow -> Nat]
    BY AuthAssumption DEF Identified, TypeOK
  <2> QED BY <1>0, <1>s, <2>1 DEF Identified, TypeOK
<1>2. Apart'
  BY <1>0, <1>s DEF Identified, Apart
<1>3. Cardinality(inflight) = 1 /\ Cardinality(inflight') = 0
  BY <1>0, FS_EmptySet, FS_Singleton
<1>4. /\ IsFiniteSet(sessions') /\ Cardinality(sessions') \in Nat /\ Cardinality(sessions) \in Nat
      /\ Cardinality(sessions') <= Cardinality(sessions) + 1
  <2>1. IsFiniteSet(sessions) /\ Cardinality(sessions) \in Nat
    BY FS_CardinalityType DEF Finite
  <2>2. /\ IsFiniteSet(sessions \cup {f})
        /\ Cardinality(sessions \cup {f}) \in {Cardinality(sessions), Cardinality(sessions) + 1}
    BY <2>1, FS_AddElement
  <2>3. CASE sessions' = sessions
    BY <2>1, <2>3
  <2>4. CASE sessions' = sessions \cup {f}
    BY <2>1, <2>2, <2>4
  <2> QED BY <1>s, <2>3, <2>4
<1>5. pending' = pending /\ Cardinality(pending) \in Nat
  BY FS_CardinalityType DEF Identified, Finite
<1>6. Bounded'
  BY <1>3, <1>4, <1>5, AuthAssumption DEF Bounded
<1> QED BY <1>1, <1>2, <1>4, <1>5, <1>6 DEF Finite

\* Steps that only shrink the tables.
LEMMA ShrinkInv ==
    ASSUME Inv, TypeOK', pending' \subseteq pending, sessions' \subseteq sessions,
           UNCHANGED <<inflight, busy>>
    PROVE  Inv'
<1>1. /\ IsFiniteSet(pending') /\ Cardinality(pending') <= Cardinality(pending)
      /\ IsFiniteSet(sessions') /\ Cardinality(sessions') <= Cardinality(sessions)
      /\ {Cardinality(pending), Cardinality(pending'), Cardinality(sessions),
          Cardinality(sessions')} \subseteq Nat
  BY FS_Subset, FS_CardinalityType DEF Inv, Finite
<1>2. Cardinality(inflight') = Cardinality(inflight) /\ Cardinality(inflight) \in Nat
  BY InflightCount DEF Inv
<1>3. Bounded'
  BY <1>1, <1>2, AuthAssumption DEF Inv, Bounded
<1>4. Apart'
  BY DEF Inv, Apart
<1> QED BY <1>1, <1>3, <1>4 DEF Inv, Finite

LEMMA NextInv == Inv /\ [Next]_vars => Inv'
<1> SUFFICES ASSUME Inv, [Next]_vars PROVE Inv'
  OBVIOUS
<1>t. TypeOK
  BY DEF Inv
<1>1. CASE Tick
  <2>1. TypeOK'
    BY <1>1, <1>t DEF Tick, TypeOK
  <2> QED BY <1>1, <2>1, ShrinkInv DEF Tick
<1>2. CASE Refused
  <2>1. pending' \subseteq pending /\ sessions' \subseteq sessions
    BY <1>2 DEF Refused, Unexpired
  <2>2. TypeOK'
    BY <1>2, <1>t, <2>1, CurrentType DEF Refused, TypeOK, Recent
  <2> QED BY <1>2, <2>1, <2>2, ShrinkInv DEF Refused
<1>3. CASE \E c \in Conn : Register(c) \/ Sweep(c) \/ Quit(c) \/ \E f \in Flow : Hello(c, f)
  <2>1. conn' \in [Conn -> [at : {"away", "asking", "served"}, flow : Flow \cup {NoFlow}]]
    BY <1>3, <1>t DEF Register, Sweep, Quit, Hello, TypeOK, Away
  <2>2. UNCHANGED <<now, issued, pending, inflight, sessions, expires, rates, exchanges, busy>>
    BY <1>3 DEF Register, Sweep, Quit, Hello
  <2>3. TypeOK'
    BY <1>t, <2>1, <2>2 DEF TypeOK
  <2> QED BY <2>2, <2>3, ShrinkInv
<1>4. CASE \E c \in Conn : Signout(c)
  <2>1. conn' \in [Conn -> [at : {"away", "asking", "served"}, flow : Flow \cup {NoFlow}]]
    BY <1>4, <1>t DEF Signout, TypeOK, Away
  <2>2. /\ UNCHANGED <<now, issued, pending, inflight, expires, rates, exchanges, busy>>
        /\ sessions' \subseteq sessions
    BY <1>4 DEF Signout
  <2>3. TypeOK'
    BY <1>t, <2>1, <2>2 DEF TypeOK
  <2> QED BY <2>2, <2>3, ShrinkInv
<1>5. CASE UNCHANGED vars
  <2>1. TypeOK'
    BY <1>5, <1>t DEF vars, TypeOK
  <2> QED BY <1>5, <2>1, ShrinkInv DEF vars
<1> QED BY <1>1, <1>2, <1>3, <1>4, <1>5, BeginInv, ExchangeInv, IdentifiedInv DEF Next
-----------------------------------------------------------------------------
THEOREM BrokerInvariance == Spec => []Inv
BY InitInv, NextInv, PTL DEF Spec

\* The broker's tables keep their types for any clock and any limits.
THEOREM BrokerTypeCorrect == Spec => []TypeOK
BY BrokerInvariance, PTL DEF Inv

\* A grant is waiting, at the provider or redeemed, never two of these, and the provider
\* serves one exchange at a time.
THEOREM GrantsUsedOnce == Spec => []OneUse
<1>1. Inv => OneUse
  BY InflightCount DEF Inv, Apart, OneUse
<1> QED BY <1>1, BrokerInvariance, PTL

\* The limits that begin() checks bound everything exchange() adds later.
THEOREM BrokerBounded == Spec => []Bounded
BY BrokerInvariance, PTL DEF Inv

\* No replayed callback brings a used or expired grant to the provider.
THEOREM NothingReplayed == Spec => NoReplay
<1> DEFINE Fresh == \A f \in issued : f \notin pending =>
                       f \notin pending' /\ (f \in inflight' => f \in inflight)
<1>1. ASSUME Inv, [Next]_vars PROVE [Fresh]_vars
  <2>1. CASE \E f \in Flow, s \in Source : Begin(f, s)
    BY <2>1 DEF Begin, Unexpired
  <2>2. CASE \E f \in Flow : Exchange(f)
    BY <2>2 DEF Exchange, Unexpired
  <2>3. CASE \E f \in Flow : Identified(f)
    BY <2>3 DEF Identified
  <2>4. CASE Tick \/ Refused
    BY <2>4 DEF Tick, Refused, Unexpired
  <2>5. CASE \E c \in Conn : \/ Register(c) \/ Signout(c) \/ Sweep(c) \/ Quit(c)
                             \/ \E f \in Flow : Hello(c, f)
    BY <2>5 DEF Register, Signout, Sweep, Quit, Hello
  <2> QED BY <1>1, <2>1, <2>2, <2>3, <2>4, <2>5 DEF Next
<1>2. NoReplay <=> [][Fresh]_vars
  BY PTL DEF NoReplay
<1> QED BY <1>1, <1>2, BrokerInvariance, PTL DEF Spec
-----------------------------------------------------------------------------
(* The exchanges of an hour pay for its sessions.  A grant is redeemed no earlier than it goes to *)
(* the provider, and the next one goes there no earlier than that.  So of the sessions that began *)
(* at a time x or later, all but one were exchanged at x or later.                                *)

\* The sessions that began at time x or later, and the exchanges made since.
BegunSince(x) == {f \in sessions : expires[f] >= x + SessionTTL}
MadeSince(x) == {t \in exchanges : t >= x}

\* No session began before the start or begins after now.
Lived == \A f \in sessions : SessionTTL <= expires[f] /\ expires[f] <= now + SessionTTL

\* One session of those begun since x may have been exchanged before, unless another grant went to
\* the provider later.
Allowance == IF busy THEN 0 ELSE 1
Paid == /\ IsFiniteSet(exchanges)
        /\ \A x \in Nat : x + Window >= now =>
              Cardinality(BegunSince(x)) <= Cardinality(MadeSince(x)) + Allowance

Budget == SessionTTL <= Window => Cardinality(sessions) <= MaxExchanges + Allowance

BudgetInv == Inv /\ Lived /\ Paid /\ Budget

LEMMA Counts == ASSUME Inv, Paid
                PROVE  /\ \A S \in SUBSET sessions : IsFiniteSet(S) /\ Cardinality(S) \in Nat
                                                     /\ Cardinality(S) <= Cardinality(sessions)
                       /\ \A S \in SUBSET exchanges : IsFiniteSet(S) /\ Cardinality(S) \in Nat
<1>1. IsFiniteSet(sessions) /\ IsFiniteSet(exchanges)
  BY DEF Inv, Finite, Paid
<1> QED BY <1>1, FS_Subset, FS_CardinalityType

\* What is left of the sessions keeps within what they are paid with, if the exchanges that are
\* forgotten are too old to matter and the provider is as busy as before.
LEMMA FewerPaid ==
    ASSUME BudgetInv, Inv', sessions' \subseteq sessions, \A f \in sessions' : expires'[f] = expires[f],
           exchanges' = exchanges \/ exchanges' = Recent, busy' = busy, now' \in Nat, now <= now'
    PROVE  BudgetInv'
<1> USE AuthAssumption
<1>1. /\ now \in Nat /\ Window \in Nat /\ exchanges \subseteq Nat
      /\ \A f \in sessions : expires[f] \in Nat
  BY DEF BudgetInv, Inv, TypeOK
<1>2. Lived'
  BY <1>1 DEF BudgetInv, Lived
<1>3. IsFiniteSet(exchanges') /\ Allowance' = Allowance
  BY FS_Subset DEF BudgetInv, Paid, Recent, Allowance
<1>4. ASSUME NEW x \in Nat, x + Window >= now'
      PROVE  Cardinality(BegunSince(x)') <= Cardinality(MadeSince(x)') + Allowance'
  <2>1. MadeSince(x)' = MadeSince(x)
    <3>1. \A t \in Nat : t >= x => t + Window >= now
      BY <1>1, <1>4
    <3> QED BY <1>1, <3>1 DEF MadeSince, Recent
  <2>2. BegunSince(x)' \subseteq BegunSince(x) /\ BegunSince(x) \subseteq sessions
    BY DEF BegunSince
  <2>3. /\ Cardinality(BegunSince(x)') <= Cardinality(BegunSince(x))
        /\ Cardinality(BegunSince(x)') \in Nat /\ Cardinality(BegunSince(x)) \in Nat
    <3>1. IsFiniteSet(BegunSince(x))
      BY <2>2, Counts DEF BudgetInv
    <3> QED BY <2>2, <3>1, FS_Subset, FS_CardinalityType
  <2>4. Cardinality(BegunSince(x)) <= Cardinality(MadeSince(x)) + Allowance
    BY <1>1, <1>4 DEF BudgetInv, Paid
  <2>5. Cardinality(MadeSince(x)) \in Nat
    BY Counts DEF BudgetInv, MadeSince
  <2> QED BY <1>3, <2>1, <2>3, <2>4, <2>5 DEF Allowance
<1>5. Budget'
  <2>1. /\ Cardinality(sessions') <= Cardinality(sessions)
        /\ Cardinality(sessions') \in Nat /\ Cardinality(sessions) \in Nat
    BY FS_Subset, FS_CardinalityType DEF BudgetInv, Inv, Finite
  <2> QED BY <1>3, <2>1 DEF BudgetInv, Budget, Allowance
<1> QED BY <1>2, <1>3, <1>4, <1>5 DEF BudgetInv, Paid

\* exchange() makes room for the session that may come of it: what has not expired began within
\* the hour that is counted.
LEMMA ExchangeBudget == ASSUME BudgetInv, NEW f \in Flow, Exchange(f) PROVE BudgetInv'
<1> USE AuthAssumption
<1>0. Inv' /\ Inv
  BY ExchangeInv DEF BudgetInv
<1>1. /\ now \in Nat /\ Window \in Nat /\ exchanges \subseteq Nat
      /\ \A g \in sessions : expires[g] \in Nat
  BY DEF BudgetInv, Inv, TypeOK
<1>2. /\ sessions' = Unexpired(sessions) /\ sessions' \subseteq sessions
      /\ UNCHANGED <<now, expires>> /\ ~busy /\ busy' = TRUE
      /\ exchanges' = Recent \cup {now} /\ now \notin Recent
  BY <1>1 DEF Exchange, Unexpired, Paced
<1>3. Lived'
  BY <1>2 DEF BudgetInv, Lived
<1>4. Allowance = 1 /\ Allowance' = 0
  BY <1>2 DEF Allowance
<1>5. IsFiniteSet(exchanges') /\ IsFiniteSet(Recent) /\ Cardinality(Recent) \in Nat
  BY <1>2, FS_Subset, FS_AddElement, FS_CardinalityType DEF BudgetInv, Paid, Recent
<1>6. ASSUME NEW x \in Nat, x + Window >= now
      PROVE  /\ Cardinality(BegunSince(x)') <= Cardinality(MadeSince(x)')
             /\ Cardinality(BegunSince(x)) <= Cardinality(MadeSince(x)) + 1
             /\ MadeSince(x) \subseteq Recent
  <2>0. MadeSince(x) \subseteq Recent /\ MadeSince(x) \subseteq exchanges
    <3>1. \A t \in Nat : t >= x => t + Window >= now
      BY <1>1, <1>6
    <3> QED BY <1>1, <3>1 DEF MadeSince, Recent
  <2>1. Cardinality(BegunSince(x)) <= Cardinality(MadeSince(x)) + 1
    BY <1>4, <1>6 DEF BudgetInv, Paid
  <2>2. BegunSince(x)' \subseteq BegunSince(x) /\ BegunSince(x) \subseteq sessions
    BY <1>2 DEF BegunSince
  <2>3. /\ Cardinality(BegunSince(x)') <= Cardinality(BegunSince(x))
        /\ Cardinality(BegunSince(x)') \in Nat /\ Cardinality(BegunSince(x)) \in Nat
    <3>1. IsFiniteSet(BegunSince(x))
      BY <2>2, Counts DEF BudgetInv
    <3> QED BY <2>2, <3>1, FS_Subset, FS_CardinalityType
  <2>4. CASE x <= now
    <3>1. MadeSince(x)' = MadeSince(x) \cup {now} /\ now \notin MadeSince(x)
      BY <1>1, <1>2, <1>6, <2>0, <2>4 DEF MadeSince, Recent
    <3>2. IsFiniteSet(MadeSince(x)) /\ Cardinality(MadeSince(x)) \in Nat
      BY <2>0, Counts DEF BudgetInv
    <3>3. Cardinality(MadeSince(x) \cup {now}) = Cardinality(MadeSince(x)) + 1
      BY <3>1, <3>2, FS_AddElement
    <3> QED BY <2>0, <2>1, <2>3, <3>1, <3>2, <3>3
  <2>5. CASE x > now
    <3>1. BegunSince(x)' = {}
      BY <1>1, <1>2, <2>5 DEF BegunSince, BudgetInv, Lived
    <3>2. Cardinality(BegunSince(x)') = 0
      BY <3>1, FS_EmptySet
    <3>3. Cardinality(MadeSince(x)') \in Nat
      <4>1. MadeSince(x)' \subseteq exchanges'
        BY DEF MadeSince
      <4> QED BY <1>5, <4>1, FS_Subset, FS_CardinalityType
    <3> QED BY <2>0, <2>1, <3>2, <3>3
  <2> QED BY <1>1, <2>4, <2>5
<1>7. Budget'
  <2> SUFFICES ASSUME SessionTTL <= Window PROVE Cardinality(sessions') <= MaxExchanges
    BY <1>4 DEF Budget
  <2> DEFINE x == IF now >= Window THEN now - Window ELSE 0
  <2>1. x \in Nat /\ x + Window >= now
    BY <1>1
  <2>2. sessions' \subseteq BegunSince(x) /\ BegunSince(x) \subseteq sessions
    BY <1>1, <1>2 DEF BegunSince, BudgetInv, Lived, Unexpired
  <2> HIDE DEF x
  <2>3. Cardinality(sessions') <= Cardinality(BegunSince(x)) /\ Cardinality(sessions') \in Nat
        /\ Cardinality(BegunSince(x)) \in Nat
    <3>1. IsFiniteSet(BegunSince(x))
      BY <1>0, <2>2, Counts DEF BudgetInv
    <3> QED BY <2>2, <3>1, FS_Subset, FS_CardinalityType
  <2>4. /\ Cardinality(BegunSince(x)) <= Cardinality(MadeSince(x)) + 1
        /\ MadeSince(x) \subseteq Recent
    BY <1>6, <2>1
  <2>5. Cardinality(MadeSince(x)) <= Cardinality(Recent) /\ Cardinality(MadeSince(x)) \in Nat
    BY <1>5, <2>4, FS_Subset, FS_CardinalityType
  <2>6. Cardinality(Recent) < MaxExchanges
    BY DEF Exchange
  <2> QED BY <1>5, <2>3, <2>4, <2>5, <2>6
<1>8. Paid'
  <2>1. ASSUME NEW x \in Nat, x + Window >= now'
        PROVE  Cardinality(BegunSince(x)') <= Cardinality(MadeSince(x)') + Allowance'
    <3>1. Cardinality(BegunSince(x)') <= Cardinality(MadeSince(x)')
      BY <1>2, <1>6, <2>1
    <3>2. Cardinality(MadeSince(x)') \in Nat
      <4>1. MadeSince(x)' \subseteq exchanges'
        BY DEF MadeSince
      <4> QED BY <1>5, <4>1, FS_Subset, FS_CardinalityType
    <3> QED BY <1>4, <3>1, <3>2
  <2> QED BY <1>5, <2>1 DEF Paid
<1> QED BY <1>0, <1>3, <1>7, <1>8 DEF BudgetInv

\* The session that comes of an exchange uses up what the exchange allowed.
LEMMA IdentifiedBudget == ASSUME BudgetInv, NEW f \in Flow, Identified(f) PROVE BudgetInv'
<1> USE AuthAssumption
<1>0. Inv' /\ Inv
  BY IdentifiedInv DEF BudgetInv
<1>1. now \in Nat /\ \A g \in sessions : expires[g] \in Nat
  BY DEF BudgetInv, Inv, TypeOK
<1>2. /\ UNCHANGED <<now, exchanges>> /\ busy /\ busy' = FALSE /\ f \notin sessions
      /\ sessions' \subseteq sessions \cup {f} /\ \A g \in sessions : expires'[g] = expires[g]
      /\ f \in sessions' => expires'[f] = now + SessionTTL
  BY <1>0 DEF Identified, Inv, Apart, TypeOK
<1>3. Lived'
  BY <1>1, <1>2 DEF BudgetInv, Lived
<1>4. Allowance = 0 /\ Allowance' = 1
  BY <1>2 DEF Allowance
<1>5. ASSUME NEW S \in SUBSET sessions, NEW T \in SUBSET (S \cup {f})
      PROVE  Cardinality(T) \in Nat /\ Cardinality(T) <= Cardinality(S) + 1
  <2>1. IsFiniteSet(S) /\ Cardinality(S) \in Nat
    BY <1>0, Counts DEF BudgetInv
  <2>2. IsFiniteSet(S \cup {f}) /\ Cardinality(S \cup {f}) = Cardinality(S) + 1
    BY <1>2, <2>1, FS_AddElement
  <2> QED BY <2>1, <2>2, FS_Subset, FS_CardinalityType
<1>6. ASSUME NEW x \in Nat, x + Window >= now'
      PROVE  Cardinality(BegunSince(x)') <= Cardinality(MadeSince(x)') + Allowance'
  <2>1. BegunSince(x)' \subseteq BegunSince(x) \cup {f} /\ BegunSince(x) \subseteq sessions
    BY <1>2 DEF BegunSince
  <2>2. /\ Cardinality(BegunSince(x)') <= Cardinality(BegunSince(x)) + 1
        /\ Cardinality(BegunSince(x)') \in Nat
    BY <1>5, <2>1
  <2>3. Cardinality(BegunSince(x)) <= Cardinality(MadeSince(x))
    <3>1. Cardinality(BegunSince(x)) <= Cardinality(MadeSince(x)) + Allowance
      BY <1>2, <1>6 DEF BudgetInv, Paid
    <3>2. Cardinality(MadeSince(x)) \in Nat
      BY <1>0, Counts DEF BudgetInv, MadeSince
    <3> QED BY <1>4, <3>1, <3>2
  <2>4. MadeSince(x)' = MadeSince(x) /\ Cardinality(MadeSince(x)) \in Nat
        /\ Cardinality(BegunSince(x)) \in Nat
    BY <1>0, <1>2, <2>1, Counts DEF BudgetInv, MadeSince
  <2> QED BY <1>4, <2>2, <2>3, <2>4
<1>7. Budget'
  <2>1. Cardinality(sessions') <= Cardinality(sessions) + 1 /\ Cardinality(sessions') \in Nat
    BY <1>2, <1>5
  <2>2. Cardinality(sessions) \in Nat
    BY <1>0, Counts DEF BudgetInv
  <2> QED BY <1>4, <2>1, <2>2 DEF BudgetInv, Budget
<1> QED BY <1>0, <1>2, <1>3, <1>6, <1>7 DEF BudgetInv, Paid

LEMMA BudgetInit == Init => BudgetInv
<1> SUFFICES ASSUME Init PROVE BudgetInv
  OBVIOUS
<1>1. Inv
  BY InitInv
<1>2. IsFiniteSet({}) /\ Cardinality({}) = 0
  BY FS_EmptySet
<1>3. sessions = {} /\ exchanges = {} /\ Allowance = 1
  BY DEF Init, Allowance
<1>4. \A x \in Nat : BegunSince(x) = {} /\ MadeSince(x) = {}
  BY <1>3 DEF BegunSince, MadeSince
<1> QED BY <1>1, <1>2, <1>3, <1>4, AuthAssumption DEF BudgetInv, Lived, Paid, Budget

LEMMA BudgetNext == BudgetInv /\ [Next]_vars => BudgetInv'
<1> SUFFICES ASSUME BudgetInv, [Next]_vars PROVE BudgetInv'
  OBVIOUS
<1>1. Inv /\ Inv' /\ now \in Nat
  BY NextInv DEF BudgetInv, Inv, TypeOK
<1>2. CASE \E f \in Flow : Exchange(f) \/ Identified(f)
  BY <1>2, ExchangeBudget, IdentifiedBudget
<1>3. CASE Tick \/ Refused \/ UNCHANGED vars
  BY <1>1, <1>3, FewerPaid DEF Tick, Refused, vars, Unexpired
<1>4. CASE \E f \in Flow, s \in Source : Begin(f, s)
  <2>1. PICK f \in Flow, s \in Source : Begin(f, s)
    BY <1>4
  <2>2. f \notin sessions /\ sessions' \subseteq sessions
    BY <1>1, <2>1 DEF Begin, Unexpired, Inv, TypeOK
  <2>3. \A g \in sessions' : expires'[g] = expires[g]
    BY <1>1, <2>1, <2>2 DEF Begin, Inv, TypeOK
  <2> QED BY <1>1, <2>1, <2>2, <2>3, FewerPaid DEF Begin
<1>5. CASE \E c \in Conn : \/ Register(c) \/ Signout(c) \/ Sweep(c) \/ Quit(c)
                           \/ \E f \in Flow : Hello(c, f)
  <2>1. /\ UNCHANGED <<now, expires, exchanges, busy>> /\ sessions' \subseteq sessions
    BY <1>5 DEF Register, Signout, Sweep, Quit, Hello
  <2> QED BY <1>1, <2>1, FewerPaid
<1> QED BY <1>2, <1>3, <1>4, <1>5 DEF Next

\* Nothing counts sessions against the provider's budget of exchanges, and begin() counts them only
\* against MaxSessions: yet the budget of an hour bounds the sessions that live an hour.
THEOREM SessionsPaidFor == Spec => []SessionsWithinBudget
<1>1. BudgetInv => SessionsWithinBudget
  <2> SUFFICES ASSUME BudgetInv, SessionTTL <= Window
               PROVE  Cardinality(sessions) <= MaxExchanges + 1
    BY DEF SessionsWithinBudget
  <2>1. Cardinality(sessions) \in Nat
    BY Counts DEF BudgetInv
  <2> QED BY <2>1, AuthAssumption DEF BudgetInv, Budget, Allowance
<1> QED BY <1>1, BudgetInit, BudgetNext, PTL DEF Spec
-----------------------------------------------------------------------------
\* Each step of the broker is one of SingleUse: begin() hands a grant out, exchange() brings it to
\* the provider, what the provider says makes a session of it at most, and everything else lets
\* grants and sessions lapse.
THEOREM GrantsKept == Spec => KeepsGrants
<1>1. Init => Grants!Init
  BY DEF Init, Grants!Init
<1>2. ASSUME Inv, [Next]_vars PROVE [Grants!Next]_Grants!vars
  <2> USE DEF Grants!Keeps
  <2>1. CASE \E f \in Flow, s \in Source : Begin(f, s)
    BY <2>1 DEF Begin, Unexpired, Grants!Hand, Grants!Next
  <2>2. ASSUME NEW f \in Flow, Exchange(f) PROVE Grants!Next
    <3>1. inflight = {} /\ inflight' = {f}
      BY <1>2, <2>2 DEF Inv, Apart, Exchange
    <3>2. Grants!Ask(f)
      BY <2>2, <3>1 DEF Exchange, Unexpired, Grants!Ask
    <3> QED BY <3>2 DEF Grants!Next
  <2>3. ASSUME NEW f \in Flow, Identified(f) PROVE Grants!Next
    <3>1. inflight = {f}
      BY <1>2, <2>3 DEF Inv, Apart, Identified
    <3>2. Grants!Answer
      BY <2>3, <3>1 DEF Identified, Grants!Answer
    <3> QED BY <3>2 DEF Grants!Next
  <2>4. CASE Tick \/ Refused \/ \E c \in Conn : Signout(c)
    BY <2>4 DEF Tick, Refused, Unexpired, Signout, Grants!Lapse, Grants!Next
  <2>5. CASE \E c \in Conn : \/ Register(c) \/ Sweep(c) \/ Quit(c) \/ \E f \in Flow : Hello(c, f)
    BY <2>5 DEF Register, Sweep, Quit, Hello, Grants!vars
  <2>6. CASE UNCHANGED vars
    BY <2>6 DEF vars, Grants!vars
  <2> QED BY <1>2, <2>1, <2>2, <2>3, <2>4, <2>5, <2>6 DEF Next
<1> QED BY <1>1, <1>2, BrokerInvariance, PTL DEF Spec, Grants!Spec, KeepsGrants

\* The promise itself is consistent: a grant never is in two places, whatever lapses.
THEOREM GrantsInOnePlace == Grants!Spec => []Grants!Once
<1> DEFINE Known == /\ pending \subseteq issued /\ inflight \subseteq issued
                    /\ sessions \subseteq issued
           Placed == Known /\ Grants!Once
<1>1. Grants!Init => Placed
  BY DEF Grants!Init, Grants!Once
<1>2. ASSUME Placed, [Grants!Next]_Grants!vars PROVE Placed'
  <2> USE <1>2 DEF Grants!Keeps, Grants!Once
  <2>1. CASE Grants!Lapse \/ Grants!Answer
    BY <2>1 DEF Grants!Lapse, Grants!Answer
  <2>2. CASE \E g \in Flow : Grants!Hand(g)
    BY <2>2 DEF Grants!Hand
  <2>3. CASE \E g \in Flow : Grants!Ask(g)
    BY <2>3 DEF Grants!Ask
  <2>4. CASE UNCHANGED Grants!vars
    BY <2>4 DEF Grants!vars
  <2> QED BY <1>2, <2>1, <2>2, <2>3, <2>4 DEF Grants!Next
<1> QED BY <1>1, <1>2, PTL DEF Grants!Spec
=============================================================================
