------------------------- MODULE RunningTaskProofs -------------------------
(***************************************************************************)
(* The commands, the row and the subscribers of one run, for any number of *)
(* steps of any kinds, any subscribers, any length of the chain and any    *)
(* number of restarts.                                                     *)
(***************************************************************************)
EXTENDS RunningTask, SequenceTheorems, WellFoundedInduction, TLAPS

-----------------------------------------------------------------------------
(* The inductive invariant *)

Tables == UNION {[S -> SUBSET (1..N)] : S \in SUBSET Subs}

Machine == [state : 0..End, is_error : BOOLEAN, timed_out : BOOLEAN, execution_done : BOOLEAN,
            late : BOOLEAN, wait_for : Tables, received : SUBSET Messages]

Batches == [cmds : Seq(1..End), ran : SUBSET (1..N), msg : SUBSET Messages, stored : BOOLEAN,
            was : BOOLEAN, failed : BOOLEAN]

Rows == [stored : BOOLEAN, saved : [state : 1..End, wait_for : SUBSET Subs],
         received : SUBSET Messages, since : 1..End]

MachineTyped == wi \in Machine /\ wi.state \in 1..End /\ registered \in BOOLEAN /\ row \in Rows
ChainTyped == chain \in Seq(Batches) /\ ran \subseteq 1..N /\ sent \in 0..End /\ crashes \in Nat
SubsTyped == /\ subscriptions \in [Subs -> SUBSET (1..N)] /\ opening \in [Subs -> SUBSET (1..N)]
             /\ listening \in [Subs -> SUBSET (1..N)] /\ inbox \in [Subs -> SUBSET (1..N)]
             /\ missed \in [Subs -> SUBSET (1..N)]
Typed == MachineTyped /\ ChainTyped /\ SubsTyped

\* Only the first batch can be stored, when its commands are executed.
ChainInv == \A k \in DOMAIN chain :
              /\ chain[k].ran \subseteq ran
              /\ chain[k].stored => k = 1 /\ chain[k].cmds = <<>>

\* A machine with an error is at its end; a command that is done was executed.
MachineInv == /\ wi.is_error => wi.state = End
              /\ wi.timed_out => wi.late
              /\ wi.execution_done => wi.state \in ran
              /\ ExecutedBeforePassed

\* What the row lacks of an active run is in a batch that is still to be stored.
RowInv == /\ row.saved.state <= wi.state
          /\ row.saved.state = wi.state => DOMAIN wi.wait_for \subseteq row.saved.wait_for
          /\ \A i \in 1..(row.saved.state - 1) : Action[i] = "execute" => i \in ran
          /\ registered /\ is_active(wi) =>
               /\ row.stored
               /\ \A x \in wi.received : \/ x \in row.received
                                         \/ \E k \in DOMAIN chain : ~chain[k].stored /\ x \in chain[k].msg
               /\ \/ crashes # 0 \/ row.saved = exported(wi)
                  \/ \E k \in DOMAIN chain : ~chain[k].stored

\* No command was issued for a step the machine is not in yet.
OrderInv == CommandsInOrder /\ (registered /\ ~wi.is_error => sent <= wi.state)

RunInv == Typed /\ ChainInv /\ MachineInv /\ RowInv /\ OrderInv

-----------------------------------------------------------------------------
(* The moves of the machine *)

\* A set of numbers has a least element: induction, for the loop of move_to_next_state.
LEMMA LeastNumber ==
    ASSUME NEW T \in SUBSET Nat, T # {}
    PROVE  \E x \in T : \A y \in T : x <= y
  <1> DEFINE R == OpToRel(<, Nat)
  <1>1. IsWellFoundedOn(R, Nat)
    BY NatLessThanWellFounded
  <1>2. \A x, y \in Nat : x < y => <<x, y>> \in R
    BY DEF OpToRel
  <1> HIDE DEF R
  <1>3. PICK x \in T : \A y \in T : ~(<<y, x>> \in R)
    BY <1>1, WFMin
  <1>4. \A y \in T : ~(y < x)
    BY <1>2, <1>3
  <1>5. \A y \in T : x <= y
    BY <1>4
  <1> QED
    BY <1>5

\* The loop comes to rest at the first state that is not done, at the latest at the end.
LEMMA NextState ==
    ASSUME NEW m, m.state \in 0..End
    PROVE  /\ next_state(m) \in m.state..End
           /\ ~current_step_done(m, next_state(m))
           /\ \A k \in m.state..(next_state(m) - 1) : current_step_done(m, k)
  <1> DEFINE T == {j \in m.state..End : ~current_step_done(m, j)}
  <1>0. N \in Nat /\ End \in Nat /\ End = N + 1 /\ N # 0 /\ m.state \in Nat
    BY StepAssumption DEF End
  <1>1. ~current_step_done(m, End)
    <2>1. End # 0 /\ End \notin 1..N
      BY <1>0
    <2> QED
      BY <2>1, Zenon DEF current_step_done
  <1>2. T \in SUBSET Nat /\ End \in T
    BY <1>0, <1>1
  <1>3. PICK j \in T : \A y \in T : j <= y
    BY <1>2, LeastNumber
  <1>4. /\ j \in m.state..End /\ ~current_step_done(m, j)
        /\ \A k \in m.state..(j - 1) : current_step_done(m, k)
    BY <1>0, <1>3
  <1> QED
    BY <1>4 DEF next_state

\* What move_to_next_state makes of the machine m.
Moves(m, w) ==
    /\ w \in Machine /\ w.state \in m.state..End
    /\ w.is_error = m.is_error /\ w.received = m.received
    /\ w.state = m.state => w = m
    /\ w.state # m.state =>
         /\ w.timed_out = FALSE /\ w.execution_done = FALSE /\ w.late = FALSE
         /\ w.wait_for = IF w.state \in 1..N /\ Action[w.state] = "perform"
                         THEN subscribers_by_event(w.state) ELSE Nobody
    /\ \A k \in m.state..(w.state - 1) : current_step_done(m, k)

\* What a restart and a new wait record of the subscribers are tables.
LEMMA TablesFact ==
    ASSUME SubsTyped, NEW i
    PROVE  Nobody \in Tables /\ subscribers_by_event(i) \in Tables
  <1>1. Nobody \in [{} -> SUBSET (1..N)] /\ {} \in SUBSET Subs
    BY DEF Nobody
  <1>2. subscribers_by_event(i) \in [{x \in Subs : i \in subscriptions[x]} -> SUBSET (1..N)]
    BY DEF subscribers_by_event, SubsTyped
  <1> QED
    BY <1>1, <1>2 DEF Tables

\* Entering a state.
LEMMA BeginStep ==
    ASSUME SubsTyped, NEW m \in Machine, NEW i \in 1..End
    PROVE  /\ begin_step(m, i) \in Machine /\ begin_step(m, i).state = i
           /\ begin_step(m, i).is_error = m.is_error /\ begin_step(m, i).received = m.received
           /\ begin_step(m, i).timed_out = FALSE /\ begin_step(m, i).execution_done = FALSE
           /\ begin_step(m, i).late = FALSE
           /\ begin_step(m, i).wait_for = IF i \in 1..N /\ Action[i] = "perform"
                                          THEN subscribers_by_event(i) ELSE Nobody
  <1> DEFINE W == IF i \in 1..N /\ Action[i] = "perform" THEN subscribers_by_event(i) ELSE Nobody
  <1>1. W \in Tables
    BY TablesFact
  <1>2. i \in 0..End
    BY StepAssumption DEF End
  <1>3. begin_step(m, i) = [m EXCEPT !.state = i, !.timed_out = FALSE, !.execution_done = FALSE,
                                     !.late = FALSE, !.wait_for = W]
    BY DEF begin_step
  <1> HIDE DEF W
  <1>4. begin_step(m, i) \in Machine
    BY <1>1, <1>2, <1>3 DEF Machine
  <1>5. /\ begin_step(m, i).state = i /\ begin_step(m, i).wait_for = W
        /\ begin_step(m, i).is_error = m.is_error /\ begin_step(m, i).received = m.received
        /\ begin_step(m, i).timed_out = FALSE /\ begin_step(m, i).execution_done = FALSE
        /\ begin_step(m, i).late = FALSE
    BY <1>3 DEF Machine
  <1> QED
    BY <1>4, <1>5 DEF W

\* The commands of a move are those of the states it enters.
Entered(s, t) == [k \in 1..(t - s) |-> s + k]

\* What move_to_next_state amounts to: the machine moves forward,
\* and its commands are those of the steps it enters.
LEMMA MoveFact ==
    ASSUME SubsTyped, NEW m \in Machine
    PROVE  /\ Moves(m, move_to_next_state(m))
           /\ resulting_commands(m) = Entered(m.state, move_to_next_state(m).state)
  <1> DEFINE n == next_state(m)
  <1>0. m.state \in 0..End /\ N \in Nat /\ End \in Nat
    BY StepAssumption DEF Machine, End
  <1>1. n \in m.state..End /\ \A k \in m.state..(n - 1) : current_step_done(m, k)
    BY <1>0, NextState
  <1>2. resulting_commands(m) = Entered(m.state, n)
    BY DEF resulting_commands, Entered
  <1>3. CASE n = m.state
    <2>1. move_to_next_state(m) = m
      BY <1>3 DEF move_to_next_state
    <2> HIDE DEF n
    <2>2. m.state \in m.state..End /\ \A k \in m.state..(m.state - 1) : current_step_done(m, k)
      BY <1>0, <1>1, <1>3
    <2>3. Moves(m, m)
      BY <2>2 DEF Moves
    <2> QED
      BY <1>2, <1>3, <2>1, <2>3
  <1>4. CASE n # m.state
    <2>1. move_to_next_state(m) = begin_step(m, n)
      BY <1>4 DEF move_to_next_state
    <2>2. n \in 1..End
      BY <1>0, <1>1, <1>4
    <2> HIDE DEF n
    <2>3. PICK w : w = begin_step(m, n)
      OBVIOUS
    <2>4. /\ w \in Machine /\ w.state = n /\ w.is_error = m.is_error /\ w.received = m.received
          /\ w.timed_out = FALSE /\ w.execution_done = FALSE /\ w.late = FALSE
          /\ w.wait_for = IF n \in 1..N /\ Action[n] = "perform"
                          THEN subscribers_by_event(n) ELSE Nobody
      BY <2>2, <2>3, BeginStep
    <2>5. Moves(m, w)
      BY <1>1, <1>4, <2>4 DEF Moves
    <2> QED
      BY <1>2, <2>1, <2>3, <2>4, <2>5
  <1> QED
    BY <1>3, <1>4

\* An ExecuteCommand step is only passed when its command is done.
LEMMA PassesExecuted ==
    ASSUME NEW m \in Machine, NEW w, Moves(m, w), NEW R,
           \A i \in 1..(m.state - 1) : Action[i] = "execute" => i \in R,
           m.execution_done => m.state \in R
    PROVE  \A i \in 1..(w.state - 1) : Action[i] = "execute" => i \in R
  <1> SUFFICES ASSUME NEW i \in 1..(w.state - 1), Action[i] = "execute"
               PROVE  i \in R
    OBVIOUS
  <1>1. /\ m.state \in Nat /\ w.state \in Nat /\ w.state <= N + 1 /\ N \in Nat /\ m.state <= w.state
        /\ i \in 1..N
    BY StepAssumption DEF Moves, Machine, End
  <1>2. CASE i < m.state
    BY <1>1, <1>2
  <1>3. CASE i >= m.state
    <2>1. current_step_done(m, i)
      BY <1>1, <1>3 DEF Moves
    <2>2. ExecuteCommandDone(m, i)
      BY <1>1, <2>1 DEF current_step_done
    <2> QED
      BY <2>2 DEF ExecuteCommandDone
  <1> QED
    BY <1>1, <1>2, <1>3

-----------------------------------------------------------------------------
(* The chain *)

\* The batches of c hold the commands s + 1 .. t in order: what CommandsInOrder says.
Ordered(c, s, t) ==
    /\ \A x \in (s + 1)..t : \E k \in DOMAIN c : x \in Range(c[k].cmds)
    /\ \A k \in DOMAIN c : Range(c[k].cmds) \subseteq (s + 1)..t
    /\ \A k \in DOMAIN c : \A i, j \in DOMAIN c[k].cmds : i < j => c[k].cmds[i] < c[k].cmds[j]
    /\ \A k, l \in DOMAIN c : k < l =>
         \A x \in Range(c[k].cmds), y \in Range(c[l].cmds) : x < y

\* The order of a chain, spelled out.
LEMMA OrderedMeans ==
    ASSUME NEW c, NEW s, NEW t
    PROVE  Ordered(c, s, t) <=>
             /\ UNION {Range(c[k].cmds) : k \in DOMAIN c} = (s + 1)..t
             /\ \A k \in DOMAIN c : \A i, j \in DOMAIN c[k].cmds :
                  i < j => c[k].cmds[i] < c[k].cmds[j]
             /\ \A k, l \in DOMAIN c : k < l =>
                  \A x \in Range(c[k].cmds), y \in Range(c[l].cmds) : x < y
  <1> DEFINE U == UNION {Range(c[k].cmds) : k \in DOMAIN c}
             T == (s + 1)..t
  <1>1. \A x : x \in U <=> \E k \in DOMAIN c : x \in Range(c[k].cmds)
    OBVIOUS
  <1> HIDE DEF U, T
  <1>2. U = T <=> /\ \A x \in T : \E k \in DOMAIN c : x \in Range(c[k].cmds)
                  /\ \A k \in DOMAIN c : Range(c[k].cmds) \subseteq T
    <2>1. ASSUME U = T
          PROVE  /\ \A x \in T : \E k \in DOMAIN c : x \in Range(c[k].cmds)
                 /\ \A k \in DOMAIN c : Range(c[k].cmds) \subseteq T
      BY <1>1, <2>1
    <2>2. ASSUME \A x \in T : \E k \in DOMAIN c : x \in Range(c[k].cmds),
                 \A k \in DOMAIN c : Range(c[k].cmds) \subseteq T
          PROVE  U = T
      <3>1. \A x : x \in U <=> x \in T
        BY <1>1, <2>2
      <3> QED
        BY <3>1
    <2> QED
      BY <2>1, <2>2
  <1> QED
    BY <1>2 DEF Ordered, U, T

\* The steps entered between two states, in order.
LEMMA EnteredFact ==
    ASSUME NEW s \in Nat, NEW t \in Nat, s <= t, t <= End
    PROVE  /\ Entered(s, t) \in Seq(1..End) /\ DOMAIN Entered(s, t) = 1..(t - s)
           /\ Range(Entered(s, t)) = (s + 1)..t
           /\ \A i, j \in DOMAIN Entered(s, t) : i < j => Entered(s, t)[i] < Entered(s, t)[j]
           /\ Entered(s, t) = <<>> <=> s = t
  <1>0. End \in Nat
    BY StepAssumption DEF End
  <1>1. Entered(s, t) \in [1..(t - s) -> 1..End] /\ t - s \in Nat
    BY <1>0 DEF Entered
  <1>2. Entered(s, t) \in Seq(1..End) /\ Len(Entered(s, t)) = t - s
    <2>1. Entered(s, t) \in Seq(1..End)
      BY <1>1, SeqDef
    <2>2. DOMAIN Entered(s, t) = 1..Len(Entered(s, t)) /\ Len(Entered(s, t)) \in Nat
      BY <2>1, LenProperties
    <2>3. DOMAIN Entered(s, t) = 1..(t - s)
      BY <1>1
    <2> QED
      BY <1>1, <2>1, <2>2, <2>3
  <1>3. DOMAIN Entered(s, t) = 1..(t - s)
    BY <1>1
  <1>4. \A i, j \in DOMAIN Entered(s, t) : i < j => Entered(s, t)[i] < Entered(s, t)[j]
    BY <1>3 DEF Entered
  <1>5. Range(Entered(s, t)) = (s + 1)..t
    <2>1. ASSUME NEW x \in (s + 1)..t PROVE x \in Range(Entered(s, t))
      <3>1. x - s \in 1..(t - s) /\ Entered(s, t)[x - s] = x
        BY DEF Entered
      <3> QED
        BY <1>3, <3>1 DEF Range
    <2>2. ASSUME NEW x \in Range(Entered(s, t)) PROVE x \in (s + 1)..t
      BY <1>3 DEF Range, Entered
    <2> QED
      BY <2>1, <2>2
  <1>6. Entered(s, t) = <<>> <=> s = t
    BY <1>2
  <1> QED
    BY <1>2, <1>3, <1>4, <1>5, <1>6

\* A batch of commands and its parts.
LEMMA BatchFact ==
    ASSUME NEW cmds \in Seq(1..End), NEW msg \in SUBSET Messages
    PROVE  /\ Batch(cmds, msg) \in Batches /\ Batch(cmds, msg).cmds = cmds
           /\ Batch(cmds, msg).msg = msg /\ Batch(cmds, msg).ran = {}
           /\ Batch(cmds, msg).stored = FALSE
  BY DEF Batch, Batches

\* A new batch at the end.
LEMMA AppendFact ==
    ASSUME NEW c \in Seq(Batches), NEW b \in Batches
    PROVE  /\ Append(c, b) \in Seq(Batches) /\ Len(c) \in Nat
           /\ DOMAIN c = 1..Len(c) /\ DOMAIN Append(c, b) = 1..(Len(c) + 1)
           /\ \A k \in DOMAIN c : Append(c, b)[k] = c[k]
           /\ Append(c, b)[Len(c) + 1] = b
  OBVIOUS

\* A batch for the steps just entered is appended in order.
LEMMA OrderedAppend ==
    ASSUME NEW c \in Seq(Batches), NEW b \in Batches, NEW s \in Nat, NEW t \in Nat, NEW u \in Nat,
           Ordered(c, s, t), s <= t, t <= u, u <= End, b.cmds = Entered(t, u)
    PROVE  Ordered(Append(c, b), s, u)
  <1> DEFINE d == Append(c, b)
             n == Len(c) + 1
  <1>1. /\ n - 1 \in Nat /\ n \in Nat /\ DOMAIN c = 1..(n - 1) /\ DOMAIN d = 1..n
        /\ \A k \in DOMAIN c : d[k] = c[k]
        /\ d[n] = b
    BY AppendFact
  <1>2. /\ Range(b.cmds) = (t + 1)..u
        /\ \A i, j \in DOMAIN b.cmds : i < j => b.cmds[i] < b.cmds[j]
    BY EnteredFact
  <1> HIDE DEF d, n
  <1>3. \A k \in DOMAIN d : k \in DOMAIN c \/ k = n
    BY <1>1
  <1>4. \A k \in DOMAIN c : Range(c[k].cmds) \subseteq (s + 1)..t
    BY DEF Ordered
  <1>5. /\ \A x \in (s + 1)..u : \E k \in DOMAIN d : x \in Range(d[k].cmds)
        /\ \A k \in DOMAIN d : Range(d[k].cmds) \subseteq (s + 1)..u
    <2>1. ASSUME NEW k \in DOMAIN d, NEW x \in Range(d[k].cmds) PROVE x \in (s + 1)..u
      <3>1. CASE k \in DOMAIN c
        <4>1. x \in (s + 1)..t
          BY <1>1, <1>4, <3>1, <2>1
        <4> QED
          BY <4>1
      <3>2. CASE k = n
        <4>1. x \in (t + 1)..u
          BY <1>1, <1>2, <3>2, <2>1
        <4> QED
          BY <4>1
      <3> QED
        BY <1>3, <3>1, <3>2
    <2>2. ASSUME NEW x \in (s + 1)..u PROVE \E k \in DOMAIN d : x \in Range(d[k].cmds)
      <3>1. CASE x \in (s + 1)..t
        <4>1. PICK k \in DOMAIN c : x \in Range(c[k].cmds)
          BY <3>1 DEF Ordered
        <4>2. k \in DOMAIN d /\ d[k] = c[k]
          BY <1>1
        <4> QED
          BY <4>1, <4>2
      <3>2. CASE x \in (t + 1)..u
        BY <1>1, <1>2, <3>2
      <3> QED
        BY <3>1, <3>2
    <2> QED
      BY <2>1, <2>2
  <1>6. \A k \in DOMAIN d : \A i, j \in DOMAIN d[k].cmds : i < j => d[k].cmds[i] < d[k].cmds[j]
    BY <1>1, <1>2, <1>3 DEF Ordered
  <1>7. ASSUME NEW k \in DOMAIN d, NEW l \in DOMAIN d, k < l,
               NEW x \in Range(d[k].cmds), NEW y \in Range(d[l].cmds)
        PROVE  x < y
    <2>1. k \in DOMAIN c /\ d[k] = c[k]
      BY <1>1, <1>7
    <2>2. CASE l \in DOMAIN c
      BY <1>1, <1>7, <2>1, <2>2 DEF Ordered
    <2>3. CASE l = n
      <3>1. x \in (s + 1)..t /\ y \in (t + 1)..u
        BY <1>1, <1>2, <1>4, <2>1, <2>3
      <3> QED
        BY <3>1
    <2> QED
      BY <1>3, <2>2, <2>3
  <1> QED
    BY <1>5, <1>6, <1>7 DEF Ordered, d

\* A batch without commands leaves the chain.
LEMMA OrderedTail ==
    ASSUME NEW c \in Seq(Batches), c # <<>>, c[1].cmds = <<>>, NEW s, NEW t, Ordered(c, s, t)
    PROVE  Ordered(Tail(c), s, t)
  <1> DEFINE d == Tail(c)
             n == Len(c)
  <1>1. /\ n \in Nat /\ n # 0 /\ DOMAIN c = 1..n /\ DOMAIN d = 1..(n - 1)
        /\ \A k \in DOMAIN d : d[k] = c[k + 1]
    OBVIOUS
  <1> HIDE DEF d, n
  <1>2. Range(c[1].cmds) = {}
    BY DEF Range
  <1>3. \A k \in DOMAIN c : k = 1 \/ (k - 1 \in DOMAIN d /\ d[k - 1] = c[k])
    BY <1>1
  <1>4. \A k \in DOMAIN d : k + 1 \in DOMAIN c /\ d[k] = c[k + 1]
    BY <1>1
  <1>5. /\ \A x \in (s + 1)..t : \E k \in DOMAIN d : x \in Range(d[k].cmds)
        /\ \A k \in DOMAIN d : Range(d[k].cmds) \subseteq (s + 1)..t
    <2>1. ASSUME NEW k \in DOMAIN d PROVE Range(d[k].cmds) \subseteq (s + 1)..t
      BY <1>4 DEF Ordered
    <2>2. ASSUME NEW x \in (s + 1)..t PROVE \E l \in DOMAIN d : x \in Range(d[l].cmds)
      <3>1. PICK k \in DOMAIN c : x \in Range(c[k].cmds)
        BY DEF Ordered
      <3>2. k # 1
        BY <1>2, <3>1
      <3> QED
        BY <1>3, <3>1, <3>2
    <2> QED
      BY <2>1, <2>2
  <1>6. \A k \in DOMAIN d : \A i, j \in DOMAIN d[k].cmds : i < j => d[k].cmds[i] < d[k].cmds[j]
    BY <1>4 DEF Ordered
  <1>7. \A k, l \in DOMAIN d : k < l => \A x \in Range(d[k].cmds), y \in Range(d[l].cmds) : x < y
    <2> SUFFICES ASSUME NEW k \in DOMAIN d, NEW l \in DOMAIN d, k < l
                 PROVE  \A x \in Range(d[k].cmds), y \in Range(d[l].cmds) : x < y
      OBVIOUS
    <2>1. k + 1 \in DOMAIN c /\ l + 1 \in DOMAIN c /\ k + 1 < l + 1
      BY <1>1, <1>4
    <2> QED
      BY <1>4, <2>1 DEF Ordered
  <1> QED
    BY <1>5, <1>6, <1>7 DEF Ordered, d

\* The same commands in the same batches.
LEMMA OrderedSame ==
    ASSUME NEW c, NEW d, NEW s, NEW t, Ordered(c, s, t), DOMAIN d = DOMAIN c,
           \A k \in DOMAIN c : d[k].cmds = c[k].cmds
    PROVE  Ordered(d, s, t)
  BY DEF Ordered

\* The first command of the chain is the one after the last issued.
LEMMA OrderedHead ==
    ASSUME NEW c \in Seq(Batches), NEW d, NEW s \in Nat, NEW t \in Nat, Ordered(c, s, t),
           c # <<>>, c[1].cmds # <<>>, DOMAIN d = DOMAIN c, d[1].cmds = Tail(c[1].cmds),
           \A k \in DOMAIN c : k # 1 => d[k].cmds = c[k].cmds
    PROVE  Head(c[1].cmds) = s + 1 /\ s + 1 <= t /\ Ordered(d, s + 1, t)
  <1> DEFINE a == c[1].cmds
             h == Head(a)
             b == d[1].cmds
  <1>1. 1 \in DOMAIN c /\ a \in Seq(1..End) /\ \A k \in DOMAIN c : k >= 1 /\ k \in Nat
    <2>1. DOMAIN c = 1..Len(c) /\ Len(c) \in Nat /\ Len(c) # 0
      OBVIOUS
    <2>2. 1 \in DOMAIN c
      BY <2>1
    <2>3. c[1] \in Batches
      BY <2>2
    <2> QED
      BY <2>1, <2>2, <2>3 DEF Batches
  <1>2. /\ DOMAIN a = 1..Len(a) /\ DOMAIN b = 1..(Len(a) - 1) /\ Len(a) \in Nat \ {0}
        /\ \A i \in DOMAIN b : b[i] = a[i + 1]
        /\ h = a[1] /\ 1 \in DOMAIN a
    BY <1>1
  <1>3. \A i, j \in DOMAIN a : i < j => a[i] < a[j]
    BY <1>1 DEF Ordered
  <1>4. h \in Range(a) /\ Range(a) = {h} \cup Range(b) /\ h \notin Range(b)
    <2>0. h \in Nat
      BY <1>1, <1>2, StepAssumption DEF End
    <2>1. h \in Range(a)
      BY <1>2 DEF Range
    <2>2. ASSUME NEW x \in Range(a) PROVE x = h \/ x \in Range(b)
      <3>1. PICK i \in DOMAIN a : x = a[i]
        BY DEF Range
      <3>2. CASE i # 1
        <4>1. i - 1 \in DOMAIN b /\ b[i - 1] = a[i]
          BY <1>2, <3>2
        <4> QED
          BY <3>1, <4>1 DEF Range
      <3> QED
        BY <1>2, <3>1, <3>2
    <2>3. ASSUME NEW x \in Range(b) PROVE x \in Range(a) /\ h < x
      <3>1. PICK i \in DOMAIN b : x = b[i]
        BY DEF Range
      <3>2. i + 1 \in DOMAIN a /\ x = a[i + 1] /\ 1 < i + 1
        BY <1>2, <3>1
      <3> QED
        BY <1>2, <1>3, <3>2 DEF Range
    <2> QED
      BY <2>0, <2>1, <2>2, <2>3
  <1>5. \A x \in Range(b) : h < x
    <2> SUFFICES ASSUME NEW x \in Range(b) PROVE h < x
      OBVIOUS
    <2>1. PICK i \in DOMAIN b : x = b[i]
      BY DEF Range
    <2>2. i + 1 \in DOMAIN a /\ x = a[i + 1] /\ 1 < i + 1
      BY <1>2, <2>1
    <2> QED
      BY <1>2, <1>3, <2>2
  <1> HIDE DEF a, b, h
  <1>6. /\ c[1].cmds = a /\ d[1].cmds = b
        /\ \A k \in DOMAIN c : k # 1 => \A y \in Range(c[k].cmds) : h < y
    BY <1>1, <1>4 DEF Ordered, a, b
  <1>7. /\ \A x \in (s + 1)..t : \E k \in DOMAIN c : x \in Range(c[k].cmds)
        /\ \A k \in DOMAIN c : Range(c[k].cmds) \subseteq (s + 1)..t
    BY DEF Ordered
  <1>8. h \in (s + 1)..t
    BY <1>1, <1>4, <1>6, <1>7
  <1>9. \A k \in DOMAIN c : \A x \in Range(c[k].cmds) : x = h \/ h < x
    BY <1>4, <1>5, <1>6
  <1>10. h = s + 1 /\ s + 1 <= t
    <2>1. s + 1 \in (s + 1)..t
      BY <1>8
    <2>2. PICK k \in DOMAIN c : s + 1 \in Range(c[k].cmds)
      BY <1>7, <2>1
    <2>3. s + 1 = h \/ h < s + 1
      BY <1>9, <2>2
    <2> QED
      BY <1>8, <2>3
  <1>11. /\ \A x \in (s + 2)..t : \E k \in DOMAIN d : x \in Range(d[k].cmds)
         /\ \A k \in DOMAIN d : Range(d[k].cmds) \subseteq (s + 2)..t
    <2>1. ASSUME NEW x \in (s + 2)..t PROVE \E k \in DOMAIN d : x \in Range(d[k].cmds)
      <3>0. x \in (s + 1)..t
        OBVIOUS
      <3>1. PICK k \in DOMAIN c : x \in Range(c[k].cmds)
        BY <1>7, <3>0
      <3> QED
        BY <1>4, <1>6, <1>10, <3>1
    <2>2. ASSUME NEW k \in DOMAIN d, NEW x \in Range(d[k].cmds) PROVE x \in (s + 2)..t
      <3>1. x \in Range(c[k].cmds) /\ x # h
        BY <1>4, <1>6, <1>8, <1>5
      <3>2. x \in (s + 1)..t
        BY <1>7, <3>1
      <3> QED
        BY <1>10, <3>1, <3>2
    <2> QED
      BY <2>1, <2>2
  <1>12. \A k \in DOMAIN d : \A i, j \in DOMAIN d[k].cmds : i < j => d[k].cmds[i] < d[k].cmds[j]
    <2>1. \A i, j \in DOMAIN b : i < j => b[i] < b[j]
      <3> SUFFICES ASSUME NEW i \in DOMAIN b, NEW j \in DOMAIN b, i < j PROVE b[i] < b[j]
        OBVIOUS
      <3>1. i + 1 \in DOMAIN a /\ j + 1 \in DOMAIN a /\ i + 1 < j + 1
        BY <1>2
      <3> QED
        BY <1>2, <1>3, <3>1
    <2> QED
      BY <1>6, <2>1 DEF Ordered
  <1>13. \A k, l \in DOMAIN d : k < l => \A x \in Range(d[k].cmds), y \in Range(d[l].cmds) : x < y
    <2>1. \A k \in DOMAIN d : Range(d[k].cmds) \subseteq Range(c[k].cmds)
      BY <1>4, <1>6
    <2> QED
      BY <2>1 DEF Ordered
  <1> QED
    BY <1>10, <1>11, <1>12, <1>13, s + 1 + 1 = s + 2 DEF Ordered, h, a

-----------------------------------------------------------------------------
(* The steps of the machine *)

\* What a step leaves of the invariant when it does not touch the subscribers.
Core == MachineTyped /\ ChainTyped /\ ChainInv /\ MachineInv /\ RowInv /\ OrderInv

\* CommandsInOrder, said of the chain.
LEMMA InOrderMeans == CommandsInOrder <=> (registered /\ ~wi.is_error => Ordered(chain, sent, wi.state))
  BY OrderedMeans DEF CommandsInOrder

\* The order of the chain is all that CommandsInOrder needs.
LEMMA OrderFollows ==
    ASSUME registered' /\ ~wi'.is_error => Ordered(chain', sent', wi'.state) /\ sent' <= wi'.state
    PROVE  OrderInv'
  <1>1. Ordered(chain', sent', wi'.state) =>
             /\ UNION {Range(chain'[k].cmds) : k \in DOMAIN chain'} = (sent' + 1)..wi'.state
             /\ \A k \in DOMAIN chain' : \A i, j \in DOMAIN chain'[k].cmds :
                  i < j => chain'[k].cmds[i] < chain'[k].cmds[j]
             /\ \A k, l \in DOMAIN chain' : k < l =>
                  \A x \in Range(chain'[k].cmds), y \in Range(chain'[l].cmds) : x < y
    BY OrderedMeans
  <1> QED
    BY <1>1 DEF OrderInv, CommandsInOrder

\* A message or a timeout makes m of the run, which then moves on; the commands of the move
\* and the message make the next batch.
Goes(m, msg) ==
    /\ m \in Machine /\ m.state = wi.state /\ m.is_error = wi.is_error
    /\ m.execution_done = wi.execution_done /\ m.late = wi.late /\ m.wait_for = wi.wait_for
    /\ m.received \subseteq wi.received \cup msg /\ (m.timed_out => m.late)
    /\ Moves(m, wi')
    /\ chain' = Append(chain, Batch(Entered(m.state, wi'.state), msg))
    /\ UNCHANGED <<registered, row, crashes, ran, sent>>

\* The machine moves on and chains the commands of the steps it enters.
LEMMA GoesStep ==
    ASSUME RunInv, NEW m, NEW msg \in SUBSET Messages, Goes(m, msg)
    PROVE  Core'
  <1> DEFINE b == Batch(Entered(m.state, wi'.state), msg)
             n == Len(chain) + 1
  <1>0. /\ N \in Nat /\ End = N + 1 /\ End \in Nat /\ wi \in Machine /\ wi.state \in 1..End
        /\ registered \in BOOLEAN /\ row \in Rows /\ chain \in Seq(Batches) /\ sent \in 0..End
    BY StepAssumption DEF RunInv, Typed, MachineTyped, ChainTyped, End
  <1>1. PICK w : w = wi'
    OBVIOUS
  <1>2. /\ m \in Machine /\ m.state = wi.state /\ m.is_error = wi.is_error
        /\ m.execution_done = wi.execution_done /\ m.late = wi.late /\ m.wait_for = wi.wait_for
        /\ m.received \subseteq wi.received \cup msg /\ (m.timed_out => m.late)
        /\ Moves(m, w) /\ chain' = Append(chain, b)
        /\ registered' = registered /\ row' = row /\ crashes' = crashes /\ ran' = ran /\ sent' = sent
    BY <1>1 DEF Goes
  <1>3. /\ w \in Machine /\ w.state \in wi.state..End /\ w.is_error = wi.is_error
        /\ w.received \subseteq wi.received \cup msg /\ (w.state = wi.state => w = m)
        /\ (w.state # wi.state => w.timed_out = FALSE /\ w.execution_done = FALSE)
    BY <1>2 DEF Moves
  <1>4. b \in Batches /\ b.ran = {} /\ b.stored = FALSE /\ b.msg = msg
        /\ b.cmds = Entered(wi.state, w.state)
    <2>1. wi.state \in Nat /\ w.state \in Nat /\ wi.state <= w.state /\ w.state <= End
      BY <1>0, <1>3
    <2>2. b = Batch(Entered(wi.state, w.state), msg)
      BY <1>1, <1>2
    <2>3. Entered(wi.state, w.state) \in Seq(1..End)
      BY <2>1, EnteredFact
    <2> HIDE DEF b
    <2>4. PICK e : e = Entered(wi.state, w.state)
      OBVIOUS
    <2>5. b = Batch(e, msg) /\ e \in Seq(1..End)
      BY <2>2, <2>3, <2>4
    <2>6. /\ b \in Batches /\ b.ran = {} /\ b.stored = FALSE /\ b.msg = msg /\ b.cmds = e
      BY <2>5, BatchFact
    <2> QED
      BY <2>4, <2>6
  <1> HIDE DEF b
  <1>5. /\ chain' \in Seq(Batches) /\ n - 1 \in Nat /\ n \in Nat
        /\ DOMAIN chain = 1..(n - 1) /\ DOMAIN chain' = 1..n
        /\ \A k \in DOMAIN chain : chain'[k] = chain[k]
        /\ chain'[n] = b
    BY <1>0, <1>2, <1>4, AppendFact
  <1> HIDE DEF n
  <1>6. /\ \A k \in DOMAIN chain' : (k \in DOMAIN chain /\ chain'[k] = chain[k]) \/ k = n
        /\ \A k \in DOMAIN chain : k \in DOMAIN chain' /\ n \in DOMAIN chain'
        /\ n \in DOMAIN chain'
    BY <1>5
  <1>7. MachineTyped'
    BY <1>0, <1>1, <1>2, <1>3 DEF MachineTyped
  <1>8. ChainTyped'
    BY <1>2, <1>5 DEF ChainTyped, RunInv, Typed
  <1>9. ChainInv'
    BY <1>2, <1>4, <1>5, <1>6 DEF ChainInv, RunInv
  <1>10. MachineInv'
    <2>1. w.is_error => w.state = End
      BY <1>0, <1>3 DEF RunInv, MachineInv
    <2>2. w.timed_out => w.late
      BY <1>2, <1>3
    <2>3. w.execution_done => w.state \in ran
      BY <1>2, <1>3 DEF RunInv, MachineInv
    <2>4. ~w.is_error => \A i \in 1..(w.state - 1) : Action[i] = "execute" => i \in ran
      <3>1. ~w.is_error => \A i \in 1..(m.state - 1) : Action[i] = "execute" => i \in ran
        BY <1>2, <1>3 DEF RunInv, MachineInv, ExecutedBeforePassed
      <3>2. m.execution_done => m.state \in ran
        BY <1>2 DEF RunInv, MachineInv
      <3> QED
        BY <1>2, <3>1, <3>2, PassesExecuted
    <2> QED
      BY <1>1, <1>2, <2>1, <2>2, <2>3, <2>4 DEF MachineInv, ExecutedBeforePassed
  <1>11. RowInv'
    <2>0. row.saved.state \in 1..End /\ row.saved.state <= wi.state
      BY <1>0 DEF RunInv, RowInv, Rows
    <2>1. row.saved.state <= w.state /\ (row.saved.state = w.state => w = m)
      BY <1>0, <1>3, <2>0
    <2>2. row.saved.state = w.state => DOMAIN w.wait_for \subseteq row.saved.wait_for
      BY <1>2, <2>1 DEF RunInv, RowInv
    <2>3. \A i \in 1..(row.saved.state - 1) : Action[i] = "execute" => i \in ran
      BY DEF RunInv, RowInv
    <2>4. ASSUME registered, w.state # End
          PROVE  /\ row.stored
                 /\ \A x \in w.received : \/ x \in row.received
                                          \/ \E k \in DOMAIN chain' : ~chain'[k].stored /\ x \in chain'[k].msg
                 /\ \E k \in DOMAIN chain' : ~chain'[k].stored
      <3>1. wi.state # End
        BY <1>0, <1>3, <2>4
      <3>2. row.stored /\ \A x \in wi.received :
                 \/ x \in row.received
                 \/ \E k \in DOMAIN chain : ~chain[k].stored /\ x \in chain[k].msg
        BY <2>4, <3>1 DEF RunInv, RowInv, is_active
      <3>3. n \in DOMAIN chain' /\ ~chain'[n].stored /\ chain'[n].msg = msg
        BY <1>4, <1>5, <1>6
      <3>4. \A k \in DOMAIN chain : k \in DOMAIN chain' /\ chain'[k] = chain[k]
        BY <1>5, <1>6
      <3>5. ASSUME NEW x \in wi.received
            PROVE  \/ x \in row.received
                   \/ \E k \in DOMAIN chain' : ~chain'[k].stored /\ x \in chain'[k].msg
        BY <3>2, <3>4
      <3>6. ASSUME NEW x \in msg
            PROVE  \E k \in DOMAIN chain' : ~chain'[k].stored /\ x \in chain'[k].msg
        BY <3>3
      <3> QED
        BY <1>3, <3>2, <3>3, <3>5, <3>6
    <2> QED
      BY <1>1, <1>2, <2>1, <2>2, <2>3, <2>4 DEF RowInv, is_active
  <1>12. OrderInv'
    <2>1. ASSUME registered, ~w.is_error PROVE Ordered(chain', sent, w.state) /\ sent <= w.state
      <3>1. Ordered(chain, sent, wi.state) /\ sent <= wi.state
        BY <1>3, <2>1, InOrderMeans DEF RunInv, OrderInv
      <3>2. /\ sent \in Nat /\ wi.state \in Nat /\ w.state \in Nat /\ sent <= wi.state
            /\ wi.state <= w.state /\ w.state <= End
        BY <1>0, <1>3, <3>1
      <3> QED
        BY <1>0, <1>2, <1>4, <3>1, <3>2, OrderedAppend
    <2> QED
      BY <1>1, <1>2, <2>1, OrderFollows
  <1> QED
    BY <1>7, <1>8, <1>9, <1>10, <1>11, <1>12 DEF Core

\* The results of a batch that is stored: the run may move on, the batch goes.
LEMMA ResultsStep ==
    ASSUME RunInv, handle_command_results
    PROVE  Core'
  <1> DEFINE m == IF wi.state \in Head(chain).ran THEN [wi EXCEPT !.execution_done = TRUE] ELSE wi
             t == Tail(chain)
             b == Batch(Entered(wi.state, wi'.state), {})
             n == Len(chain)
  <1>0. /\ N \in Nat /\ End = N + 1 /\ End \in Nat /\ wi \in Machine /\ wi.state \in 1..End
        /\ registered \in BOOLEAN /\ row \in Rows /\ chain \in Seq(Batches) /\ sent \in 0..End
    BY StepAssumption DEF RunInv, Typed, MachineTyped, ChainTyped, End
  <1>1. chain # <<>> /\ Head(chain).stored
    BY DEF handle_command_results
  <1>2. /\ n \in Nat /\ n # 0 /\ DOMAIN chain = 1..n /\ 1 \in DOMAIN chain /\ Head(chain) = chain[1]
        /\ t \in Seq(Batches) /\ Len(t) = n - 1 /\ DOMAIN t = 1..(n - 1)
        /\ \A k \in DOMAIN t : t[k] = chain[k + 1]
    BY <1>0, <1>1
  <1>3. chain[1].cmds = <<>> /\ chain[1].ran \subseteq ran /\ chain[1].stored
    BY <1>1, <1>2 DEF RunInv, ChainInv
  <1>4. /\ m \in Machine /\ m.state = wi.state /\ m.is_error = wi.is_error
        /\ m.timed_out = wi.timed_out /\ m.late = wi.late /\ m.wait_for = wi.wait_for
        /\ m.received = wi.received /\ (m.execution_done => m.state \in ran)
    <2>1. CASE wi.state \in Head(chain).ran
      <3>1. m = [wi EXCEPT !.execution_done = TRUE]
        BY <2>1
      <3> QED
        BY <1>0, <1>2, <1>3, <2>1, <3>1 DEF Machine
    <2>2. CASE wi.state \notin Head(chain).ran
      <3>1. m = wi
        BY <2>2
      <3> QED
        BY <1>0, <3>1 DEF RunInv, MachineInv
    <2> QED
      BY <2>1, <2>2
  <1>5. /\ wi' = move_to_next_state(m)
        /\ chain' = IF resulting_commands(m) = <<>> THEN t
                    ELSE Append(t, Batch(resulting_commands(m), {}))
        /\ row' = [row EXCEPT !.stored = @ /\ ~(/\ resulting_commands(m) = <<>> /\ Head(chain).was
                                                /\ ~is_active(wi) /\ registered)]
        /\ registered' = registered /\ crashes' = crashes /\ ran' = ran /\ sent' = sent
    BY DEF handle_command_results
  <1> HIDE DEF m, t, n
  <1>6. PICK w : w = wi'
    OBVIOUS
  <1>7. Moves(m, w) /\ resulting_commands(m) = Entered(wi.state, w.state)
    BY <1>4, <1>5, <1>6, MoveFact DEF RunInv, Typed
  <1>8. /\ w \in Machine /\ w.state \in wi.state..End /\ w.is_error = wi.is_error
        /\ w.received = wi.received /\ (w.state = wi.state => w = m)
        /\ (w.state # wi.state => w.timed_out = FALSE /\ w.execution_done = FALSE)
    BY <1>4, <1>7 DEF Moves
  <1>9. /\ wi.state \in Nat /\ w.state \in Nat /\ wi.state <= w.state /\ w.state <= End
    BY <1>0, <1>8
  <1>10. /\ b \in Batches /\ b.ran = {} /\ b.stored = FALSE /\ b.cmds = Entered(wi.state, w.state)
    <2>1. Entered(wi.state, w.state) \in Seq(1..End)
      BY <1>9, EnteredFact
    <2>2. b = Batch(Entered(wi.state, w.state), {})
      BY <1>6
    <2> HIDE DEF b
    <2>3. PICK e : e = Entered(wi.state, w.state)
      OBVIOUS
    <2>4. b = Batch(e, {}) /\ e \in Seq(1..End) /\ {} \in SUBSET Messages
      BY <2>1, <2>2, <2>3
    <2>5. b \in Batches /\ b.ran = {} /\ b.stored = FALSE /\ b.cmds = e
      BY <2>4, BatchFact
    <2> QED
      BY <2>3, <2>5
  <1>11. chain' = IF w.state = wi.state THEN t ELSE Append(t, b)
    <2>1. Entered(wi.state, w.state) = <<>> <=> wi.state = w.state
      BY <1>9, EnteredFact
    <2> QED
      BY <1>5, <1>6, <1>7, <2>1
  <1> HIDE DEF b
  <1>12. /\ chain' \in Seq(Batches)
         /\ \A k \in DOMAIN t : k \in DOMAIN chain' /\ chain'[k] = t[k]
         /\ \A k \in DOMAIN chain' : k \in DOMAIN t \/ (k = n /\ chain'[k] = b)
         /\ (w.state # wi.state => n \in DOMAIN chain' /\ chain'[n] = b)
    <2>1. CASE w.state = wi.state
      <3>1. chain' = t /\ t \in Seq(Batches)
        BY <1>2, <1>11, <2>1
      <3> QED
        BY <2>1, <3>1
    <2>2. CASE w.state # wi.state
      <3>1. chain' = Append(t, b)
        BY <1>11, <2>2
      <3>2. /\ Append(t, b) \in Seq(Batches) /\ DOMAIN Append(t, b) = 1..(Len(t) + 1)
            /\ DOMAIN t = 1..Len(t)
            /\ \A k \in DOMAIN t : Append(t, b)[k] = t[k]
            /\ Append(t, b)[Len(t) + 1] = b
        BY <1>2, <1>10, AppendFact
      <3>3. Len(t) + 1 = n /\ n \in Nat
        BY <1>2
      <3>4. /\ n \in DOMAIN chain' /\ chain'[n] = b /\ chain' \in Seq(Batches)
        BY <3>1, <3>2, <3>3
      <3>5. \A k \in DOMAIN t : k \in DOMAIN chain' /\ chain'[k] = t[k]
        BY <3>1, <3>2, <3>3
      <3>6. \A k \in DOMAIN chain' : k \in DOMAIN t \/ k = n
        BY <3>1, <3>2, <3>3
      <3> QED
        BY <3>4, <3>5, <3>6
    <2> QED
      BY <2>1, <2>2
  <1>13. /\ \A k \in DOMAIN t : k + 1 \in DOMAIN chain /\ t[k] = chain[k + 1] /\ ~t[k].stored
                                /\ t[k].ran \subseteq ran
         /\ \A k \in DOMAIN chain : k # 1 => k - 1 \in DOMAIN t /\ t[k - 1] = chain[k]
    <2>1. ASSUME NEW k \in DOMAIN t
          PROVE  k + 1 \in DOMAIN chain /\ t[k] = chain[k + 1] /\ k + 1 # 1
      BY <1>2
    <2>2. \A k \in DOMAIN chain : k # 1 => k - 1 \in DOMAIN t /\ t[k - 1] = chain[k]
      BY <1>2
    <2> QED
      BY <2>1, <2>2 DEF RunInv, ChainInv
  <1>14. /\ row' \in Rows /\ row'.saved = row.saved /\ row'.received = row.received
         /\ (is_active(wi) => row'.stored = row.stored)
    BY <1>0, <1>5 DEF Rows
  <1>15. MachineTyped'
    BY <1>0, <1>5, <1>6, <1>8, <1>14 DEF MachineTyped
  <1>16. ChainTyped'
    BY <1>5, <1>12 DEF ChainTyped, RunInv, Typed
  <1>17. ChainInv'
    <2>1. ASSUME NEW k \in DOMAIN chain'
          PROVE  chain'[k].ran \subseteq ran /\ ~chain'[k].stored
      BY <1>10, <1>12, <1>13, <2>1
    <2> QED
      BY <1>5, <2>1 DEF ChainInv
  <1>18. MachineInv'
    <2>1. w.is_error => w.state = End
      BY <1>0, <1>8 DEF RunInv, MachineInv
    <2>2. w.timed_out => w.late
      BY <1>4, <1>8 DEF RunInv, MachineInv
    <2>3. w.execution_done => w.state \in ran
      BY <1>4, <1>8
    <2>4. ~w.is_error => \A i \in 1..(w.state - 1) : Action[i] = "execute" => i \in ran
      <3>1. ~w.is_error => \A i \in 1..(m.state - 1) : Action[i] = "execute" => i \in ran
        BY <1>4, <1>8 DEF RunInv, MachineInv, ExecutedBeforePassed
      <3> QED
        BY <1>4, <1>7, <3>1, PassesExecuted
    <2> QED
      BY <1>5, <1>6, <2>1, <2>2, <2>3, <2>4 DEF MachineInv, ExecutedBeforePassed
  <1>19. RowInv'
    <2>0. row.saved.state \in 1..End /\ row.saved.state <= wi.state
      BY <1>0 DEF RunInv, RowInv, Rows
    <2>1. row.saved.state <= w.state /\ (row.saved.state = w.state => row.saved.state = wi.state /\ w = m)
      BY <1>0, <1>8, <2>0
    <2>2. row.saved.state = w.state => DOMAIN w.wait_for \subseteq row.saved.wait_for
      BY <1>4, <2>1 DEF RunInv, RowInv
    <2>3. \A i \in 1..(row.saved.state - 1) : Action[i] = "execute" => i \in ran
      BY DEF RunInv, RowInv
    <2>4. ASSUME registered, w.state # End
          PROVE  /\ row'.stored
                 /\ \A x \in w.received : \/ x \in row.received
                                          \/ \E k \in DOMAIN chain' : ~chain'[k].stored /\ x \in chain'[k].msg
                 /\ \/ crashes # 0 \/ row.saved = exported(w)
                    \/ \E k \in DOMAIN chain' : ~chain'[k].stored
      <3>1. wi.state # End
        BY <1>0, <1>8, <2>4
      <3>2. /\ row.stored
            /\ \A x \in wi.received :
                 \/ x \in row.received
                 \/ \E k \in DOMAIN chain : ~chain[k].stored /\ x \in chain[k].msg
            /\ \/ crashes # 0 \/ row.saved = exported(wi)
               \/ \E k \in DOMAIN chain : ~chain[k].stored
        BY <2>4, <3>1 DEF RunInv, RowInv, is_active
      <3>3. ASSUME NEW k \in DOMAIN chain, ~chain[k].stored
            PROVE  k - 1 \in DOMAIN chain' /\ chain'[k - 1] = chain[k]
        BY <1>3, <1>12, <1>13, <3>3
      <3>4. row'.stored
        BY <1>14, <3>1, <3>2 DEF is_active
      <3>5. ASSUME NEW x \in w.received
            PROVE  \/ x \in row.received
                   \/ \E k \in DOMAIN chain' : ~chain'[k].stored /\ x \in chain'[k].msg
        <4>1. CASE x \in row.received
          BY <4>1
        <4>2. CASE \E k \in DOMAIN chain : ~chain[k].stored /\ x \in chain[k].msg
          <5>1. PICK k \in DOMAIN chain : ~chain[k].stored /\ x \in chain[k].msg
            BY <4>2
          <5>2. k - 1 \in DOMAIN chain' /\ chain'[k - 1] = chain[k]
            BY <3>3, <5>1
          <5> QED
            BY <5>1, <5>2
        <4> QED
          BY <1>8, <3>2, <4>1, <4>2
      <3>6. \/ crashes # 0 \/ row.saved = exported(w)
            \/ \E k \in DOMAIN chain' : ~chain'[k].stored
        <4>1. CASE w.state # wi.state
          BY <1>10, <1>12, <4>1
        <4>2. CASE w.state = wi.state
          <5>1. exported(w) = exported(wi)
            BY <1>4, <1>8, <4>2 DEF exported
          <5>2. CASE \E k \in DOMAIN chain : ~chain[k].stored
            <6>1. PICK k \in DOMAIN chain : ~chain[k].stored
              BY <5>2
            <6>2. k - 1 \in DOMAIN chain' /\ chain'[k - 1] = chain[k]
              BY <3>3, <6>1
            <6> QED
              BY <6>1, <6>2
          <5> QED
            BY <3>2, <5>1, <5>2
        <4> QED
          BY <4>1, <4>2
      <3> QED
        BY <3>4, <3>5, <3>6
    <2> QED
      BY <1>5, <1>6, <1>14, <2>1, <2>2, <2>3, <2>4 DEF RowInv, is_active, exported
  <1>20. OrderInv'
    <2>1. ASSUME registered, ~w.is_error PROVE Ordered(chain', sent, w.state) /\ sent <= w.state
      <3>1. Ordered(chain, sent, wi.state) /\ sent <= wi.state
        BY <1>8, <2>1, InOrderMeans DEF RunInv, OrderInv
      <3>2. Ordered(t, sent, wi.state)
        BY <1>0, <1>1, <1>3, <3>1, OrderedTail DEF t
      <3>3. sent \in Nat /\ sent <= w.state
        BY <1>0, <1>9, <3>1
      <3>4. CASE w.state = wi.state
        BY <1>11, <3>2, <3>3, <3>4
      <3>5. CASE w.state # wi.state
        <4>1. Ordered(Append(t, b), sent, w.state)
          BY <1>2, <1>9, <1>10, <3>1, <3>2, <3>3, OrderedAppend
        <4> QED
          BY <1>11, <3>3, <3>5, <4>1
      <3> QED
        BY <3>4, <3>5
    <2> QED
      BY <1>5, <1>6, <2>1, OrderFollows
  <1> QED
    BY <1>15, <1>16, <1>17, <1>18, <1>19, <1>20 DEF Core

\* The run ends with an error.
Stops(msg) ==
    /\ wi.state # End
    /\ wi' \in Machine /\ wi'.state = End /\ wi'.is_error = TRUE /\ wi'.timed_out = FALSE
    /\ wi'.execution_done = FALSE /\ wi'.wait_for = Nobody
    /\ chain' = chain \/ chain' = Append(chain, Batch(<<>>, msg))
    /\ row' = row \/ row' = [row EXCEPT !.stored = FALSE]
    /\ UNCHANGED <<registered, crashes, ran, sent>>

\* The machine stops with an error and chains no command.
LEMMA StopsStep ==
    ASSUME RunInv, NEW msg \in SUBSET Messages, Stops(msg)
    PROVE  Core'
  <1> DEFINE b == Batch(<<>>, msg)
  <1>0. /\ N \in Nat /\ End = N + 1 /\ End \in Nat /\ wi \in Machine /\ wi.state \in 1..End
        /\ registered \in BOOLEAN /\ row \in Rows /\ chain \in Seq(Batches) /\ sent \in 0..End
    BY StepAssumption DEF RunInv, Typed, MachineTyped, ChainTyped, End
  <1>1. /\ wi' \in Machine /\ wi'.state = End /\ wi'.is_error = TRUE /\ wi'.timed_out = FALSE
        /\ wi'.execution_done = FALSE /\ wi'.wait_for = Nobody
        /\ registered' = registered /\ crashes' = crashes /\ ran' = ran /\ sent' = sent
        /\ chain' = chain \/ chain' = Append(chain, b)
        /\ row' = row \/ row' = [row EXCEPT !.stored = FALSE]
    BY DEF Stops
  <1>2. b \in Batches /\ b.ran = {} /\ b.stored = FALSE
    <2>1. <<>> \in Seq(1..End)
      OBVIOUS
    <2> QED
      BY <2>1, BatchFact
  <1> HIDE DEF b
  <1>3. row' \in Rows /\ row'.saved = row.saved
    BY <1>0, <1>1 DEF Rows
  <1>4. MachineTyped'
    BY <1>0, <1>1, <1>3 DEF MachineTyped
  <1>5. chain' \in Seq(Batches) /\ ChainInv'
    <2>1. CASE chain' = chain
      BY <1>0, <1>1, <2>1 DEF RunInv, ChainInv
    <2>2. CASE chain' = Append(chain, b)
      <3>1. /\ chain' \in Seq(Batches) /\ Len(chain) \in Nat
            /\ DOMAIN chain = 1..Len(chain) /\ DOMAIN chain' = 1..(Len(chain) + 1)
            /\ \A k \in DOMAIN chain : chain'[k] = chain[k]
            /\ chain'[Len(chain) + 1] = b
        BY <1>0, <1>2, <2>2, AppendFact
      <3>2. \A k \in DOMAIN chain' : k \in DOMAIN chain \/ chain'[k] = b
        BY <3>1
      <3> QED
        BY <1>1, <1>2, <3>1, <3>2 DEF RunInv, ChainInv
    <2> QED
      BY <1>1, <2>1, <2>2
  <1>6. ChainTyped'
    BY <1>1, <1>5 DEF ChainTyped, RunInv, Typed
  <1>7. MachineInv'
    BY <1>1 DEF MachineInv, ExecutedBeforePassed
  <1>8. RowInv'
    <2>1. row.saved.state \in 1..End /\ row.saved.state <= End
      BY <1>0 DEF Rows
    <2>2. DOMAIN wi'.wait_for = {}
      BY <1>1 DEF Nobody
    <2> QED
      BY <1>1, <1>3, <2>1, <2>2 DEF RowInv, RunInv, is_active
  <1>9. OrderInv'
    BY <1>1, OrderFollows
  <1> QED
    BY <1>4, <1>5, <1>6, <1>7, <1>8, <1>9 DEF Core

\* What ends with an error: end(m).
LEMMA EndFact ==
    ASSUME SubsTyped, NEW m \in Machine, m.state # End
    PROVE  /\ end(m) \in Machine /\ end(m).state = End /\ end(m).is_error = TRUE
           /\ end(m).timed_out = FALSE /\ end(m).execution_done = FALSE /\ end(m).wait_for = Nobody
  <1>1. End \in 1..End /\ End \notin 1..N
    BY StepAssumption DEF End
  <1>2. PICK w : w = begin_step(m, End)
    OBVIOUS
  <1>3. /\ w \in Machine /\ w.state = End /\ w.timed_out = FALSE /\ w.execution_done = FALSE
        /\ w.wait_for = Nobody
    BY <1>1, <1>2, BeginStep
  <1>4. end(m) = [w EXCEPT !.is_error = TRUE]
    BY <1>2 DEF end, is_active
  <1> QED
    BY <1>3, <1>4 DEF Machine

\* A command of the first batch is executed.
LEMMA ExecuteStep ==
    ASSUME RunInv, execute_command
    PROVE  Core'
  <1> DEFINE a == chain[1].cmds
             h == Head(a)
             cli == IF h \in 1..N /\ Action[h] = "execute" THEN {h} ELSE {}
             e == [chain[1] EXCEPT !.cmds = Tail(a), !.ran = @ \cup cli]
  <1>0. /\ N \in Nat /\ End = N + 1 /\ End \in Nat /\ chain \in Seq(Batches) /\ sent \in 0..End
        /\ ran \subseteq 1..N
    BY StepAssumption DEF RunInv, Typed, ChainTyped, End
  <1>1. /\ chain # <<>> /\ Head(chain) = chain[1] /\ DOMAIN chain = 1..Len(chain) /\ Len(chain) \in Nat
        /\ 1 \in DOMAIN chain /\ chain[1] \in Batches
    <2>1. chain # <<>>
      BY DEF execute_command
    <2>2. DOMAIN chain = 1..Len(chain) /\ Len(chain) \in Nat /\ Len(chain) # 0 /\ Head(chain) = chain[1]
      BY <1>0, <2>1
    <2>3. 1 \in DOMAIN chain
      BY <2>2
    <2> QED
      BY <1>0, <2>1, <2>2, <2>3
  <1>2. /\ a # <<>> /\ ran' = ran \cup cli /\ sent' = h
        /\ chain' = [chain EXCEPT ![1] = e]
        /\ wi' = wi /\ registered' = registered /\ row' = row /\ crashes' = crashes
    BY <1>1 DEF execute_command
  <1>3. a \in Seq(1..End) /\ Tail(a) \in Seq(1..End) /\ h \in 1..End
    <2>1. a \in Seq(1..End)
      BY <1>1 DEF Batches
    <2>2. a # <<>>
      BY <1>2
    <2> HIDE DEF a
    <2> QED
      BY <2>1, <2>2, HeadTailProperties
  <1>4. cli \subseteq 1..N
    OBVIOUS
  <1>5. /\ e \in Batches /\ e.cmds = Tail(a) /\ e.ran = chain[1].ran \cup cli /\ e.msg = chain[1].msg
        /\ e.stored = chain[1].stored
    <2> HIDE DEF cli, h
    <2> QED
      BY <1>1, <1>3, <1>4 DEF Batches
  <1> HIDE DEF e, cli
  <1>6. /\ chain' \in Seq(Batches) /\ DOMAIN chain' = DOMAIN chain /\ chain'[1] = e
        /\ \A k \in DOMAIN chain : k # 1 => chain'[k] = chain[k]
    BY <1>0, <1>1, <1>2, <1>5
  <1>7. ~chain[1].stored
    BY <1>1, <1>2 DEF RunInv, ChainInv
  <1>8. \A k \in DOMAIN chain : chain'[k].stored = chain[k].stored /\ chain'[k].msg = chain[k].msg
    BY <1>5, <1>6
  <1>9. MachineTyped'
    BY <1>2 DEF MachineTyped, RunInv, Typed
  <1>10. ChainTyped'
    <2>1. sent' \in 0..End
      BY <1>0, <1>2, <1>3
    <2> QED
      BY <1>0, <1>2, <1>4, <1>6, <2>1 DEF ChainTyped, RunInv, Typed
  <1>11. ChainInv'
    <2>1. \A k \in DOMAIN chain : chain'[k].ran \subseteq ran'
      BY <1>1, <1>2, <1>5, <1>6 DEF RunInv, ChainInv
    <2>2. ASSUME NEW k \in DOMAIN chain, chain'[k].stored PROVE k = 1 /\ chain'[k].cmds = <<>>
      <3>1. chain[k].stored
        BY <1>8, <2>2
      <3>2. k = 1
        BY <3>1 DEF RunInv, ChainInv
      <3> QED
        BY <1>7, <3>1, <3>2
    <2> QED
      BY <1>6, <2>1, <2>2 DEF ChainInv
  <1>12. MachineInv'
    BY <1>2 DEF RunInv, MachineInv, ExecutedBeforePassed
  <1>13. RowInv'
    BY <1>2, <1>6, <1>8 DEF RunInv, RowInv, is_active, exported
  <1>14. OrderInv'
    <2>1. ASSUME registered, ~wi.is_error
          PROVE  Ordered(chain', sent', wi.state) /\ sent' <= wi.state
      <3>1. Ordered(chain, sent, wi.state)
        BY <2>1, InOrderMeans DEF RunInv, OrderInv
      <3>2. PICK c : c = chain'
        OBVIOUS
      <3>3. /\ DOMAIN c = DOMAIN chain /\ c[1].cmds = Tail(chain[1].cmds)
            /\ \A k \in DOMAIN chain : k # 1 => c[k].cmds = chain[k].cmds
        BY <1>5, <1>6, <3>2
      <3>4. sent \in Nat /\ wi.state \in Nat
        BY <1>0 DEF RunInv, Typed, MachineTyped
      <3>5. Head(chain[1].cmds) = sent + 1 /\ sent + 1 <= wi.state /\ Ordered(c, sent + 1, wi.state)
        BY <1>0, <1>1, <1>2, <3>1, <3>3, <3>4, OrderedHead
      <3> QED
        BY <1>2, <3>2, <3>5
    <2> QED
      BY <1>2, <2>1, OrderFollows
  <1> QED
    BY <1>9, <1>10, <1>11, <1>12, <1>13, <1>14 DEF Core

\* A command raises: the chain keeps all it has.
LEMMA FailStep ==
    ASSUME RunInv, command_fails
    PROVE  Core'
  <1> DEFINE e == [chain[1] EXCEPT !.failed = TRUE]
  <1>1. /\ chain # <<>> /\ chain' = [chain EXCEPT ![1] = e] /\ chain \in Seq(Batches)
        /\ UNCHANGED <<wi, registered, row, crashes, ran, sent>>
    BY DEF command_fails, RunInv, Typed, ChainTyped
  <1>2. /\ 1 \in DOMAIN chain /\ DOMAIN chain' = DOMAIN chain /\ chain[1] \in Batches
        /\ chain'[1] = e /\ \A k \in DOMAIN chain : k # 1 => chain'[k] = chain[k]
    <2> HIDE DEF e
    <2>1. 1 \in DOMAIN chain
      BY <1>1
    <2> QED
      BY <1>1, <2>1
  <1>3. /\ e \in Batches /\ e.cmds = chain[1].cmds /\ e.ran = chain[1].ran /\ e.msg = chain[1].msg
        /\ e.stored = chain[1].stored
    BY <1>2 DEF Batches
  <1> HIDE DEF e
  <1>4. chain' \in Seq(Batches)
    BY <1>1, <1>2, <1>3
  <1>5. \A k \in DOMAIN chain : /\ chain'[k].cmds = chain[k].cmds /\ chain'[k].ran = chain[k].ran
                                /\ chain'[k].msg = chain[k].msg /\ chain'[k].stored = chain[k].stored
    BY <1>2, <1>3
  <1>6. MachineTyped' /\ ChainTyped'
    BY <1>1, <1>4 DEF MachineTyped, ChainTyped, RunInv, Typed
  <1>7. ChainInv'
    BY <1>1, <1>2, <1>5 DEF RunInv, ChainInv
  <1>8. MachineInv'
    BY <1>1 DEF RunInv, MachineInv, ExecutedBeforePassed
  <1>9. RowInv'
    BY <1>1, <1>2, <1>5 DEF RunInv, RowInv, is_active, exported
  <1>10. OrderInv'
    <2>1. ASSUME registered, ~wi.is_error
          PROVE  Ordered(chain', sent, wi.state) /\ sent <= wi.state
      <3>1. Ordered(chain, sent, wi.state) /\ sent <= wi.state
        BY <2>1, InOrderMeans DEF RunInv, OrderInv
      <3>2. PICK c : c = chain'
        OBVIOUS
      <3>3. Ordered(c, sent, wi.state)
        BY <1>2, <1>5, <3>1, <3>2, OrderedSame
      <3> QED
        BY <3>1, <3>2, <3>3
    <2> QED
      BY <1>1, <2>1, OrderFollows
  <1> QED
    BY <1>6, <1>7, <1>8, <1>9, <1>10 DEF Core

\* The first batch is stored: what it holds of messages is in the row from now on.
LEMMA StoreStep ==
    ASSUME RunInv, store_running_task_state
    PROVE  Core'
  <1> DEFINE e == [chain[1] EXCEPT !.stored = TRUE, !.was = is_active(wi)]
  <1>0. /\ N \in Nat /\ End = N + 1 /\ End \in Nat /\ wi \in Machine /\ wi.state \in 1..End
        /\ registered \in BOOLEAN /\ row \in Rows /\ chain \in Seq(Batches)
    BY StepAssumption DEF RunInv, Typed, MachineTyped, ChainTyped, End
  <1>1. /\ chain # <<>> /\ Head(chain) = chain[1] /\ DOMAIN chain = 1..Len(chain) /\ Len(chain) \in Nat
        /\ 1 \in DOMAIN chain /\ chain[1] \in Batches
    <2>1. chain # <<>>
      BY DEF store_running_task_state
    <2>2. DOMAIN chain = 1..Len(chain) /\ Len(chain) \in Nat /\ Len(chain) # 0 /\ Head(chain) = chain[1]
      BY <1>0, <2>1
    <2>3. 1 \in DOMAIN chain
      BY <2>2
    <2> QED
      BY <1>0, <2>1, <2>2, <2>3
  <1>2. /\ chain[1].cmds = <<>> /\ chain' = [chain EXCEPT ![1] = e]
        /\ wi' = wi /\ registered' = registered /\ crashes' = crashes /\ ran' = ran /\ sent' = sent
        /\ (wi.state # End => row' = [row EXCEPT !.saved = exported(wi),
                                                 !.received = @ \cup chain[1].msg])
        /\ (wi.state = End => row' = [row EXCEPT !.stored = @ /\ ~registered])
    BY <1>1 DEF store_running_task_state, update_state, is_active
  <1>3. e \in Batches /\ e.cmds = chain[1].cmds /\ e.ran = chain[1].ran
    <2>1. is_active(wi) \in BOOLEAN
      BY DEF is_active
    <2> QED
      BY <1>1, <2>1 DEF Batches
  <1> HIDE DEF e
  <1>4. /\ chain' \in Seq(Batches) /\ DOMAIN chain' = DOMAIN chain /\ chain'[1] = e
        /\ \A k \in DOMAIN chain : k # 1 => chain'[k] = chain[k]
    BY <1>0, <1>1, <1>2, <1>3
  <1>5. exported(wi) \in [state : 1..End, wait_for : SUBSET Subs]
        /\ exported(wi).state = wi.state /\ exported(wi).wait_for = DOMAIN wi.wait_for
    BY <1>0 DEF exported, Machine, Tables
  <1>6. /\ row' \in Rows
        /\ (wi.state # End => /\ row'.saved = exported(wi) /\ row'.stored = row.stored
                              /\ row'.received = row.received \cup chain[1].msg)
        /\ (wi.state = End => row'.saved = row.saved)
    <2>1. chain[1].msg \subseteq Messages
      BY <1>1 DEF Batches
    <2>2. CASE wi.state = End
      BY <1>0, <1>2, <2>2 DEF Rows
    <2>3. CASE wi.state # End
      <3>1. row' = [row EXCEPT !.saved = exported(wi), !.received = @ \cup chain[1].msg]
        BY <1>2, <2>3
      <3> QED
        BY <1>0, <1>5, <2>1, <2>3, <3>1 DEF Rows
    <2> QED
      BY <2>2, <2>3
  <1>7. MachineTyped'
    BY <1>0, <1>2, <1>6 DEF MachineTyped
  <1>8. ChainTyped'
    BY <1>2, <1>4 DEF ChainTyped, RunInv, Typed
  <1>9. ChainInv'
    BY <1>1, <1>2, <1>3, <1>4 DEF RunInv, ChainInv
  <1>10. MachineInv'
    BY <1>2 DEF RunInv, MachineInv, ExecutedBeforePassed
  <1>11. RowInv'
    <2>1. CASE wi.state = End
      BY <1>2, <1>6, <2>1 DEF RunInv, RowInv, is_active
    <2>2. CASE wi.state # End
      <3>1. /\ row'.saved.state = wi.state /\ row'.saved.wait_for = DOMAIN wi.wait_for
            /\ row'.saved = exported(wi')
        BY <1>2, <1>5, <1>6, <2>2
      <3>2. \A i \in 1..(wi.state - 1) : Action[i] = "execute" => i \in ran
        BY <2>2 DEF RunInv, MachineInv, ExecutedBeforePassed
      <3>3. wi.state <= wi.state
        BY <1>0
      <3>4. ASSUME registered
            PROVE  /\ row'.stored
                   /\ \A x \in wi.received : \/ x \in row'.received
                                             \/ \E k \in DOMAIN chain' : ~chain'[k].stored /\ x \in chain'[k].msg
        <4>1. /\ row.stored
              /\ \A x \in wi.received : \/ x \in row.received
                                        \/ \E k \in DOMAIN chain : ~chain[k].stored /\ x \in chain[k].msg
          BY <2>2, <3>4 DEF RunInv, RowInv, is_active
        <4>2. ASSUME NEW x \in wi.received
              PROVE  \/ x \in row'.received
                     \/ \E k \in DOMAIN chain' : ~chain'[k].stored /\ x \in chain'[k].msg
          <5>1. CASE x \in row.received
            BY <1>6, <2>2, <5>1
          <5>2. CASE \E k \in DOMAIN chain : ~chain[k].stored /\ x \in chain[k].msg
            <6>1. PICK k \in DOMAIN chain : ~chain[k].stored /\ x \in chain[k].msg
              BY <5>2
            <6>2. CASE k = 1
              BY <1>6, <2>2, <6>1, <6>2
            <6>3. CASE k # 1
              BY <1>4, <6>1, <6>3
            <6> QED
              BY <6>2, <6>3
          <5> QED
            BY <4>1, <5>1, <5>2
        <4> QED
          BY <1>6, <2>2, <4>1, <4>2
      <3> QED
        BY <1>2, <3>1, <3>2, <3>3, <3>4 DEF RowInv
    <2> QED
      BY <2>1, <2>2
  <1>12. OrderInv'
    <2>1. ASSUME registered, ~wi.is_error
          PROVE  Ordered(chain', sent, wi.state) /\ sent <= wi.state
      <3>1. Ordered(chain, sent, wi.state) /\ sent <= wi.state
        BY <2>1, InOrderMeans DEF RunInv, OrderInv
      <3>2. PICK c : c = chain'
        OBVIOUS
      <3>3. DOMAIN c = DOMAIN chain /\ \A k \in DOMAIN chain : c[k].cmds = chain[k].cmds
        BY <1>3, <1>4, <3>2
      <3>4. Ordered(c, sent, wi.state)
        BY <3>1, <3>3, OrderedSame
      <3> QED
        BY <3>1, <3>2, <3>4
    <2> QED
      BY <1>2, <2>1, OrderFollows
  <1> QED
    BY <1>7, <1>8, <1>9, <1>10, <1>11, <1>12 DEF Core

\* A step of the subscribers only.
LEMMA IdleStep ==
    ASSUME RunInv, UNCHANGED <<wi, registered, chain, row, crashes, ran, sent>>
    PROVE  Core'
  BY DEF RunInv, Typed, Core, MachineTyped, ChainTyped, ChainInv, MachineInv, RowInv, OrderInv,
         CommandsInOrder, ExecutedBeforePassed, is_active, exported

\* The clock of the current step runs out.
LEMMA OverdueStep ==
    ASSUME RunInv, Overdue
    PROVE  Core'
  <1>1. /\ wi \in Machine /\ wi' = [wi EXCEPT !.late = TRUE] /\ registered' = registered /\ row' = row
        /\ chain' = chain /\ crashes' = crashes /\ ran' = ran /\ sent' = sent
    BY DEF Overdue, RunInv, Typed, MachineTyped
  <1>2. /\ wi' \in Machine /\ wi'.state = wi.state /\ wi'.is_error = wi.is_error /\ wi'.late = TRUE
        /\ wi'.execution_done = wi.execution_done /\ wi'.wait_for = wi.wait_for
        /\ wi'.received = wi.received
    BY <1>1 DEF Machine
  <1>3. MachineTyped' /\ ChainTyped' /\ ChainInv'
    BY <1>1, <1>2 DEF RunInv, Typed, MachineTyped, ChainTyped, ChainInv
  <1>4. MachineInv'
    BY <1>1, <1>2 DEF RunInv, MachineInv, ExecutedBeforePassed
  <1>5. RowInv'
    BY <1>1, <1>2 DEF RunInv, RowInv, is_active, exported
  <1>6. OrderInv'
    BY <1>1, <1>2 DEF RunInv, OrderInv, CommandsInOrder
  <1> QED
    BY <1>3, <1>4, <1>5, <1>6 DEF Core

\* A run that is over is removed.
LEMMA DeleteStep ==
    ASSUME RunInv, delete_running_task
    PROVE  Core'
  <1>1. /\ row \in Rows /\ row' = [row EXCEPT !.stored = FALSE] /\ registered' = FALSE /\ wi' = wi
        /\ chain' = chain /\ crashes' = crashes /\ ran' = ran /\ sent' = sent
    BY DEF delete_running_task, RunInv, Typed, MachineTyped
  <1>2. row' \in Rows /\ row'.saved = row.saved /\ row'.received = row.received
    BY <1>1 DEF Rows
  <1>3. MachineTyped' /\ ChainTyped' /\ ChainInv'
    BY <1>1, <1>2 DEF RunInv, Typed, MachineTyped, ChainTyped, ChainInv
  <1>4. MachineInv'
    BY <1>1, <1>2 DEF RunInv, MachineInv, ExecutedBeforePassed
  <1>5. RowInv'
    BY <1>1, <1>2 DEF RunInv, RowInv
  <1>6. OrderInv'
    BY <1>1, OrderFollows
  <1> QED
    BY <1>3, <1>4, <1>5, <1>6 DEF Core

\* A chain without commands, and one with the command of the current step.
LEMMA OrderedNew ==
    ASSUME NEW s \in Nat, NEW b, b.cmds = <<s>>
    PROVE  Ordered(<<>>, s, s) /\ (s # 0 => Ordered(<<b>>, s - 1, s))
  <1>1. Ordered(<<>>, s, s)
    BY DEF Ordered
  <1>2. DOMAIN <<b>> = {1} /\ <<b>>[1] = b /\ DOMAIN b.cmds = {1} /\ b.cmds[1] = s
    OBVIOUS
  <1>3. Range(b.cmds) = {s}
    BY <1>2 DEF Range
  <1>4. ASSUME s # 0 PROVE (s - 1 + 1)..s = {s}
    BY <1>4
  <1> QED
    BY <1>1, <1>2, <1>3, <1>4 DEF Ordered

\* The machine that the row describes.
LEMMA RestoredFact ==
    ASSUME RunInv, NEW late \in BOOLEAN
    PROVE  /\ restored(late) \in Machine /\ restored(late).state = row.saved.state
           /\ restored(late).is_error = FALSE /\ restored(late).timed_out = FALSE
           /\ restored(late).execution_done = FALSE /\ restored(late).received = row.received
           /\ DOMAIN restored(late).wait_for \subseteq row.saved.wait_for
           /\ restored(late).wait_for =
                [s \in row.saved.wait_for \cap {x \in Subs : row.saved.state \in subscriptions[x]}
                   |-> subscriptions[s]]
  <1> DEFINE D == row.saved.wait_for \cap DOMAIN subscribers_by_event(row.saved.state)
             W == [s \in D |-> subscriptions[s]]
  <1>1. /\ row.saved.state \in 0..End /\ row.received \subseteq Messages
        /\ row.saved.wait_for \subseteq Subs /\ subscriptions \in [Subs -> SUBSET (1..N)]
    BY StepAssumption DEF RunInv, Typed, MachineTyped, SubsTyped, Rows, End
  <1>2. D \in SUBSET Subs /\ W \in [D -> SUBSET (1..N)]
    BY <1>1
  <1>3. W \in Tables /\ DOMAIN W = D
    BY <1>2 DEF Tables
  <1>4. restored(late) = [NewTask EXCEPT !.state = row.saved.state, !.received = row.received,
                                         !.late = late, !.wait_for = W]
    BY DEF restored
  <1>5. D = row.saved.wait_for \cap {x \in Subs : row.saved.state \in subscriptions[x]}
    BY DEF subscribers_by_event
  <1>6. W = [s \in row.saved.wait_for \cap {x \in Subs : row.saved.state \in subscriptions[x]}
               |-> subscriptions[s]]
    BY <1>5
  <1> HIDE DEF D, W
  <1>7. NewTask \in Machine
    BY StepAssumption, TablesFact DEF NewTask, Machine, RunInv, Typed, End
  <1>8. /\ restored(late) \in Machine /\ restored(late).state = row.saved.state
        /\ restored(late).is_error = NewTask.is_error /\ restored(late).timed_out = NewTask.timed_out
        /\ restored(late).execution_done = NewTask.execution_done
        /\ restored(late).received = row.received /\ restored(late).wait_for = W
    BY <1>1, <1>3, <1>4, <1>7 DEF Machine
  <1>9. NewTask.is_error = FALSE /\ NewTask.timed_out = FALSE /\ NewTask.execution_done = FALSE
    BY DEF NewTask
  <1>10. DOMAIN W \subseteq row.saved.wait_for
    BY <1>3 DEF D
  <1> QED
    BY <1>6, <1>8, <1>9, <1>10

\* A restart with a row: the machine is the one of the row, moved on.
LEMMA RestartStep ==
    ASSUME RunInv, start_interrupted_tasks
    PROVE  Core'
  <1>0. /\ N \in Nat /\ End = N + 1 /\ End \in Nat /\ wi \in Machine /\ wi.state \in 1..End
        /\ registered \in BOOLEAN /\ row \in Rows /\ crashes \in Nat /\ ran \subseteq 1..N
    BY StepAssumption DEF RunInv, Typed, MachineTyped, ChainTyped, End
  <1>1. /\ crashes' = crashes + 1 /\ registered' = row.stored /\ row' = row /\ ran' = ran
    BY DEF start_interrupted_tasks
  <1>2. row.saved.state \in 1..End /\ row.stored \in BOOLEAN /\ row.saved.state <= wi.state
    BY <1>0 DEF Rows, RunInv, RowInv
  <1>3. CASE ~row.stored
    <2>1. chain' = <<>> /\ wi' = wi /\ sent' = sent
      BY <1>3 DEF start_interrupted_tasks
    <2>2. MachineTyped' /\ ChainTyped' /\ ChainInv'
      BY <1>0, <1>1, <1>2, <2>1 DEF RunInv, Typed, MachineTyped, ChainTyped, ChainInv
    <2>3. MachineInv'
      BY <1>1, <2>1 DEF RunInv, MachineInv, ExecutedBeforePassed
    <2>4. RowInv'
      BY <1>1, <1>3, <2>1 DEF RunInv, RowInv
    <2>5. OrderInv'
      BY <1>1, <1>3, OrderFollows
    <2> QED
      BY <2>2, <2>3, <2>4, <2>5 DEF Core
  <1>4. CASE row.stored
    <2> DEFINE b == Batch(<<wi'.state>>, {})
    <2>1. PICK late \in BOOLEAN : wi' = move_to_next_state(restored(late))
      BY <1>4 DEF start_interrupted_tasks, RestoredLate
    <2>2. PICK m : m = restored(late)
      OBVIOUS
    <2>3. /\ m \in Machine /\ m.state = row.saved.state /\ m.is_error = FALSE /\ m.timed_out = FALSE
          /\ m.execution_done = FALSE /\ m.received = row.received
          /\ DOMAIN m.wait_for \subseteq row.saved.wait_for
      BY <2>2, RestoredFact
    <2>4. PICK w : w = wi'
      OBVIOUS
    <2>5. Moves(m, w)
      BY <2>1, <2>2, <2>3, <2>4, MoveFact DEF RunInv, Typed
    <2>6. /\ w \in Machine /\ w.state \in row.saved.state..End /\ w.is_error = FALSE
          /\ w.received = row.received /\ (w.state = row.saved.state => w = m)
          /\ w.timed_out = FALSE /\ w.execution_done = FALSE
      BY <2>3, <2>5 DEF Moves
    <2>7. w.state \in 1..End /\ w.state \in Nat /\ row.saved.state <= w.state
      BY <1>0, <1>2, <2>6
    <2>8. b \in Batches /\ b.cmds = <<w.state>> /\ b.ran = {} /\ b.stored = FALSE
      <3>1. PICK e : e = <<w.state>>
        OBVIOUS
      <3>2. e \in Seq(1..End) /\ {} \in SUBSET Messages /\ b = Batch(e, {})
        BY <2>4, <2>7, <3>1
      <3> HIDE DEF b
      <3>3. b \in Batches /\ b.cmds = e /\ b.ran = {} /\ b.stored = FALSE
        BY <3>2, BatchFact
      <3> QED
        BY <3>1, <3>3
    <2>9. \/ chain' = <<b>> /\ sent' = w.state - 1
          \/ chain' = <<>> /\ sent' = w.state
      BY <1>4, <2>4 DEF start_interrupted_tasks
    <2> HIDE DEF b
    <2>10. chain' \in Seq(Batches) /\ sent' \in 0..End /\ sent' <= w.state
      <3>1. <<b>> \in Seq(Batches) /\ <<>> \in Seq(Batches)
        BY <2>8
      <3>2. chain' \in Seq(Batches)
        BY <2>9, <3>1
      <3>3. sent' = w.state - 1 \/ sent' = w.state
        BY <2>9
      <3> QED
        BY <1>0, <2>7, <3>2, <3>3
    <2>11. MachineTyped' /\ ChainTyped'
      BY <1>0, <1>1, <1>2, <2>4, <2>6, <2>7, <2>10 DEF MachineTyped, ChainTyped
    <2>12. ChainInv'
      <3>1. \A k \in DOMAIN chain' : chain'[k] = b
        BY <2>9
      <3> QED
        BY <2>8, <3>1 DEF ChainInv
    <2>13. MachineInv'
      <3>1. \A i \in 1..(m.state - 1) : Action[i] = "execute" => i \in ran
        BY <2>3 DEF RunInv, RowInv
      <3>2. \A i \in 1..(w.state - 1) : Action[i] = "execute" => i \in ran
        BY <2>3, <2>5, <3>1, PassesExecuted
      <3> QED
        BY <1>1, <2>4, <2>6, <3>2 DEF MachineInv, ExecutedBeforePassed
    <2>14. RowInv'
      <3>1. \A i \in 1..(row.saved.state - 1) : Action[i] = "execute" => i \in ran
        BY DEF RunInv, RowInv
      <3>2. w.state = row.saved.state => DOMAIN w.wait_for \subseteq row.saved.wait_for
        BY <2>3, <2>6
      <3>3. crashes' # 0
        BY <1>0, <1>1
      <3> QED
        BY <1>1, <1>4, <2>4, <2>6, <2>7, <3>1, <3>2, <3>3 DEF RowInv
    <2>15. OrderInv'
      <3>1. w.state # 0
        BY <2>7
      <3>2. Ordered(<<>>, w.state, w.state) /\ Ordered(<<b>>, w.state - 1, w.state)
        BY <2>7, <2>8, <3>1, OrderedNew
      <3>3. Ordered(chain', sent', w.state)
        BY <2>9, <3>2
      <3> QED
        BY <2>4, <2>10, <3>3, OrderFollows
    <2> QED
      BY <2>11, <2>12, <2>13, <2>14, <2>15 DEF Core
  <1> QED
    BY <1>2, <1>3, <1>4

-----------------------------------------------------------------------------
(* All steps *)

\* The steps of the machine's own, and of the chain.
Own == \/ execute_command \/ command_fails \/ store_running_task_state \/ handle_command_results \/ Overdue
       \/ delete_running_task \/ start_interrupted_tasks

\* A message that is counted, or a timeout.
LEMMA GoesFact ==
    ASSUME SubsTyped, wi \in Machine, wi.timed_out => wi.late, NEW m \in Machine,
           NEW msg \in SUBSET Messages,
           m.state = wi.state, m.is_error = wi.is_error, m.execution_done = wi.execution_done,
           m.late = wi.late, m.wait_for = wi.wait_for, m.received \subseteq wi.received \cup msg,
           m.timed_out => m.late, wi' = move_to_next_state(m),
           chain' = Append(chain, Batch(resulting_commands(m), msg)),
           UNCHANGED <<registered, row, crashes, ran, sent>>
    PROVE  Goes(m, msg)
  <1>1. PICK w : w = move_to_next_state(m)
    OBVIOUS
  <1>2. Moves(m, w) /\ resulting_commands(m) = Entered(m.state, w.state)
    BY <1>1, MoveFact
  <1>3. w = wi'
    BY <1>1
  <1>4. Moves(m, wi')
    BY <1>2, <1>3
  <1>5. chain' = Append(chain, Batch(Entered(m.state, wi'.state), msg))
    BY <1>2, <1>3
  <1> QED
    BY <1>4, <1>5 DEF Goes

\* A message that the machine takes lets it move on.
LEMMA ReceivedFact ==
    ASSUME RunInv, NEW msg \in SUBSET Messages, NEW m, m = [wi EXCEPT !.received = @ \cup msg],
           wi' = move_to_next_state(m), execute_task_commands(resulting_commands(m), msg),
           UNCHANGED <<registered, row, crashes, ran, sent>>
    PROVE  Goes(m, msg)
  <1>1. SubsTyped /\ wi \in Machine /\ (wi.timed_out => wi.late)
    BY DEF RunInv, Typed, MachineTyped, MachineInv
  <1>2. /\ m \in Machine /\ m.state = wi.state /\ m.is_error = wi.is_error
        /\ m.execution_done = wi.execution_done /\ m.late = wi.late /\ m.wait_for = wi.wait_for
        /\ m.received = wi.received \cup msg /\ m.timed_out = wi.timed_out
    BY <1>1 DEF Machine
  <1>3. chain' = Append(chain, Batch(resulting_commands(m), msg))
    BY DEF execute_task_commands
  <1> QED
    BY <1>1, <1>2, <1>3, GoesFact

\* A message that only takes its place in the chain.
LEMMA IgnoredFact ==
    ASSUME RunInv, NEW msg \in SUBSET Messages, UNCHANGED wi, execute_task_commands(<<>>, msg),
           UNCHANGED <<registered, row, crashes, ran, sent>>
    PROVE  Goes(wi, msg)
  <1>1. /\ wi \in Machine /\ wi.state \in 1..End /\ (wi.timed_out => wi.late)
        /\ wi.state \in Nat /\ wi.state <= End /\ wi.state <= wi.state /\ wi.state \in wi.state..End
    BY StepAssumption DEF RunInv, Typed, MachineTyped, MachineInv, End
  <1>2. \A k \in wi.state..(wi.state - 1) : current_step_done(wi, k)
    BY <1>1
  <1>3. PICK w : w = wi
    OBVIOUS
  <1>4. Moves(w, w)
    BY <1>1, <1>2, <1>3 DEF Moves
  <1>5. Entered(wi.state, wi.state) = <<>>
    BY <1>1, EnteredFact
  <1>6. wi' = wi /\ chain' = Append(chain, Batch(Entered(wi.state, wi.state), msg))
    BY <1>5 DEF execute_task_commands
  <1>7. Moves(wi, wi')
    BY <1>3, <1>4, <1>6
  <1> QED
    BY <1>1, <1>6, <1>7 DEF Goes

\* The messages of a subscriber.
LEMMA MessageFact ==
    ASSUME NEW s \in Subs, NEW i \in 1..N
    PROVE  /\ [kind |-> "done", step |-> i, sub |-> s] \in Messages
           /\ [kind |-> "error", step |-> i, sub |-> s] \in Messages
           /\ [kind |-> "event", step |-> i, sub |-> ""] \in Messages
  BY DEF Messages

\* handle_action_done is ignored or lets the machine move on.
LEMMA DoneKind ==
    ASSUME RunInv, NEW s \in Subs, NEW i \in 1..N, handle_action_done(s, i)
    PROVE  \/ UNCHANGED <<wi, registered, chain, row, crashes, ran, sent>>
           \/ \E m : \E msg \in SUBSET Messages : Goes(m, msg)
  <1> DEFINE done == [kind |-> "done", step |-> i, sub |-> s]
             m    == [wi EXCEPT !.received = @ \cup {done}]
  <1>1. CASE ~registered
    BY <1>1 DEF handle_action_done
  <1>2. CASE registered
    <2>1. /\ wi' = move_to_next_state(m) /\ execute_task_commands(resulting_commands(m), {done})
          /\ UNCHANGED <<registered, row, crashes, ran, sent>>
      BY <1>2 DEF handle_action_done
    <2>2. {done} \in SUBSET Messages
      BY MessageFact
    <2> HIDE DEF done
    <2>3. Goes(m, {done})
      BY <2>1, <2>2, ReceivedFact
    <2> QED
      BY <2>2, <2>3
  <1> QED
    BY <1>1, <1>2

\* handle_action_error is ignored, lets the machine move on, or stops it.
LEMMA ErrorKind ==
    ASSUME RunInv, NEW s \in Subs, NEW i \in 1..N, handle_action_error(s, i)
    PROVE  \/ UNCHANGED <<wi, registered, chain, row, crashes, ran, sent>>
           \/ \E m : \E msg \in SUBSET Messages : Goes(m, msg)
           \/ \E msg \in SUBSET Messages : Stops(msg)
  <1> DEFINE err == [kind |-> "error", step |-> i, sub |-> s]
             m   == [wi EXCEPT !.received = @ \cup {err}]
  <1>0. UNCHANGED <<registered, row, crashes, ran, sent>>
    BY DEF handle_action_error
  <1>1. {err} \in SUBSET Messages
    BY MessageFact
  <1>2. \/ UNCHANGED <<wi, chain>>
        \/ UNCHANGED wi /\ execute_task_commands(<<>>, {err})
        \/ wi' = move_to_next_state(m) /\ execute_task_commands(resulting_commands(m), {err})
        \/ performing /\ wi' = end(wi) /\ execute_task_commands(<<>>, {err})
    BY DEF handle_action_error
  <1> HIDE DEF err
  <1>3. CASE UNCHANGED <<wi, chain>>
    BY <1>0, <1>3
  <1>4. CASE UNCHANGED wi /\ execute_task_commands(<<>>, {err})
    <2>1. Goes(wi, {err})
      BY <1>0, <1>1, <1>4, IgnoredFact
    <2> QED
      BY <1>1, <2>1
  <1>5. CASE wi' = move_to_next_state(m) /\ execute_task_commands(resulting_commands(m), {err})
    <2>1. Goes(m, {err})
      BY <1>0, <1>1, <1>5, ReceivedFact
    <2> QED
      BY <1>1, <2>1
  <1>6. CASE performing /\ wi' = end(wi) /\ execute_task_commands(<<>>, {err})
    <2>1. SubsTyped /\ wi \in Machine /\ wi.state # End
      BY <1>6 DEF RunInv, Typed, MachineTyped, performing, is_active
    <2>2. /\ wi' \in Machine /\ wi'.state = End /\ wi'.is_error = TRUE
          /\ wi'.timed_out = FALSE /\ wi'.execution_done = FALSE /\ wi'.wait_for = Nobody
      BY <1>6, <2>1, EndFact
    <2>3. chain' = Append(chain, Batch(<<>>, {err}))
      BY <1>6 DEF execute_task_commands
    <2>4. Stops({err})
      BY <1>0, <2>1, <2>2, <2>3 DEF Stops
    <2> QED
      BY <1>1, <2>4
  <1> QED
    BY <1>2, <1>3, <1>4, <1>5, <1>6

\* handle_event lets the machine move on.
LEMMA EventKind ==
    ASSUME RunInv, handle_event
    PROVE  \E m : \E msg \in SUBSET Messages : Goes(m, msg)
  <1> DEFINE event == [kind |-> "event", step |-> wi.state, sub |-> ""]
             m     == [wi EXCEPT !.received = @ \cup {event}]
  <1>1. wi.state \in 1..N
    <2>1. wi.state # End
      BY DEF handle_event, is_active
    <2> QED
      BY <2>1, StepAssumption DEF RunInv, Typed, MachineTyped, End
  <1>2. /\ wi' = move_to_next_state(m) /\ execute_task_commands(resulting_commands(m), {event})
        /\ UNCHANGED <<registered, row, crashes, ran, sent>>
    BY DEF handle_event
  <1>3. {event} \in SUBSET Messages
    BY <1>1 DEF Messages
  <1> HIDE DEF event
  <1>4. Goes(m, {event})
    BY <1>2, <1>3, ReceivedFact
  <1> QED
    BY <1>3, <1>4

\* A timeout lets the machine move on or stops it.
LEMMA TimeoutKind ==
    ASSUME RunInv, check_timeout
    PROVE  \/ \E m : \E msg \in SUBSET Messages : Goes(m, msg)
           \/ \E msg \in SUBSET Messages : Stops(msg)
  <1> DEFINE m == [wi EXCEPT !.timed_out = TRUE]
  <1>0. SubsTyped /\ wi \in Machine /\ (wi.timed_out => wi.late) /\ {} \in SUBSET Messages
    BY DEF RunInv, Typed, MachineTyped, MachineInv
  <1>1. wi.late /\ wi.state # End /\ UNCHANGED <<registered, crashes, ran, sent>>
    BY DEF check_timeout, is_active
  <1>2. /\ m \in Machine /\ m.state = wi.state /\ m.is_error = wi.is_error
        /\ m.execution_done = wi.execution_done /\ m.late = wi.late /\ m.wait_for = wi.wait_for
        /\ m.received = wi.received
    BY <1>0 DEF Machine
  <1>3. \/ /\ wi' = move_to_next_state(m) /\ execute_task_commands(resulting_commands(m), {})
           /\ UNCHANGED row
        \/ wi' = end(m) /\ row' = [row EXCEPT !.stored = FALSE] /\ UNCHANGED chain
    BY DEF check_timeout
  <1> HIDE DEF m
  <1>4. CASE /\ wi' = move_to_next_state(m) /\ execute_task_commands(resulting_commands(m), {})
             /\ UNCHANGED row
    <2>1. chain' = Append(chain, Batch(resulting_commands(m), {}))
      BY <1>4 DEF execute_task_commands
    <2>2. m.received \subseteq wi.received \cup {} /\ (m.timed_out => m.late)
      BY <1>1, <1>2
    <2>3. UNCHANGED <<registered, row, crashes, ran, sent>>
      BY <1>1, <1>4
    <2>4. Goes(m, {})
      BY <1>0, <1>2, <1>4, <2>1, <2>2, <2>3, GoesFact
    <2> QED
      BY <1>0, <2>4
  <1>5. CASE wi' = end(m) /\ row' = [row EXCEPT !.stored = FALSE] /\ UNCHANGED chain
    <2>1. /\ wi' \in Machine /\ wi'.state = End /\ wi'.is_error = TRUE
          /\ wi'.timed_out = FALSE /\ wi'.execution_done = FALSE /\ wi'.wait_for = Nobody
      BY <1>0, <1>1, <1>2, <1>5, EndFact
    <2>2. Stops({})
      BY <1>1, <1>5, <2>1 DEF Stops
    <2> QED
      BY <1>0, <2>2
  <1> QED
    BY <1>3, <1>4, <1>5

\* Every step is of one of these kinds.
LEMMA StepKind ==
    ASSUME RunInv, [Next]_vars
    PROVE  \/ UNCHANGED <<wi, registered, chain, row, crashes, ran, sent>>
           \/ \E m : \E msg \in SUBSET Messages : Goes(m, msg)
           \/ \E msg \in SUBSET Messages : Stops(msg)
           \/ Own
  <1>1. CASE UNCHANGED vars
    BY <1>1 DEF vars
  <1>2. CASE Own
    BY <1>2
  <1>3. CASE handle_event
    BY <1>3, EventKind
  <1>4. CASE check_timeout
    BY <1>4, TimeoutKind
  <1>5. ASSUME NEW s \in Subs, handle_subscribed(s) \/ subscribe(s) \/ disconnect(s)
        PROVE  UNCHANGED <<wi, registered, chain, row, crashes, ran, sent>>
    BY <1>5 DEF handle_subscribed, subscribe, disconnect
  <1>6. ASSUME NEW s \in Subs, NEW i \in 1..N, handle_action_done(s, i)
        PROVE  \/ UNCHANGED <<wi, registered, chain, row, crashes, ran, sent>>
               \/ \E m : \E msg \in SUBSET Messages : Goes(m, msg)
    BY <1>6, DoneKind
  <1>7. ASSUME NEW s \in Subs, NEW i \in 1..N, handle_action_error(s, i)
        PROVE  \/ UNCHANGED <<wi, registered, chain, row, crashes, ran, sent>>
               \/ \E m : \E msg \in SUBSET Messages : Goes(m, msg)
               \/ \E msg \in SUBSET Messages : Stops(msg)
    BY <1>7, ErrorKind
  <1>8. ASSUME NEW s \in Subs, NEW i \in 1..N, update_subscriptions(s, i)
        PROVE  UNCHANGED <<wi, registered, chain, row, crashes, ran, sent>>
    BY <1>8 DEF update_subscriptions
  <1> QED
    BY <1>1, <1>2, <1>3, <1>4, <1>5, <1>6, <1>7, <1>8 DEF Next, Own

\* Every step keeps the part of the invariant that is about machine, chain and
\* row.
LEMMA CoreStep ==
    ASSUME RunInv, [Next]_vars
    PROVE  Core'
  <1>1. CASE Own
    BY <1>1, ExecuteStep, FailStep, StoreStep, ResultsStep, OverdueStep, DeleteStep, RestartStep DEF Own
  <1> QED
    BY <1>1, StepKind, IdleStep, GoesStep, StopsStep

\* The subscribers' side keeps its type.
LEMMA SubsStep ==
    ASSUME RunInv, [Next]_vars
    PROVE  SubsTyped'
  <1>0. /\ subscriptions \in [Subs -> SUBSET (1..N)] /\ opening \in [Subs -> SUBSET (1..N)]
        /\ listening \in [Subs -> SUBSET (1..N)] /\ inbox \in [Subs -> SUBSET (1..N)]
        /\ missed \in [Subs -> SUBSET (1..N)]
    BY DEF RunInv, Typed, SubsTyped
  <1>1. CASE UNCHANGED <<env, inbox, missed>>
    BY <1>0, <1>1 DEF SubsTyped, env
  <1>2. CASE execute_command
    <2>1. PICK k : /\ inbox' = [s \in Subs |-> IF k \in 1..N /\ Action[k] = "perform" /\ k \in listening[s]
                                              THEN inbox[s] \cup {k} ELSE inbox[s]]
                   /\ missed' = [s \in Subs |-> missed[s] \cup (opening[s] \cap {k})]
      BY <1>2 DEF execute_command
    <2>2. UNCHANGED env
      BY <1>2 DEF execute_command
    <2> QED
      BY <1>0, <2>1, <2>2 DEF SubsTyped, env
  <1>3. CASE start_interrupted_tasks
    BY <1>0, <1>3 DEF start_interrupted_tasks, SubsTyped
  <1>4. ASSUME NEW s \in Subs, NEW i \in 1..N, handle_action_done(s, i) \/ handle_action_error(s, i)
        PROVE  SubsTyped'
    <2>1. inbox' = [inbox EXCEPT ![s] = @ \ {i}] /\ UNCHANGED <<env, missed>>
      BY <1>4 DEF handle_action_done, handle_action_error, Answer
    <2> QED
      BY <1>0, <2>1 DEF SubsTyped, env
  <1>5. ASSUME NEW s \in Subs, handle_subscribed(s) PROVE SubsTyped'
    <2>1. pending_action_for(s) \subseteq 1..N
      <3>1. performing => wi.state \in 1..N
        BY StepAssumption DEF performing, is_active, RunInv, Typed, MachineTyped, End
      <3> QED
        BY <3>1 DEF pending_action_for
    <2>2. PICK P \in SUBSET (1..N) : inbox' = [inbox EXCEPT ![s] = P]
      BY <1>5, <2>1 DEF handle_subscribed
    <2>3. /\ opening' = [opening EXCEPT ![s] = subscriptions[s]] /\ missed' = [missed EXCEPT ![s] = {}]
          /\ UNCHANGED <<subscriptions, listening>>
      BY <1>5 DEF handle_subscribed
    <2> QED
      BY <1>0, <2>2, <2>3 DEF SubsTyped
  <1>6. ASSUME NEW s \in Subs, subscribe(s) \/ disconnect(s) PROVE SubsTyped'
    BY <1>0, <1>6 DEF subscribe, disconnect, SubsTyped
  <1>7. ASSUME NEW s \in Subs, NEW i \in 1..N, update_subscriptions(s, i) PROVE SubsTyped'
    BY <1>0, <1>7 DEF update_subscriptions, SubsTyped
  <1>8. CASE command_fails \/ store_running_task_state \/ handle_command_results \/ handle_event
             \/ Overdue \/ check_timeout \/ delete_running_task \/ UNCHANGED vars
    <2>1. UNCHANGED <<env, inbox, missed>>
      BY <1>8 DEF command_fails, store_running_task_state, handle_command_results, handle_event, Overdue,
                  check_timeout, delete_running_task, vars, env
    <2> QED
      BY <1>1, <2>1
  <1> QED
    BY <1>2, <1>3, <1>4, <1>5, <1>6, <1>7, <1>8 DEF Next

\* A new run is in order.
LEMMA InitFact ==
    ASSUME Init
    PROVE  RunInv
  <1> DEFINE b == Batch(Entered(0, wi.state), {})
  <1>0. N \in Nat /\ End = N + 1 /\ End \in Nat /\ N # 0
    BY StepAssumption DEF End
  <1>1. SubsTyped
    BY SubscriberAssumption DEF Init, SubsTyped
  <1>2. NewTask \in Machine /\ NewTask.state = 0 /\ NewTask.is_error = FALSE /\ NewTask.received = {}
        /\ NewTask.execution_done = FALSE
    BY <1>0, <1>1, TablesFact DEF NewTask, Machine
  <1>3. PICK w : w = wi
    OBVIOUS
  <1>4. Moves(NewTask, w) /\ resulting_commands(NewTask) = Entered(0, w.state)
    BY <1>1, <1>2, <1>3, MoveFact DEF Init
  <1>5. w.state # 0
    <2>1. current_step_done(NewTask, 0)
      BY DEF current_step_done
    <2>2. ~current_step_done(NewTask, next_state(NewTask))
      BY <1>0, <1>2, NextState
    <2>3. next_state(NewTask) # 0
      BY <2>1, <2>2
    <2>4. w = begin_step(NewTask, next_state(NewTask)) /\ next_state(NewTask) \in 1..End
      <3>1. next_state(NewTask) \in 0..End
        BY <1>0, <1>2, NextState
      <3> QED
        BY <1>0, <1>2, <1>3, <2>3, <3>1 DEF Init, move_to_next_state
    <2>5. w.state = next_state(NewTask)
      BY <1>1, <1>2, <2>4, BeginStep
    <2> QED
      BY <2>3, <2>5
  <1>6. /\ w \in Machine /\ w.state \in 1..End /\ w.is_error = FALSE /\ w.received = {}
        /\ w.timed_out = FALSE /\ w.execution_done = FALSE /\ w.state \in Nat /\ 0 <= w.state
        /\ w.state <= End
    BY <1>0, <1>2, <1>4, <1>5 DEF Moves
  <1>7. b \in Batches /\ b.cmds = Entered(0, w.state) /\ b.ran = {} /\ b.stored = FALSE
    <2>1. Entered(0, w.state) \in Seq(1..End)
      BY <1>6, EnteredFact
    <2>2. PICK e : e = Entered(0, w.state)
      OBVIOUS
    <2>3. b = Batch(e, {}) /\ e \in Seq(1..End) /\ {} \in SUBSET Messages
      BY <1>3, <2>1, <2>2
    <2> HIDE DEF b
    <2>4. b \in Batches /\ b.cmds = e /\ b.ran = {} /\ b.stored = FALSE
      BY <2>3, BatchFact
    <2> QED
      BY <2>2, <2>4
  <1>8. /\ chain = <<b>> /\ registered = TRUE /\ crashes = 0 /\ ran = {} /\ sent = 0
        /\ row = [stored |-> TRUE, saved |-> exported(wi), received |-> {}, since |-> wi.state]
    BY <1>3, <1>4 DEF Init
  <1> HIDE DEF b
  <1>9. chain \in Seq(Batches) /\ DOMAIN chain = {1} /\ chain[1] = b
    BY <1>7, <1>8
  <1>10. exported(wi) \in [state : 1..End, wait_for : SUBSET Subs]
         /\ exported(wi).state = wi.state /\ exported(wi).wait_for = DOMAIN wi.wait_for
    BY <1>3, <1>6 DEF exported, Machine, Tables
  <1>11. row \in Rows /\ row.saved = exported(wi) /\ row.stored = TRUE
    BY <1>3, <1>6, <1>8, <1>10 DEF Rows
  <1>12. Typed
    BY <1>0, <1>1, <1>3, <1>6, <1>8, <1>9, <1>11 DEF Typed, MachineTyped, ChainTyped
  <1>13. ChainInv
    BY <1>7, <1>9 DEF ChainInv
  <1>14. \A i \in 1..(w.state - 1) : Action[i] = "execute" => i \in ran
    <2>1. \A i \in 1..(NewTask.state - 1) : Action[i] = "execute" => i \in ran
      BY <1>2
    <2> QED
      BY <1>2, <1>4, <2>1, PassesExecuted
  <1>15. MachineInv
    BY <1>3, <1>6, <1>14 DEF MachineInv, ExecutedBeforePassed
  <1>16. RowInv
    BY <1>3, <1>6, <1>10, <1>11, <1>14 DEF RowInv
  <1>17. OrderInv
    <2>1. DOMAIN <<>> = {} /\ <<>> \in Seq(Batches) /\ Append(<<>>, b) = <<b>>
      BY <1>7
    <2>2. Ordered(<<>>, 0, 0)
      BY <2>1 DEF Ordered
    <2>3. PICK c : c = <<>>
      OBVIOUS
    <2>4. c \in Seq(Batches) /\ Ordered(c, 0, 0) /\ Append(c, b) = <<b>>
      BY <2>1, <2>2, <2>3
    <2>5. Ordered(Append(c, b), 0, w.state)
      <3>1. PICK z \in Nat : z = 0
        OBVIOUS
      <3>2. Ordered(c, z, z) /\ z <= z /\ z <= w.state /\ b.cmds = Entered(z, w.state)
        BY <1>6, <1>7, <2>4, <3>1
      <3>3. Ordered(Append(c, b), z, w.state)
        BY <1>6, <1>7, <2>4, <3>2, OrderedAppend
      <3> QED
        BY <3>1, <3>3
    <2>6. Ordered(chain, sent, wi.state)
      BY <1>3, <1>8, <2>4, <2>5
    <2> QED
      BY <1>3, <1>6, <1>8, <2>6, InOrderMeans DEF OrderInv
  <1> QED
    BY <1>12, <1>13, <1>15, <1>16, <1>17 DEF RunInv

-----------------------------------------------------------------------------
(* The theorems *)

\* The invariant holds of every behaviour, however answers, errors, events, timeouts, command
\* results, restarts and changes of the subscriptions interleave.
THEOREM RunInvariant == Spec => []RunInv
  <1>1. Init => RunInv
    BY InitFact
  <1>2. RunInv /\ [Next]_vars => RunInv'
    BY CoreStep, SubsStep DEF Core, RunInv, Typed
  <1> QED
    BY <1>1, <1>2, PTL DEF Spec

\* Every variable keeps its type.
THEOREM TypesAreKept == Spec => []TypeOK
  <1>1. RunInv => TypeOK
    <2> SUFFICES ASSUME RunInv PROVE TypeOK
      OBVIOUS
    <2>1. /\ wi.state \in 1..End /\ {wi.is_error, wi.timed_out, wi.execution_done, wi.late} \subseteq BOOLEAN
          /\ DOMAIN wi.wait_for \subseteq Subs /\ wi.received \subseteq Messages
      BY DEF RunInv, Typed, MachineTyped, Machine, Tables
    <2>2. /\ row.received \subseteq Messages /\ row.saved \in [state : 1..End, wait_for : SUBSET Subs]
          /\ registered \in BOOLEAN /\ row.stored \in BOOLEAN
      BY DEF RunInv, Typed, MachineTyped, Rows
    <2>3. \A x \in {subscriptions, opening, listening, inbox, missed} : x \in [Subs -> SUBSET (1..N)]
      BY DEF RunInv, Typed, SubsTyped
    <2>4. ran \subseteq 1..N /\ sent \in 0..End /\ chain \in Seq(Batches)
      BY DEF RunInv, Typed, ChainTyped
    <2>5. ASSUME NEW k \in 1..Len(chain) PROVE Range(chain[k].cmds) \subseteq 1..End
      <3>1. chain[k] \in Batches
        BY <2>4, ElementOfSeq
      <3>2. PICK q \in Seq(1..End) : q = chain[k].cmds
        BY <3>1 DEF Batches
      <3>3. \A j \in DOMAIN q : q[j] \in 1..End
        BY LenProperties, ElementOfSeq
      <3> QED
        BY <3>2, <3>3 DEF Range
    <2> QED
      BY <2>1, <2>2, <2>3, <2>4, <2>5 DEF TypeOK
  <1> QED
    BY <1>1, RunInvariant, PTL

\* The commands of the steps a run enters are issued once each and in order, whatever piles up
\* in the chain of execute_task_commands.
THEOREM CommandsAreIssuedInOrder == Spec => []CommandsInOrder
  <1>1. RunInv => CommandsInOrder
    BY DEF RunInv, OrderInv
  <1> QED
    BY <1>1, RunInvariant, PTL

\* No run gets past an ExecuteCommand step whose command was not executed.
THEOREM CommandsAreExecuted == Spec => []ExecutedBeforePassed
  <1>1. RunInv => ExecutedBeforePassed
    BY DEF RunInv, MachineInv
  <1> QED
    BY <1>1, RunInvariant, PTL

\* The row of running_task_db follows the run: it is never ahead, and nothing is missing from it
\* once the chain is worked off.
THEOREM RowsFollowRuns == Spec => []RowIsCurrent
  <1>1. RunInv => RowIsCurrent
    <2> SUFFICES ASSUME RunInv, registered, is_active(wi)
                 PROVE  /\ row.stored /\ row.saved.state <= wi.state
                        /\ chain = <<>> => wi.received \subseteq row.received
                        /\ chain = <<>> /\ crashes = 0 => row.saved = exported(wi)
      BY DEF RowIsCurrent
    <2>1. chain = <<>> => DOMAIN chain = {}
      OBVIOUS
    <2> QED
      BY <2>1 DEF RunInv, RowInv
  <1> QED
    BY <1>1, RunInvariant, PTL

\* A PerformAction step that a move passes without a timeout has its answers.
LEMMA PassesAnswered ==
    ASSUME NEW m \in Machine, NEW w, Moves(m, w), NEW i \in 1..N, Action[i] = "perform",
           m.state <= i, i < w.state, ~TimedOut(m, i)
    PROVE  DOMAIN WaitFor(m, i) \cap Blocking \subseteq answered(w, i)
  <1>1. i \in m.state..(w.state - 1)
    BY StepAssumption DEF Moves, Machine, End
  <1>2. current_step_done(m, i)
    BY <1>1 DEF Moves
  <1>3. i # 0
    OBVIOUS
  <1>4. PerformActionDone(m, i)
    BY <1>2, <1>3 DEF current_step_done
  <1>5. missing(m, i, WaitFor(m, i)) = {}
    BY <1>4 DEF PerformActionDone
  <1>6. answered(m, i) = answered(w, i)
    BY DEF Moves, answered
  <1> QED
    BY <1>5, <1>6 DEF missing

\* The answers that PassedWithAnswers asks for at the step i.
Complete(i) == {s \in DOMAIN wi.wait_for \cap Blocking : crashes' = crashes \/ i \in subscriptions[s]}
                 \subseteq answered(wi', i)

\* A restart leaves a step only if nobody is left to answer.
LEMMA RestartAnswered ==
    ASSUME RunInv, start_interrupted_tasks, NEW i \in 1..N, wi.state = i, wi'.state > i,
           Action[i] = "perform"
    PROVE  Complete(i)
  <1>0. wi \in Machine /\ wi.state \in Nat /\ crashes \in Nat
    BY DEF RunInv, Typed, MachineTyped, ChainTyped
  <1>1. row.stored
    BY <1>0 DEF start_interrupted_tasks
  <1>2. PICK late \in BOOLEAN : wi' = move_to_next_state(restored(late))
    BY <1>1 DEF start_interrupted_tasks, RestoredLate
  <1>3. PICK m : m = restored(late)
    OBVIOUS
  <1>4. /\ m \in Machine /\ m.state = row.saved.state /\ m.timed_out = FALSE
        /\ m.wait_for = [s \in row.saved.wait_for \cap {x \in Subs : row.saved.state \in subscriptions[x]}
                           |-> subscriptions[s]]
    BY <1>3, RestoredFact
  <1>5. PICK w : w = wi'
    OBVIOUS
  <1>6. Moves(m, w)
    BY <1>2, <1>3, <1>4, <1>5, MoveFact DEF RunInv, Typed
  <1>7. row.saved.state <= i /\ (row.saved.state = i => DOMAIN wi.wait_for \subseteq row.saved.wait_for)
    BY DEF RunInv, RowInv
  <1>8. ~TimedOut(m, i)
    BY <1>4 DEF TimedOut
  <1>9. DOMAIN WaitFor(m, i) \cap Blocking \subseteq answered(w, i)
    BY <1>4, <1>5, <1>6, <1>7, <1>8, PassesAnswered
  <1>10. DOMAIN wi.wait_for \subseteq Subs
    BY <1>0 DEF Machine, Tables
  <1>11. \A s \in DOMAIN wi.wait_for : i \in subscriptions[s] => s \in DOMAIN WaitFor(m, i)
    <2>1. CASE row.saved.state = i
      BY <1>4, <1>7, <1>10, <2>1 DEF WaitFor
    <2>2. CASE row.saved.state # i
      BY <1>4, <1>10, <2>2 DEF WaitFor, subscribers_by_event
    <2> QED
      BY <2>1, <2>2
  <1>12. crashes' # crashes
    BY <1>0 DEF start_interrupted_tasks
  <1> QED
    BY <1>5, <1>9, <1>11, <1>12 DEF Complete

\* The machine leaves a step before its timeout only if all answers are there.
LEMMA MoveAnswered ==
    ASSUME RunInv, NEW m \in Machine, Moves(m, wi'), m.state = wi.state, m.wait_for = wi.wait_for,
           m.timed_out => wi.late, NEW i \in 1..N, wi.state = i, wi'.state > i, ~wi.late,
           Action[i] = "perform"
    PROVE  Complete(i)
  <1>1. PICK w : w = wi'
    OBVIOUS
  <1>2. Moves(m, w) /\ ~TimedOut(m, i) /\ m.state <= i /\ i < w.state
    BY <1>1 DEF TimedOut
  <1>3. DOMAIN WaitFor(m, i) \cap Blocking \subseteq answered(w, i)
    BY <1>2, PassesAnswered
  <1>4. WaitFor(m, i) = wi.wait_for
    BY DEF WaitFor
  <1> QED
    BY <1>1, <1>3, <1>4 DEF Complete

\* The results of commands move the machine without a timeout of their own.
LEMMA ResultsMoves ==
    ASSUME RunInv, handle_command_results
    PROVE  \E m \in Machine : /\ Moves(m, wi') /\ m.state = wi.state /\ m.wait_for = wi.wait_for
                              /\ m.timed_out => wi.late
  <1> DEFINE m == IF wi.state \in Head(chain).ran THEN [wi EXCEPT !.execution_done = TRUE] ELSE wi
  <1>0. wi \in Machine /\ (wi.timed_out => wi.late) /\ SubsTyped
    BY DEF RunInv, Typed, MachineTyped, MachineInv
  <1>1. /\ m \in Machine /\ m.state = wi.state /\ m.wait_for = wi.wait_for /\ m.timed_out = wi.timed_out
    <2>1. CASE wi.state \in Head(chain).ran
      <3>1. m = [wi EXCEPT !.execution_done = TRUE]
        BY <2>1
      <3> QED
        BY <1>0, <3>1 DEF Machine
    <2> QED
      BY <1>0, <2>1
  <1>2. wi' = move_to_next_state(m)
    BY DEF handle_command_results
  <1> HIDE DEF m
  <1>3. Moves(m, wi')
    <2>1. PICK w : w = wi'
      OBVIOUS
    <2>2. Moves(m, w)
      BY <1>0, <1>1, <1>2, <2>1, MoveFact
    <2> QED
      BY <2>1, <2>2
  <1> QED
    BY <1>0, <1>1, <1>3

\* A PerformAction step is passed without a timeout only with the answers it waits for.
THEOREM StepsHaveTheirAnswers == Spec => PassedWithAnswers
  <1>1. ASSUME RunInv, [Next]_vars, NEW i \in 1..N, wi.state = i, wi'.state > i,
               Action[i] = "perform", ~wi.late, ~wi'.is_error
        PROVE  Complete(i)
    <2>0. wi.state \in Nat /\ wi \in Machine
      BY <1>1 DEF RunInv, Typed, MachineTyped
    <2>1. CASE wi'.state = wi.state
      <3>1. wi.state > wi.state
        BY <1>1, <2>1
      <3> QED
        BY <2>0, <3>1
    <2>2. ASSUME NEW m, NEW msg \in SUBSET Messages, Goes(m, msg) PROVE Complete(i)
      <3>1. /\ m \in Machine /\ Moves(m, wi') /\ m.state = wi.state /\ m.wait_for = wi.wait_for
            /\ (m.timed_out => wi.late)
        BY <2>2 DEF Goes
      <3> QED
        BY <1>1, <3>1, MoveAnswered
    <2>3. ASSUME NEW msg \in SUBSET Messages, Stops(msg) PROVE FALSE
      BY <1>1, <2>3 DEF Stops
    <2>4. CASE handle_command_results
      <3>1. PICK m \in Machine : /\ Moves(m, wi') /\ m.state = wi.state /\ m.wait_for = wi.wait_for
                                 /\ m.timed_out => wi.late
        BY <1>1, <2>4, ResultsMoves
      <3> QED
        BY <1>1, <3>1, MoveAnswered
    <2>5. CASE start_interrupted_tasks
      BY <1>1, <2>5, RestartAnswered
    <2>6. CASE \/ execute_command \/ command_fails \/ store_running_task_state
               \/ delete_running_task \/ Overdue
      <3>1. wi' = wi \/ wi' = [wi EXCEPT !.late = TRUE]
        BY <2>6 DEF execute_command, command_fails, store_running_task_state, delete_running_task, Overdue
      <3>2. wi'.state = wi.state
        BY <2>0, <3>1 DEF Machine
      <3> QED
        BY <2>1, <3>2
    <2> QED
      BY <1>1, <2>1, <2>2, <2>3, <2>4, <2>5, <2>6, StepKind DEF Own
  <1>2. RunInv /\ [Next]_vars =>
          [\A i \in 1..N :
             wi.state = i /\ wi'.state > i /\ Action[i] = "perform" /\ ~wi.late /\ ~wi'.is_error
               => {s \in DOMAIN wi.wait_for \cap Blocking :
                     crashes' = crashes \/ i \in subscriptions[s]} \subseteq answered(wi', i)]_vars
    BY <1>1 DEF Complete
  <1> QED
    BY <1>2, RunInvariant, PTL DEF Spec, PassedWithAnswers

-----------------------------------------------------------------------------
(* The subscribers, as long as the subscriptions stay *)

\* A subscriber is connected or about to be, with all it has subscribed to.
ConnInv == /\ subscriptions = Offered
           /\ \A s \in Subs : /\ opening[s] = {} \/ opening[s] = Offered[s]
                              /\ listening[s] = {} \/ listening[s] = Offered[s]
                              /\ opening[s] = {} \/ listening[s] = {}

\* A run waits for subscribers of the current step.
WaitInv == \A s \in DOMAIN wi.wait_for : /\ s \in Subs /\ wi.wait_for[s] = Offered[s]
                                         /\ wi.state \in Offered[s]

\* ActionsReachSubscribers, where a subscriber that is opening its connection counts as connected.
Reached(s) == \/ wi.state \in inbox[s] \cup missed[s] \/ sent < wi.state
              \/ listening[s] = {} /\ opening[s] = {}
ReachInv == registered /\ performing =>
              \A s \in DOMAIN wi.wait_for : s \in answered(wi, wi.state) \/ Reached(s)

LinkInv == RunInv /\ ConnInv /\ WaitInv /\ ReachInv

\* Every step keeps what is said of subscriptions and connections.
LEMMA ConnStep ==
    ASSUME RunInv, ConnInv, [Next]_vars, "resubscribe" \notin Faults
    PROVE  ConnInv'
  <1>0. /\ subscriptions \in [Subs -> SUBSET (1..N)] /\ opening \in [Subs -> SUBSET (1..N)]
        /\ listening \in [Subs -> SUBSET (1..N)]
    BY DEF RunInv, Typed, SubsTyped
  <1>1. CASE UNCHANGED env
    BY <1>1 DEF ConnInv, env
  <1>2. CASE start_interrupted_tasks
    BY <1>2 DEF start_interrupted_tasks, ConnInv
  <1>3. ASSUME NEW s \in Subs, handle_subscribed(s) PROVE ConnInv'
    BY <1>0, <1>3 DEF handle_subscribed, ConnInv
  <1>4. ASSUME NEW s \in Subs, subscribe(s) PROVE ConnInv'
    BY <1>0, <1>4 DEF subscribe, ConnInv
  <1>5. ASSUME NEW s \in Subs, disconnect(s) PROVE ConnInv'
    BY <1>0, <1>5 DEF disconnect, ConnInv
  <1>6. ASSUME NEW s \in Subs, NEW i \in 1..N, update_subscriptions(s, i) PROVE FALSE
    BY <1>6 DEF update_subscriptions
  <1>7. CASE \/ execute_command \/ command_fails \/ store_running_task_state
             \/ handle_command_results \/ handle_event \/ Overdue \/ check_timeout \/ delete_running_task \/ UNCHANGED vars
    <2>1. UNCHANGED env
      BY <1>7 DEF execute_command, command_fails, store_running_task_state,
                  handle_command_results, handle_event, Overdue, check_timeout, delete_running_task, vars, env
    <2> QED
      BY <1>1, <2>1
  <1>8. ASSUME NEW s \in Subs, NEW i \in 1..N, handle_action_done(s, i) \/ handle_action_error(s, i)
        PROVE  ConnInv'
    <2>1. UNCHANGED env
      BY <1>8 DEF handle_action_done, handle_action_error
    <2> QED
      BY <1>1, <2>1
  <1> QED
    BY <1>2, <1>3, <1>4, <1>5, <1>6, <1>7, <1>8 DEF Next

\* The state that a move enters waits for its subscribers.
LEMMA MoveWaits ==
    ASSUME SubsTyped, ConnInv, NEW m, NEW w, Moves(m, w),
           \A s \in DOMAIN m.wait_for : /\ s \in Subs /\ m.wait_for[s] = Offered[s]
                                        /\ m.state \in Offered[s]
    PROVE  \A s \in DOMAIN w.wait_for : /\ s \in Subs /\ w.wait_for[s] = Offered[s]
                                        /\ w.state \in Offered[s]
  <1>1. CASE w.state = m.state
    BY <1>1 DEF Moves
  <1>2. CASE w.state # m.state
    <2>1. w.wait_for = subscribers_by_event(w.state) \/ w.wait_for = Nobody
      BY <1>2 DEF Moves
    <2>2. DOMAIN Nobody = {}
      BY DEF Nobody
    <2>3. \A s \in DOMAIN subscribers_by_event(w.state) :
            /\ s \in Subs /\ subscribers_by_event(w.state)[s] = Offered[s] /\ w.state \in Offered[s]
      BY DEF subscribers_by_event, ConnInv
    <2> QED
      BY <2>1, <2>2, <2>3
  <1> QED
    BY <1>1, <1>2

\* Every step keeps what is said of those a step waits for.
LEMMA WaitStep ==
    ASSUME RunInv, ConnInv, WaitInv, [Next]_vars
    PROVE  WaitInv'
  <1>0. wi \in Machine /\ SubsTyped
    BY DEF RunInv, Typed, MachineTyped
  <1>1. ASSUME NEW m, Moves(m, wi'), m.state = wi.state, m.wait_for = wi.wait_for
        PROVE  WaitInv'
    <2>1. PICK w : w = wi'
      OBVIOUS
    <2>2. Moves(m, w)
      BY <1>1, <2>1
    <2>3. \A s \in DOMAIN m.wait_for : /\ s \in Subs /\ m.wait_for[s] = Offered[s]
                                       /\ m.state \in Offered[s]
      BY <1>1 DEF WaitInv
    <2>4. \A s \in DOMAIN w.wait_for : /\ s \in Subs /\ w.wait_for[s] = Offered[s]
                                       /\ w.state \in Offered[s]
      BY <1>0, <2>2, <2>3, MoveWaits
    <2> QED
      BY <2>1, <2>4 DEF WaitInv
  <1>2. CASE wi' = wi
    BY <1>2 DEF WaitInv
  <1>3. ASSUME NEW m, NEW msg \in SUBSET Messages, Goes(m, msg) PROVE WaitInv'
    <2>1. Moves(m, wi') /\ m.state = wi.state /\ m.wait_for = wi.wait_for
      BY <1>3 DEF Goes
    <2> QED
      BY <1>1, <2>1
  <1>4. ASSUME NEW msg \in SUBSET Messages, Stops(msg) PROVE WaitInv'
    BY <1>4 DEF Stops, Nobody, WaitInv
  <1>5. CASE handle_command_results
    BY <1>1, <1>5, ResultsMoves
  <1>6. CASE start_interrupted_tasks
    <2>1. CASE ~row.stored
      BY <1>2, <1>6, <2>1 DEF start_interrupted_tasks
    <2>2. CASE row.stored
      <3>1. PICK late \in BOOLEAN : wi' = move_to_next_state(restored(late))
        BY <1>6, <2>2 DEF start_interrupted_tasks, RestoredLate
      <3>2. PICK m : m = restored(late)
        OBVIOUS
      <3>3. /\ m \in Machine /\ m.state = row.saved.state
            /\ m.wait_for = [s \in row.saved.wait_for \cap {x \in Subs : row.saved.state \in subscriptions[x]}
                               |-> subscriptions[s]]
        BY <3>2, RestoredFact
      <3>4. \A s \in DOMAIN m.wait_for : /\ s \in Subs /\ m.wait_for[s] = Offered[s]
                                         /\ m.state \in Offered[s]
        BY <3>3 DEF ConnInv
      <3>5. PICK w : w = wi'
        OBVIOUS
      <3>6. Moves(m, w)
        BY <1>0, <3>1, <3>2, <3>3, <3>5, MoveFact
      <3>7. \A s \in DOMAIN w.wait_for : /\ s \in Subs /\ w.wait_for[s] = Offered[s]
                                         /\ w.state \in Offered[s]
        BY <1>0, <3>4, <3>6, MoveWaits
      <3> QED
        BY <3>5, <3>7 DEF WaitInv
    <2> QED
      BY <2>1, <2>2
  <1>7. CASE execute_command \/ command_fails \/ store_running_task_state \/ delete_running_task
    BY <1>2, <1>7 DEF execute_command, command_fails, store_running_task_state, delete_running_task
  <1>8. CASE Overdue
    <2>1. wi' = [wi EXCEPT !.late = TRUE]
      BY <1>8 DEF Overdue
    <2>2. wi'.wait_for = wi.wait_for /\ wi'.state = wi.state
      BY <1>0, <2>1 DEF Machine
    <2> QED
      BY <2>2 DEF WaitInv
  <1> QED
    BY <1>2, <1>3, <1>4, <1>5, <1>6, <1>7, <1>8, StepKind DEF Own

\* The run moves on from m, which has received no less, and the connections stay.
Onward(m) == /\ m \in Machine /\ Moves(m, wi') /\ m.state = wi.state /\ m.wait_for = wi.wait_for
             /\ wi.received \subseteq m.received
             /\ UNCHANGED <<registered, sent, opening, listening, missed>>

\* Entering a step, its action is still to be sent; staying, only an answer takes it away.
LEMMA OnwardReach ==
    ASSUME LinkInv, NEW m, Onward(m),
           \A s \in Subs : wi.state \in inbox[s] => wi.state \in inbox'[s] \/ s \in answered(m, wi.state)
    PROVE  ReachInv'
  <1>0. /\ End \in Nat /\ wi.state \in Nat /\ wi.state <= End /\ sent \in Nat
        /\ (wi.is_error => wi.state = End)
    BY StepAssumption DEF LinkInv, RunInv, Typed, MachineTyped, ChainTyped, MachineInv, End
  <1>1. PICK w : w = wi'
    OBVIOUS
  <1>2. /\ Moves(m, w) /\ m.state = wi.state /\ m.wait_for = wi.wait_for
        /\ wi.received \subseteq m.received /\ registered' = registered /\ sent' = sent
        /\ opening' = opening /\ listening' = listening /\ missed' = missed
    BY <1>1 DEF Onward
  <1>3. w.state \in wi.state..End /\ (w.state = wi.state => w = m)
    BY <1>2 DEF Moves
  <1> SUFFICES ASSUME registered, w.state # End, Action[w.state] = "perform",
                      NEW s \in DOMAIN w.wait_for, s \notin answered(w, w.state)
               PROVE  \/ w.state \in inbox'[s] \cup missed[s] \/ sent < w.state
                      \/ listening[s] = {} /\ opening[s] = {}
    BY <1>1, <1>2 DEF ReachInv, Reached, performing, is_active
  <1>4. CASE w.state # wi.state
    <2>1. wi.state # End
      BY <1>0, <1>3
    <2>2. sent <= wi.state
      BY <1>0, <2>1 DEF LinkInv, RunInv, OrderInv
    <2> QED
      BY <1>0, <1>3, <1>4, <2>2
  <1>5. CASE w.state = wi.state
    <2>1. w = m /\ s \in DOMAIN wi.wait_for /\ s \notin answered(m, wi.state) /\ s \in Subs
      BY <1>2, <1>3, <1>5 DEF LinkInv, WaitInv
    <2>2. s \notin answered(wi, wi.state)
      BY <1>2, <2>1 DEF answered
    <2>3. Reached(s)
      BY <1>5, <2>1, <2>2 DEF LinkInv, ReachInv, performing, is_active
    <2> QED
      BY <1>5, <2>1, <2>3 DEF Reached
  <1> QED
    BY <1>4, <1>5

\* What a message adds to a run that moves on.
LEMMA OnwardFact ==
    ASSUME RunInv, NEW msg \in SUBSET Messages, NEW m, m = [wi EXCEPT !.received = @ \cup msg],
           wi' = move_to_next_state(m), UNCHANGED <<registered, sent, opening, listening, missed>>
    PROVE  Onward(m) /\ msg \subseteq m.received
  <1>1. SubsTyped /\ wi \in Machine
    BY DEF RunInv, Typed, MachineTyped
  <1>2. /\ m \in Machine /\ m.state = wi.state /\ m.wait_for = wi.wait_for
        /\ m.received = wi.received \cup msg
    BY <1>1 DEF Machine
  <1>3. PICK w : w = wi'
    OBVIOUS
  <1>4. Moves(m, w)
    BY <1>1, <1>2, <1>3, MoveFact
  <1> QED
    BY <1>2, <1>3, <1>4 DEF Onward

\* The next command is that of the step after the last one issued.
LEMMA ExecuteNext ==
    ASSUME RunInv, execute_command, registered, ~wi.is_error
    PROVE  sent' = sent + 1 /\ sent + 1 <= wi.state /\ sent' = Head(Head(chain).cmds)
  <1>0. chain \in Seq(Batches) /\ chain # <<>>
    BY DEF RunInv, Typed, ChainTyped, execute_command
  <1>1. Head(chain) = chain[1] /\ DOMAIN chain = 1..Len(chain) /\ 1 \in DOMAIN chain
    <2>1. DOMAIN chain = 1..Len(chain) /\ Len(chain) \in Nat /\ Len(chain) # 0 /\ Head(chain) = chain[1]
      BY <1>0
    <2> QED
      BY <2>1
  <1>2. chain[1].cmds # <<>> /\ sent' = Head(chain[1].cmds)
    BY <1>1 DEF execute_command
  <1>3. PICK d : d = [k \in DOMAIN chain |-> IF k = 1 THEN [cmds |-> Tail(chain[1].cmds)] ELSE chain[k]]
    OBVIOUS
  <1>4. /\ DOMAIN d = DOMAIN chain /\ d[1].cmds = Tail(chain[1].cmds)
        /\ \A k \in DOMAIN chain : k # 1 => d[k].cmds = chain[k].cmds
    BY <1>1, <1>3
  <1>5. sent \in Nat /\ wi.state \in Nat /\ Ordered(chain, sent, wi.state)
    BY InOrderMeans DEF RunInv, Typed, ChainTyped, MachineTyped, OrderInv
  <1>6. Head(chain[1].cmds) = sent + 1 /\ sent + 1 <= wi.state
    BY <1>0, <1>2, <1>4, <1>5, OrderedHead
  <1> QED
    BY <1>1, <1>2, <1>6

\* An action that is sent reaches those who listen; the others find it when they
\* connect.
LEMMA ExecuteReach ==
    ASSUME LinkInv, execute_command
    PROVE  ReachInv'
  <1>0. wi' = wi /\ registered' = registered /\ opening' = opening /\ listening' = listening
    BY DEF execute_command, env
  <1> SUFFICES ASSUME registered, wi.state # End, Action[wi.state] = "perform",
                      NEW s \in DOMAIN wi.wait_for
               PROVE  \/ wi.state \in inbox'[s] \cup missed'[s] \/ sent' < wi.state
                      \/ listening[s] = {} /\ opening[s] = {}
    BY <1>0 DEF ReachInv, Reached, performing, is_active
  <1>1. ~wi.is_error
    BY DEF LinkInv, RunInv, MachineInv
  <1>2. sent' = sent + 1 /\ sent + 1 <= wi.state /\ sent' = Head(Head(chain).cmds)
    BY <1>1, ExecuteNext DEF LinkInv
  <1>3. wi.state \in 1..N /\ sent \in Nat
    BY StepAssumption DEF LinkInv, RunInv, Typed, MachineTyped, ChainTyped, End
  <1>4. s \in Subs /\ wi.state \in Offered[s]
    BY DEF LinkInv, WaitInv
  <1>5. CASE sent' = wi.state
    <2>1. /\ inbox'[s] = IF sent' \in 1..N /\ Action[sent'] = "perform" /\ sent' \in listening[s]
                         THEN inbox[s] \cup {sent'} ELSE inbox[s]
          /\ missed'[s] = missed[s] \cup (opening[s] \cap {sent'})
      BY <1>2, <1>4 DEF execute_command
    <2>2. CASE listening[s] = Offered[s]
      BY <1>3, <1>4, <1>5, <2>1, <2>2
    <2>3. CASE opening[s] = Offered[s]
      BY <1>4, <1>5, <2>1, <2>3
    <2>4. \/ listening[s] = Offered[s] \/ opening[s] = Offered[s]
          \/ listening[s] = {} /\ opening[s] = {}
      BY <1>4 DEF LinkInv, ConnInv
    <2> QED
      BY <2>2, <2>3, <2>4
  <1>6. CASE sent' # wi.state
    BY <1>2, <1>3, <1>6
  <1> QED
    BY <1>5, <1>6

\* An answer takes a subscriber off the list, or moves the machine on.
LEMMA DoneReach ==
    ASSUME LinkInv, NEW s \in Subs, NEW i \in 1..N, handle_action_done(s, i)
    PROVE  ReachInv'
  <1> DEFINE done == [kind |-> "done", step |-> i, sub |-> s]
             m    == [wi EXCEPT !.received = @ \cup {done}]
  <1>0. /\ inbox' = [inbox EXCEPT ![s] = @ \ {i}] /\ inbox \in [Subs -> SUBSET (1..N)]
        /\ UNCHANGED <<registered, sent, opening, listening, missed>>
    BY DEF handle_action_done, Answer, env, LinkInv, RunInv, Typed, SubsTyped
  <1>1. CASE ~registered
    BY <1>0, <1>1 DEF ReachInv
  <1>2. CASE registered
    <2>1. wi' = move_to_next_state(m)
      BY <1>2 DEF handle_action_done
    <2>2. {done} \in SUBSET Messages
      BY MessageFact
    <2>3. done.kind # "event" /\ done.step = i /\ done.sub = s
      OBVIOUS
    <2> HIDE DEF done
    <2>4. Onward(m) /\ done \in m.received
      BY <1>0, <2>1, <2>2, OnwardFact DEF LinkInv
    <2> HIDE DEF m
    <2>5. s \in answered(m, i)
      BY <2>3, <2>4 DEF answered
    <2>6. \A x \in Subs : wi.state \in inbox[x] => wi.state \in inbox'[x] \/ x \in answered(m, wi.state)
      BY <1>0, <2>5
    <2> QED
      BY <2>4, <2>6, OnwardReach
  <1> QED
    BY <1>1, <1>2

\* So does an error.
LEMMA ErrorReach ==
    ASSUME LinkInv, NEW s \in Subs, NEW i \in 1..N, handle_action_error(s, i)
    PROVE  ReachInv'
  <1> DEFINE err == [kind |-> "error", step |-> i, sub |-> s]
             m   == [wi EXCEPT !.received = @ \cup {err}]
  <1>0. /\ inbox' = [inbox EXCEPT ![s] = @ \ {i}] /\ inbox \in [Subs -> SUBSET (1..N)]
        /\ UNCHANGED <<registered, sent, opening, listening, missed>>
    BY DEF handle_action_error, Answer, env, LinkInv, RunInv, Typed, SubsTyped
  <1>1. CASE ~registered
    BY <1>0, <1>1 DEF ReachInv
  <1>2. CASE ~performing /\ UNCHANGED wi
    BY <1>2 DEF ReachInv, performing, is_active
  <1>3. CASE wi' = move_to_next_state(m)
    <2>2. {err} \in SUBSET Messages
      BY MessageFact
    <2>3. err.kind # "event" /\ err.step = i /\ err.sub = s
      OBVIOUS
    <2> HIDE DEF err
    <2>4. Onward(m) /\ err \in m.received
      BY <1>0, <1>3, <2>2, OnwardFact DEF LinkInv
    <2> HIDE DEF m
    <2>5. s \in answered(m, i)
      BY <2>3, <2>4 DEF answered
    <2>6. \A x \in Subs : wi.state \in inbox[x] => wi.state \in inbox'[x] \/ x \in answered(m, wi.state)
      BY <1>0, <2>5
    <2> QED
      BY <2>4, <2>6, OnwardReach
  <1>4. CASE performing /\ wi' = end(wi)
    <2>1. SubsTyped /\ wi \in Machine /\ wi.state # End
      BY <1>4 DEF LinkInv, RunInv, Typed, MachineTyped, performing, is_active
    <2>2. wi'.state = End
      BY <1>4, <2>1, EndFact
    <2> QED
      BY <2>2 DEF ReachInv, performing, is_active
  <1>5. \/ ~registered
        \/ ~performing /\ UNCHANGED wi
        \/ wi' = move_to_next_state(m)
        \/ performing /\ wi' = end(wi)
    BY DEF handle_action_error
  <1> QED
    BY <1>1, <1>2, <1>3, <1>4, <1>5

\* The moves without an answer.
LEMMA OthersReach ==
    ASSUME LinkInv, handle_event \/ handle_command_results \/ check_timeout
    PROVE  ReachInv'
  <1>0. SubsTyped /\ wi \in Machine /\ RunInv
    BY DEF LinkInv, RunInv, Typed, MachineTyped
  <1>1. UNCHANGED <<registered, sent, opening, listening, missed, inbox>>
    BY DEF handle_event, handle_command_results, check_timeout, env
  <1>2. ASSUME NEW m \in Machine, m.state = wi.state, m.wait_for = wi.wait_for,
               m.received = wi.received, wi' = move_to_next_state(m)
        PROVE  ReachInv'
    <2>1. PICK w : w = wi'
      OBVIOUS
    <2>2. Moves(m, w)
      BY <1>0, <1>2, <2>1, MoveFact
    <2>3. Onward(m)
      BY <1>1, <1>2, <2>1, <2>2 DEF Onward
    <2> QED
      BY <1>1, <2>3, OnwardReach
  <1>3. CASE handle_event
    <2> DEFINE event == [kind |-> "event", step |-> wi.state, sub |-> ""]
               m     == [wi EXCEPT !.received = @ \cup {event}]
    <2>1. wi.state # End
      BY <1>3 DEF handle_event, is_active
    <2>2. wi.state \in 1..N
      BY <1>0, <2>1, StepAssumption DEF RunInv, Typed, MachineTyped, End
    <2>3. {event} \in SUBSET Messages
      BY <2>2 DEF Messages
    <2>4. wi' = move_to_next_state(m)
      BY <1>3 DEF handle_event
    <2> HIDE DEF event
    <2>5. Onward(m)
      BY <1>0, <1>1, <2>3, <2>4, OnwardFact
    <2> QED
      BY <1>1, <2>5, OnwardReach
  <1>4. CASE handle_command_results
    <2>1. CASE wi.state \in Head(chain).ran
      <3>1. PICK m : m = [wi EXCEPT !.execution_done = TRUE]
        OBVIOUS
      <3>2. /\ m \in Machine /\ m.state = wi.state /\ m.wait_for = wi.wait_for
            /\ m.received = wi.received
        BY <1>0, <3>1 DEF Machine
      <3>3. wi' = move_to_next_state(m)
        BY <1>4, <2>1, <3>1 DEF handle_command_results
      <3> QED
        BY <1>2, <3>2, <3>3
    <2>2. CASE wi.state \notin Head(chain).ran
      <3>1. wi' = move_to_next_state(wi)
        BY <1>4, <2>2 DEF handle_command_results
      <3> QED
        BY <1>0, <1>2, <3>1
    <2> QED
      BY <2>1, <2>2
  <1>5. CASE check_timeout
    <2>1. PICK m : m = [wi EXCEPT !.timed_out = TRUE]
      OBVIOUS
    <2>2. /\ m \in Machine /\ m.state = wi.state /\ m.wait_for = wi.wait_for
          /\ m.received = wi.received
      BY <1>0, <2>1 DEF Machine
    <2>3. wi.state # End /\ (wi' = move_to_next_state(m) \/ wi' = end(m))
      BY <1>5, <2>1 DEF check_timeout, is_active
    <2>4. CASE wi' = move_to_next_state(m)
      BY <1>2, <2>2, <2>4
    <2>5. CASE wi' = end(m)
      <3>1. wi'.state = End
        BY <1>0, <2>2, <2>3, <2>5, EndFact
      <3> QED
        BY <3>1 DEF ReachInv, performing, is_active
    <2> QED
      BY <2>3, <2>4, <2>5
  <1> QED
    BY <1>3, <1>4, <1>5

\* The connections: what is pending is sent when one is opened.
LEMMA ConnectionsReach ==
    ASSUME LinkInv, NEW s \in Subs, handle_subscribed(s) \/ subscribe(s) \/ disconnect(s)
    PROVE  ReachInv'
  <1>0. /\ opening \in [Subs -> SUBSET (1..N)] /\ listening \in [Subs -> SUBSET (1..N)]
        /\ inbox \in [Subs -> SUBSET (1..N)] /\ missed \in [Subs -> SUBSET (1..N)]
        /\ subscriptions = Offered
    BY DEF LinkInv, RunInv, Typed, SubsTyped, ConnInv
  <1>1. wi' = wi /\ registered' = registered /\ sent' = sent
    BY DEF handle_subscribed, subscribe, disconnect
  <1> SUFFICES ASSUME registered, performing, NEW x \in DOMAIN wi.wait_for,
                      x \notin answered(wi, wi.state)
               PROVE  \/ wi.state \in inbox'[x] \cup missed'[x] \/ sent < wi.state
                      \/ listening'[x] = {} /\ opening'[x] = {}
    BY <1>1 DEF ReachInv, Reached, performing, is_active
  <1>2. /\ x \in Subs /\ wi.wait_for[x] = Offered[x]
        /\ \/ wi.state \in inbox[x] \cup missed[x] \/ sent < wi.state
           \/ listening[x] = {} /\ opening[x] = {}
    BY DEF LinkInv, WaitInv, ReachInv, Reached
  <1>3. CASE handle_subscribed(s)
    <2>1. CASE x = s
      <3>1. pending_action_for(s) = {wi.state}
        BY <1>0, <1>2, <2>1 DEF pending_action_for
      <3>2. inbox'[s] = {wi.state}
        BY <1>0, <1>3, <3>1 DEF handle_subscribed
      <3> QED
        BY <2>1, <3>2
    <2>2. CASE x # s
      <3>1. inbox'[x] = inbox[x] /\ missed'[x] = missed[x] /\ opening'[x] = opening[x]
            /\ listening'[x] = listening[x]
        BY <1>0, <1>2, <1>3, <2>2 DEF handle_subscribed
      <3> QED
        BY <1>2, <3>1
    <2> QED
      BY <2>1, <2>2
  <1>4. CASE subscribe(s)
    <2>1. inbox'[x] = inbox[x] /\ missed'[x] = missed[x] /\ opening[s] # {}
      BY <1>4 DEF subscribe
    <2>2. x # s => opening'[x] = opening[x] /\ listening'[x] = listening[x]
      BY <1>0, <1>2, <1>4 DEF subscribe
    <2> QED
      BY <1>2, <2>1, <2>2
  <1>5. CASE disconnect(s)
    <2>1. x # s => /\ inbox'[x] = inbox[x] /\ missed'[x] = missed[x] /\ opening'[x] = opening[x]
                   /\ listening'[x] = listening[x]
      BY <1>0, <1>2, <1>5 DEF disconnect
    <2>2. listening'[s] = {} /\ opening'[s] = {}
      BY <1>0, <1>5 DEF disconnect, LinkInv, ConnInv
    <2> QED
      BY <1>2, <2>1, <2>2
  <1> QED
    BY <1>3, <1>4, <1>5

\* The other steps.
LEMMA StillReach ==
    ASSUME LinkInv, \/ command_fails \/ store_running_task_state \/ Overdue \/ delete_running_task
                    \/ start_interrupted_tasks \/ UNCHANGED vars
    PROVE  ReachInv'
  <1>1. CASE command_fails \/ store_running_task_state \/ UNCHANGED vars
    <2>1. UNCHANGED <<wi, registered, sent, opening, listening, missed, inbox>>
      BY <1>1 DEF command_fails, store_running_task_state, vars, env
    <2> QED
      BY <2>1 DEF LinkInv, ReachInv, Reached, performing, is_active
  <1>2. CASE Overdue
    <2>1. /\ wi' = [wi EXCEPT !.late = TRUE] /\ wi \in Machine
          /\ UNCHANGED <<registered, sent, opening, listening, missed, inbox>>
      BY <1>2 DEF Overdue, env, LinkInv, RunInv, Typed, MachineTyped
    <2>2. wi'.state = wi.state /\ wi'.wait_for = wi.wait_for /\ wi'.received = wi.received
      BY <2>1 DEF Machine
    <2>3. answered(wi', wi.state) = answered(wi, wi.state)
      BY <2>2 DEF answered
    <2> QED
      BY <2>1, <2>2, <2>3 DEF LinkInv, ReachInv, Reached, performing, is_active
  <1>3. CASE delete_running_task
    BY <1>3 DEF delete_running_task, ReachInv
  <1>4. CASE start_interrupted_tasks
    <2>1. opening' = [s \in Subs |-> {}] /\ listening' = [s \in Subs |-> {}]
      BY <1>4 DEF start_interrupted_tasks
    <2>2. WaitInv'
      BY <1>4, WaitStep DEF LinkInv, Next
    <2> QED
      BY <2>1, <2>2 DEF ReachInv, Reached, WaitInv
  <1> QED
    BY <1>1, <1>2, <1>3, <1>4

\* As long as no subscription changes, every answer that a run waits for is under way: no
\* connection, disconnection, timeout or restart lets an action get lost, except one that is
\* issued while a connection is being opened.
THEOREM ActionsAreDelivered ==
    ASSUME "resubscribe" \notin Faults
    PROVE  Spec => []ActionsReachSubscribers
  <1>1. Init => LinkInv
    <2> SUFFICES ASSUME Init PROVE LinkInv
      OBVIOUS
    <2>1. RunInv /\ SubsTyped
      BY InitFact DEF RunInv, Typed
    <2>2. ConnInv
      BY SubscriberAssumption DEF Init, ConnInv
    <2>3. NewTask \in Machine /\ DOMAIN NewTask.wait_for = {}
      BY <2>1, StepAssumption, TablesFact DEF NewTask, Machine, End, Nobody
    <2>4. PICK w : w = wi
      OBVIOUS
    <2>5. Moves(NewTask, w)
      BY <2>1, <2>3, <2>4, MoveFact DEF Init
    <2>6. WaitInv
      <3>1. PICK m : m = NewTask
        OBVIOUS
      <3>2. Moves(m, w) /\ DOMAIN m.wait_for = {}
        BY <2>3, <2>5, <3>1
      <3> QED
        BY <2>1, <2>2, <2>4, <3>2, MoveWaits DEF WaitInv
    <2>7. ReachInv
      <3>1. sent = 0 /\ wi.state \in 1..End
        BY <2>1 DEF Init, RunInv, Typed, MachineTyped
      <3>2. sent < wi.state
        BY <3>1
      <3> QED
        BY <3>2 DEF ReachInv, Reached
    <2> QED
      BY <2>1, <2>2, <2>6, <2>7 DEF LinkInv
  <1>2. LinkInv /\ [Next]_vars => LinkInv'
    <2> SUFFICES ASSUME LinkInv, [Next]_vars PROVE LinkInv'
      OBVIOUS
    <2>1. RunInv'
      BY CoreStep, SubsStep DEF LinkInv, Core, RunInv, Typed
    <2>2. ConnInv' /\ WaitInv'
      BY ConnStep, WaitStep DEF LinkInv
    <2>3. ASSUME NEW s \in Subs, NEW i \in 1..N, update_subscriptions(s, i) PROVE FALSE
      BY <2>3 DEF update_subscriptions
    <2>4. ReachInv'
      BY <2>3, ExecuteReach, OthersReach, StillReach, DoneReach, ErrorReach, ConnectionsReach DEF Next
    <2> QED
      BY <2>1, <2>2, <2>4 DEF LinkInv
  <1>3. LinkInv => ActionsReachSubscribers
    BY DEF LinkInv, ReachInv, Reached, ActionsReachSubscribers, missing
  <1> QED
    BY <1>1, <1>2, <1>3, PTL DEF Spec

-----------------------------------------------------------------------------
(* The run as its caller sees it: the refinement of WorkflowRun *)

\* A run that was removed from the memory is over, and neither chain nor row is left of it.
GoneInv == ~registered => wi.state = End /\ row.stored = FALSE /\ chain = <<>>

\* Only a run that is over is removed, and nothing happens to it afterwards.
LEMMA GoneStep ==
    ASSUME RunInv, GoneInv, [Next]_vars
    PROVE  GoneInv'
  <1> SUFFICES ASSUME ~registered' PROVE wi'.state = End /\ row'.stored = FALSE /\ chain' = <<>>
    BY DEF GoneInv
  <1>0. row \in Rows /\ registered \in BOOLEAN
    BY DEF RunInv, Typed, MachineTyped
  <1>1. CASE registered
    <2>1. delete_running_task \/ start_interrupted_tasks
      BY <1>1 DEF Next, vars, execute_command, command_fails, store_running_task_state, handle_command_results,
         handle_event, Overdue, check_timeout, handle_subscribed, subscribe, disconnect,
         handle_action_done, handle_action_error, update_subscriptions
    <2>2. CASE delete_running_task
      <3>1. row' = [row EXCEPT !.stored = FALSE]
        BY <2>2 DEF delete_running_task
      <3> QED
        BY <1>0, <2>2, <3>1 DEF delete_running_task, is_active, Rows
    <2>3. CASE start_interrupted_tasks
      <3>1. ~row.stored /\ row' = row /\ wi' = wi /\ chain' = <<>>
        BY <2>3 DEF start_interrupted_tasks
      <3> QED
        BY <1>0, <1>1, <3>1 DEF RunInv, RowInv, is_active, Rows
    <2> QED
      BY <2>1, <2>2, <2>3
  <1>2. CASE ~registered
    <2>1. wi.state = End /\ row.stored = FALSE /\ chain = <<>>
      BY <1>2 DEF GoneInv
    <2>2. UNCHANGED <<wi, row, chain>>
      BY <1>2, <2>1 DEF Next, vars, execute_command, command_fails, store_running_task_state,
         handle_command_results, handle_event, Overdue, check_timeout, delete_running_task,
         start_interrupted_tasks, handle_subscribed, subscribe, disconnect,
         handle_action_done, handle_action_error, update_subscriptions
    <2> QED
      BY <2>1, <2>2
  <1> QED
    BY <1>0, <1>1, <1>2

\* Steps with a command
Cmds == {i \in 1..N : Action[i] = "execute"}

\* The machine moves forward and nothing else changes that WorkflowRun sees.
LEMMA AdvanceRefines ==
    ASSUME RunInv, RunInv', GoneInv, UNCHANGED <<registered, row, ran>>,
           wi'.is_error = wi.is_error, wi.state <= wi'.state
    PROVE  [Run!Next]_(Run!vars)
  <1>0. /\ N \in Nat /\ End = N + 1 /\ wi.state \in 1..End /\ wi'.state \in 1..End
        /\ wi.is_error \in BOOLEAN
    BY StepAssumption DEF RunInv, Typed, MachineTyped, Machine, End
  <1>1. CASE wi'.state = wi.state
    BY <1>1 DEF Run!vars
  <1>2. CASE wi'.state # wi.state
    <2>1. registered /\ ~wi.is_error /\ wi.state < wi'.state
      BY <1>0, <1>2 DEF GoneInv, RunInv, MachineInv
    <2>2. ExecutedBeforePassed'
      BY DEF RunInv, MachineInv
    <2>3. \A i \in Cmds : i < wi'.state => i \in ran
      BY <1>0, <2>1, <2>2 DEF ExecutedBeforePassed, Cmds
    <2>4. Run!Between(wi.state, wi'.state) \subseteq ran
      BY <2>3 DEF Run!Between, Cmds
    <2>5. wi'.state \in 1..Run!Over
      BY <1>0 DEF Run!Over
    <2>6. Run!Advance
      BY <2>1, <2>4, <2>5 DEF Run!Advance
    <2> QED
      BY <2>6 DEF Run!Next
  <1> QED
    BY <1>1, <1>2

\* A command that is executed belongs to a step the run has entered.
LEMMA ExecuteRefines ==
    ASSUME RunInv, GoneInv, execute_command
    PROVE  [Run!Next]_(Run!vars)
  <1> DEFINE k == Head(Head(chain).cmds)
             cli == IF k \in 1..N /\ Action[k] = "execute" THEN {k} ELSE {}
  <1>0. /\ N \in Nat /\ End = N + 1 /\ wi.state \in 1..End /\ chain \in Seq(Batches)
        /\ wi.is_error \in BOOLEAN /\ registered \in BOOLEAN
    BY StepAssumption DEF RunInv, Typed, MachineTyped, ChainTyped, Machine, End
  <1>1. /\ chain # <<>> /\ Head(chain).cmds # <<>> /\ ran' = ran \cup cli
        /\ UNCHANGED <<wi, registered, row>>
    BY DEF execute_command
  <1>2. registered
    BY <1>0, <1>1 DEF GoneInv
  <1>3. CASE cli = {}
    BY <1>1, <1>3 DEF Run!vars
  <1>4. CASE cli # {}
    <2>1. k \in Cmds /\ cli = {k} /\ k \in 1..N
      BY <1>4 DEF Cmds
    <2>2. k <= wi.state
      <3>1. CASE wi.is_error
        BY <1>0, <2>1, <3>1 DEF RunInv, MachineInv
      <3>2. CASE ~wi.is_error
        <4>1. 1 \in DOMAIN chain /\ Head(chain) = chain[1] /\ chain[1].cmds \in Seq(1..End)
          <5>1. 1 \in DOMAIN chain /\ Head(chain) = chain[1]
            BY <1>0, <1>1
          <5>2. chain[1] \in Batches
            BY <1>0, <5>1
          <5> QED
            BY <5>1, <5>2 DEF Batches
        <4>2. k \in Range(chain[1].cmds)
          <5>1. PICK c : c = chain[1].cmds
            OBVIOUS
          <5>2. c \in Seq(1..End) /\ c # <<>> /\ k = Head(c)
            BY <1>1, <4>1, <5>1
          <5>3. 1 \in DOMAIN c /\ k = c[1]
            BY <5>2
          <5> QED
            BY <5>1, <5>3 DEF Range
        <4>3. k \in (sent + 1)..wi.state
          BY <1>2, <3>2, <4>1, <4>2 DEF RunInv, OrderInv, CommandsInOrder
        <4> QED
          BY <4>3
      <3> QED
        BY <1>0, <3>1, <3>2
    <2>3. wi.is_error \/ Run!Between(1, k) \subseteq ran
      BY <1>0, <2>1, <2>2 DEF Run!Between, RunInv, MachineInv, ExecutedBeforePassed
    <2> HIDE DEF k, cli
    <2>4. Run!Execute
      BY <1>1, <1>2, <2>1, <2>2, <2>3 DEF Run!Execute, Cmds
    <2> QED
      BY <2>4 DEF Run!Next
  <1> QED
    BY <1>3, <1>4

\* The row is brought up to date, or deleted when the run is over.
LEMMA StoreRefines ==
    ASSUME RunInv, GoneInv, store_running_task_state
    PROVE  [Run!Next]_(Run!vars)
  <1>0. /\ row \in Rows /\ registered /\ End = Run!Over
    BY DEF store_running_task_state, GoneInv, RunInv, Typed, MachineTyped, Run!Over, End
  <1>1. CASE is_active(wi)
    <2>1. row.stored /\ wi.state # End
      BY <1>0, <1>1 DEF RunInv, RowInv, is_active
    <2>2. \E msg : row' = [row EXCEPT !.saved = exported(wi), !.received = @ \cup msg]
      BY <1>1 DEF store_running_task_state, update_state
    <2>3. row'.saved = exported(wi) /\ row'.stored = row.stored
      BY <1>0, <2>2 DEF Rows
    <2>4. row'.saved.state = wi.state
      BY <2>3 DEF exported
    <2>5. UNCHANGED <<wi, registered, ran>>
      BY DEF store_running_task_state
    <2>6. Run!Save
      BY <1>0, <2>1, <2>3, <2>4, <2>5 DEF Run!Save
    <2> QED
      BY <2>6 DEF Run!Next
  <1>2. CASE ~is_active(wi)
    <2>1. row' = [row EXCEPT !.stored = @ /\ ~registered] /\ UNCHANGED <<wi, registered, ran>>
      BY <1>2 DEF store_running_task_state
    <2>2. row'.saved = row.saved /\ row'.stored = FALSE
      BY <1>0, <2>1 DEF Rows
    <2>3. Run!Forget
      BY <1>0, <1>2, <2>1, <2>2 DEF Run!Forget, is_active
    <2> QED
      BY <2>3 DEF Run!Next
  <1> QED
    BY <1>1, <1>2

\* The results of a batch move the run on; the last ones let the row of an ended run go.
LEMMA ResultsRefines ==
    ASSUME RunInv, RunInv', GoneInv, handle_command_results
    PROVE  [Run!Next]_(Run!vars)
  <1>0. /\ row \in Rows /\ End = Run!Over /\ End \in Nat /\ wi \in Machine /\ registered
    BY StepAssumption DEF handle_command_results, GoneInv, RunInv, Typed, MachineTyped, Run!Over, End
  <1>1. PICK m \in Machine : Moves(m, wi') /\ m.state = wi.state /\ m.is_error = wi.is_error
    <2> DEFINE m == IF wi.state \in Head(chain).ran THEN [wi EXCEPT !.execution_done = TRUE] ELSE wi
    <2>1. m \in Machine /\ m.state = wi.state /\ m.is_error = wi.is_error
      <3>1. CASE wi.state \in Head(chain).ran
        <4>1. m = [wi EXCEPT !.execution_done = TRUE]
          BY <3>1
        <4> QED
          BY <1>0, <4>1 DEF Machine
      <3> QED
        BY <1>0, <3>1
    <2>2. wi' = move_to_next_state(m)
      BY DEF handle_command_results
    <2> HIDE DEF m
    <2>3. PICK w : w = wi'
      OBVIOUS
    <2>4. Moves(m, w)
      BY <2>1, <2>2, <2>3, MoveFact DEF RunInv, Typed
    <2> QED
      BY <2>1, <2>3, <2>4
  <1>2. wi'.is_error = wi.is_error /\ wi'.state \in wi.state..End /\ wi.state \in 0..End
    BY <1>0, <1>1 DEF Moves, Machine
  <1>3. UNCHANGED <<registered, ran>>
    BY DEF handle_command_results
  <1>4. \E b \in BOOLEAN : row' = [row EXCEPT !.stored = @ /\ ~(b /\ ~is_active(wi))]
    <2> DEFINE b == /\ resulting_commands(IF wi.state \in Head(chain).ran
                                          THEN [wi EXCEPT !.execution_done = TRUE] ELSE wi) = <<>>
                    /\ Head(chain).was /\ registered
    <2>1. row' = [row EXCEPT !.stored = @ /\ ~(b /\ ~is_active(wi))]
      BY DEF handle_command_results
    <2>2. b \in BOOLEAN
      OBVIOUS
    <2> HIDE DEF b
    <2> QED
      BY <2>1, <2>2
  <1>5. row' = row \/ (~is_active(wi) /\ row'.saved = row.saved /\ row'.stored = FALSE)
    BY <1>0, <1>4 DEF Rows
  <1>6. CASE row' = row
    BY <1>0, <1>2, <1>3, <1>6, AdvanceRefines
  <1>7. CASE ~is_active(wi) /\ row'.saved = row.saved /\ row'.stored = FALSE
    <2>1. wi.state = End /\ wi'.state = End
      BY <1>0, <1>2, <1>7 DEF is_active
    <2>2. Run!Forget
      BY <1>0, <1>2, <1>3, <1>7, <2>1 DEF Run!Forget
    <2> QED
      BY <2>2 DEF Run!Next
  <1> QED
    BY <1>5, <1>6, <1>7

\* An error or a timeout ends the run.
LEMMA StopRefines ==
    ASSUME RunInv, GoneInv, NEW msg, Stops(msg)
    PROVE  [Run!Next]_(Run!vars)
  <1>1. row \in Rows /\ registered /\ End = Run!Over
    BY DEF Stops, GoneInv, RunInv, Typed, MachineTyped, Run!Over, End
  <1>2. row'.saved = row.saved /\ row'.stored \in {row.stored, FALSE}
    BY <1>1 DEF Stops, Rows
  <1>3. Run!Fail
    BY <1>1, <1>2 DEF Run!Fail, Stops
  <1> QED
    BY <1>3 DEF Run!Next

\* A run that is over is removed.
LEMMA DeleteRefines ==
    ASSUME RunInv, delete_running_task
    PROVE  [Run!Next]_(Run!vars)
  <1>1. /\ row \in Rows /\ registered /\ wi.state = Run!Over /\ registered' = FALSE
        /\ row' = [row EXCEPT !.stored = FALSE] /\ UNCHANGED <<wi, ran>>
    BY DEF delete_running_task, RunInv, Typed, MachineTyped, Run!Over, End, is_active
  <1>2. row'.saved = row.saved /\ row'.stored = FALSE
    BY <1>1 DEF Rows
  <1>3. Run!Forget
    BY <1>1, <1>2 DEF Run!Forget
  <1> QED
    BY <1>3 DEF Run!Next

\* A restart takes the run up where the row is; without a row it was over.
LEMMA RestartRefines ==
    ASSUME RunInv, GoneInv, start_interrupted_tasks
    PROVE  [Run!Next]_(Run!vars)
  <1>0. /\ row \in Rows /\ registered \in BOOLEAN /\ End = Run!Over /\ End = N + 1 /\ N \in Nat
        /\ row.saved.state \in 1..End /\ row.stored \in BOOLEAN
    BY StepAssumption DEF RunInv, Typed, MachineTyped, Run!Over, End, Rows
  <1>1. registered' = row.stored /\ UNCHANGED <<row, ran>>
    BY DEF start_interrupted_tasks
  <1>2. CASE row.stored
    <2>1. registered
      BY <1>0, <1>2 DEF GoneInv
    <2>2. PICK late \in BOOLEAN : wi' = move_to_next_state(restored(late))
      BY <1>2 DEF start_interrupted_tasks, RestoredLate
    <2>3. PICK m : m = restored(late)
      OBVIOUS
    <2>4. /\ m \in Machine /\ m.state = row.saved.state /\ m.is_error = FALSE
          /\ m.execution_done = FALSE
      BY <2>3, RestoredFact
    <2>5. PICK w : w = wi'
      OBVIOUS
    <2>6. Moves(m, w)
      BY <2>2, <2>3, <2>4, <2>5, MoveFact DEF RunInv, Typed
    <2>7. w.state \in row.saved.state..End /\ w.is_error = FALSE
      BY <2>4, <2>6 DEF Moves
    <2>8. Run!Between(row.saved.state, w.state) = {}
      <3> SUFFICES ASSUME NEW c \in Cmds, row.saved.state <= c, c < w.state PROVE FALSE
        BY DEF Run!Between, Cmds
      <3>1. current_step_done(m, c)
        BY <1>0, <2>4, <2>6, <2>7 DEF Moves, Cmds
      <3>2. c \in 1..N /\ c # 0 /\ Action[c] = "execute"
        BY <1>0 DEF Cmds
      <3>3. ExecuteCommandDone(m, c)
        BY <3>1, <3>2 DEF current_step_done
      <3> QED
        BY <2>4, <3>3 DEF ExecuteCommandDone
    <2>9. Run!Restart
      BY <1>0, <1>1, <1>2, <2>1, <2>5, <2>7, <2>8 DEF Run!Restart
    <2> QED
      BY <2>9 DEF Run!Next
  <1>3. CASE ~row.stored
    <2>1. wi' = wi /\ registered' = FALSE
      BY <1>0, <1>1, <1>3 DEF start_interrupted_tasks
    <2>2. CASE registered
      <3>1. wi.state = End
        BY <1>3, <2>2 DEF RunInv, RowInv, is_active
      <3>2. Run!Forget
        BY <1>0, <1>1, <1>3, <2>1, <2>2, <3>1 DEF Run!Forget
      <3> QED
        BY <3>2 DEF Run!Next
    <2>3. CASE ~registered
      BY <1>0, <1>1, <2>1, <2>3 DEF Run!vars
    <2> QED
      BY <2>2, <2>3
  <1> QED
    BY <1>0, <1>2, <1>3

\* The machine that is started has passed no command.
LEMMA InitRefines ==
    ASSUME Init
    PROVE  Run!Init
  <1>1. RunInv
    BY InitFact
  <1>2. /\ wi.state \in 1..End /\ wi.is_error \in BOOLEAN /\ N \in Nat /\ End = N + 1
        /\ ran = {} /\ registered = TRUE
        /\ row = [stored |-> TRUE, saved |-> exported(wi), received |-> {}, since |-> wi.state]
    BY <1>1, StepAssumption DEF Init, RunInv, Typed, MachineTyped, Machine, End
  <1>3. row.stored = TRUE /\ row.saved.state = wi.state
    BY <1>2 DEF exported
  <1>4. wi.is_error = FALSE
    <2>1. SubsTyped
      BY <1>1 DEF RunInv, Typed
    <2>2. NewTask \in Machine /\ NewTask.is_error = FALSE
      BY <2>1, StepAssumption, TablesFact DEF NewTask, Machine, End
    <2>3. PICK w : w = wi
      OBVIOUS
    <2>4. Moves(NewTask, w)
      BY <2>1, <2>2, <2>3, MoveFact DEF Init
    <2> QED
      BY <2>2, <2>3, <2>4 DEF Moves
  <1>5. Run!Between(1, wi.state) = {}
    BY <1>1, <1>2, <1>4 DEF Run!Between, RunInv, MachineInv, ExecutedBeforePassed
  <1> QED
    BY <1>2, <1>3, <1>4, <1>5 DEF Run!Init, Run!Over

\* Every step of the run is a step of WorkflowRun or changes nothing it sees: steps are taken
\* in order, their commands executed before they are left, a restart takes the run up at the
\* stored step and passes no command over, and a run that was removed does not come back
\* (move_to_next_state, store_running_task_state, delete_running_task, reset_state).
THEOREM RunImplementsWorkflow == Spec => RunKept
  <1>1. Init => Run!Init /\ GoneInv
    BY InitRefines DEF Init, GoneInv
  <1>2. RunInv /\ GoneInv /\ [Next]_vars => GoneInv'
    BY GoneStep
  <1>3. ASSUME RunInv, RunInv', GoneInv, [Next]_vars PROVE [Run!Next]_(Run!vars)
    <2>1. CASE UNCHANGED <<wi, registered, chain, row, crashes, ran, sent>>
      BY <2>1 DEF Run!vars
    <2>2. ASSUME NEW m, NEW msg \in SUBSET Messages, Goes(m, msg) PROVE [Run!Next]_(Run!vars)
      <3>1. /\ UNCHANGED <<registered, row, ran>> /\ wi'.is_error = wi.is_error
            /\ wi.state <= wi'.state
        BY <1>3, <2>2, StepAssumption DEF Goes, Moves, RunInv, Typed, MachineTyped, End
      <3> QED
        BY <1>3, <3>1, AdvanceRefines
    <2>3. ASSUME NEW msg \in SUBSET Messages, Stops(msg) PROVE [Run!Next]_(Run!vars)
      BY <1>3, <2>3, StopRefines
    <2>4. CASE Overdue
      <3>1. /\ UNCHANGED <<registered, row, ran>> /\ wi' = [wi EXCEPT !.late = TRUE]
            /\ wi \in Machine
        BY <1>3, <2>4 DEF Overdue, RunInv, Typed, MachineTyped
      <3>2. wi'.state = wi.state /\ wi'.is_error = wi.is_error
        BY <3>1 DEF Machine
      <3> QED
        BY <3>1, <3>2 DEF Run!vars
    <2>5. CASE command_fails
      BY <2>5 DEF command_fails, Run!vars
    <2> QED
      BY <1>3, <2>1, <2>2, <2>3, <2>4, <2>5, StepKind, ExecuteRefines, StoreRefines, ResultsRefines,
         DeleteRefines, RestartRefines DEF Own
  <1> QED
    BY <1>1, <1>2, <1>3, RunInvariant, PTL DEF Spec, RunKept, Run!Spec

=============================================================================
