--------------------------- MODULE JudgeRunProofs ---------------------------
(***************************************************************************)
(* Proofs about the LLM judge (JudgeRun), for any records, labels and      *)
(* number of cases, and any number of kills and resumes.                   *)
(***************************************************************************)
EXTENDS JudgeRun, FiniteSetTheorems, SequenceTheorems, TLAPS

-----------------------------------------------------------------------------
(* The inductive invariant. *)

All == Judgeable(Repeats(command))
Looked == All \ pool

OfTierOf(set, k) == {j \in set : records[j].tier = records[k].tier}
Earlier(k) == {j \in All : records[j].tier = records[k].tier /\ j[1] < k[1]}
Rule(k) == command = "build" => records[k].failed \/ Cardinality(Earlier(k)) < PerTier

InOrder(seq) == \A i, j \in DOMAIN seq : i < j => Before(seq[i], seq[j])

\* The loop over the records: it goes by their order, has chosen by the rule, and a tier of
\* which it left one out has its number of cases.
Selecting ==
  pc = "selecting" =>
    /\ command \in {"build", "cases"} /\ cases = None
    /\ pool \subseteq All
    /\ \A j \in Looked, k \in pool : Before(j, k)
    /\ ToSet(chosen) = {k \in Looked : Rule(k)}
    /\ InOrder(chosen)
    /\ \A k \in All : OfTierOf(Looked, k) \subseteq ToSet(chosen) \/ Taken(records[k].tier) >= PerTier

\* The verdicts are of the cases, one for each that has one.
Recorded ==
  /\ cases = None => judgments = <<>>
  /\ \A i \in DOMAIN judgments :
       judgments[i].status = "ok" => judgments[i].key \in ToSet(cases)
  /\ \A i, j \in DOMAIN judgments :
       judgments[i].status = "ok" /\ judgments[j].status = "ok"
       /\ judgments[i].key = judgments[j].key => i = j

\* What a process has to do is not done.
Undone == \A i \in todo : cases[i] \notin Done(judgments)

IInv == TypeOK /\ Selecting /\ SelectionIsTheRule /\ Recorded /\ Undone

-----------------------------------------------------------------------------
(* Keys and lines. *)

Lines == [key : Keys \cup {None}, verdict : Scores \cup {None}, status : {"ok", "error", "torn"}]

LEMMA KeyTypes ==
  ASSUME NEW k \in Keys
  PROVE  k[1] \in Nat /\ k[2] \in Nat /\ k = <<k[1], k[2]>>
<1>1. k \in Nat \X Nat
  BY KeysAssumption
<1>. QED
  BY <1>1

LEMMA BeforeIsAnOrder ==
  /\ \A j \in Keys : ~Before(j, j)
  /\ \A j, k \in Keys : Before(j, k) => ~Before(k, j)
  /\ \A i, j, k \in Keys : Before(i, j) /\ Before(j, k) => Before(i, k)
<1>1. \A k \in Keys : k[1] \in Nat /\ k[2] \in Nat
  BY KeyTypes
<1>. QED
  BY <1>1 DEF Before

LEMMA LeastNat ==
  ASSUME NEW T \in SUBSET Nat, T # {}
  PROVE  \E x \in T : \A y \in T : x <= y
<1>1. PICK x \in T : \A y \in T : ~(<<y, x>> \in OpToRel(<, Nat))
  BY NatLessThanWellFounded, WFMin
<1>2. \A y \in T : ~(y < x)
  BY <1>1 DEF OpToRel
<1>. QED
  BY <1>2

LEMMA AppendedTo ==
  ASSUME NEW S, NEW seq \in Seq(S), NEW e \in S
  PROVE  /\ Append(seq, e) \in Seq(S) /\ Len(seq) \in Nat /\ DOMAIN seq = 1..Len(seq)
         /\ DOMAIN Append(seq, e) = 1..Len(seq) + 1
         /\ \A i \in 1..Len(seq) : Append(seq, e)[i] = seq[i]
         /\ Append(seq, e)[Len(seq) + 1] = e
         /\ \A i : i \in 1..Len(seq) + 1 <=> i \in 1..Len(seq) \/ i = Len(seq) + 1
  OBVIOUS

LEMMA MembersAppended ==
  ASSUME NEW S, NEW seq \in Seq(S), NEW e \in S
  PROVE  ToSet(Append(seq, e)) = ToSet(seq) \cup {e}
<1>. DEFINE n == Len(seq)
            longer == Append(seq, e)
<1>1. /\ DOMAIN seq = 1..n /\ DOMAIN longer = 1..n + 1
      /\ \A i \in 1..n : longer[i] = seq[i]
      /\ longer[n + 1] = e
      /\ \A i : i \in 1..n + 1 <=> i \in 1..n \/ i = n + 1
  BY AppendedTo
<1>. HIDE DEF n, longer
<1>2. \A x : x \in ToSet(longer) <=> \E i \in 1..n + 1 : x = longer[i]
  BY <1>1 DEF ToSet
<1>3. \A x : x \in ToSet(seq) <=> \E i \in 1..n : x = seq[i]
  BY <1>1 DEF ToSet
<1>4. \A x : x \in ToSet(longer) <=> x \in ToSet(seq) \/ x = e
  BY <1>1, <1>2, <1>3
<1>. QED
  BY <1>4 DEF longer

LEMMA FinitelyMany ==
  ASSUME NEW n \in Nat, NEW f, DOMAIN f = 1..n, f = [i \in 1..n |-> f[i]]
  PROVE  IsFiniteSet({f[i] : i \in 1..n})
<1>. DEFINE T == {f[i] : i \in 1..n}
<1>1. f \in Surjection(1..n, T)
  <2>1. f \in [1..n -> T]
    OBVIOUS
  <2>2. \A x \in T : \E i \in 1..n : f[i] = x
    OBVIOUS
  <2>. QED
    BY <2>1, <2>2 DEF Surjection
<1>2. IsFiniteSet(1..n)
  BY FS_Interval
<1>. QED
  BY <1>1, <1>2, FS_Surjection, Zenon

LEMMA MembersOf ==
  ASSUME NEW S, NEW seq \in Seq(S)
  PROVE  ToSet(seq) \subseteq S /\ IsFiniteSet(ToSet(seq))
<1>1. Len(seq) \in Nat /\ DOMAIN seq = 1..Len(seq) /\ \A i \in 1..Len(seq) : seq[i] \in S
  OBVIOUS
<1>2. ToSet(seq) = {seq[i] : i \in 1..Len(seq)}
  BY <1>1 DEF ToSet
<1>3. seq = [i \in 1..Len(seq) |-> seq[i]]
  OBVIOUS
<1>4. IsFiniteSet({seq[i] : i \in 1..Len(seq)})
  BY <1>1, <1>3, FinitelyMany
<1>. QED
  BY <1>1, <1>2, <1>4

LEMMA NothingChosen == ToSet(<<>>) = {} /\ InOrder(<<>>)
  BY DEF ToSet, InOrder

LEMMA OrderedAppended ==
  ASSUME NEW seq \in Seq(Keys), InOrder(seq), NEW k \in Keys, \A j \in ToSet(seq) : Before(j, k)
  PROVE  InOrder(Append(seq, k))
<1>. DEFINE n == Len(seq)
            longer == Append(seq, k)
<1>1. /\ n \in Nat /\ DOMAIN seq = 1..n /\ DOMAIN longer = 1..n + 1
      /\ \A i \in 1..n : longer[i] = seq[i]
      /\ longer[n + 1] = k
      /\ \A i : i \in 1..n + 1 <=> i \in 1..n \/ i = n + 1
  BY AppendedTo
<1>2. \A i \in 1..n : Before(seq[i], k)
  BY <1>1 DEF ToSet
<1>. SUFFICES ASSUME NEW i \in 1..n + 1, NEW j \in 1..n + 1, i < j
              PROVE  Before(longer[i], longer[j])
  BY <1>1 DEF InOrder
<1>3. i \in 1..n
  BY <1>1
<1>4. CASE j \in 1..n
  BY <1>1, <1>3, <1>4 DEF InOrder
<1>5. CASE j = n + 1
  BY <1>1, <1>2, <1>3, <1>5
<1>. QED
  BY <1>1, <1>4, <1>5

\* A case is at one place.
LEMMA OrderedIsOnce ==
  ASSUME NEW seq \in Seq(Keys), InOrder(seq), NEW i \in DOMAIN seq, NEW j \in DOMAIN seq, i # j
  PROVE  seq[i] # seq[j]
<1>1. /\ i \in Nat /\ j \in Nat /\ seq[i] \in Keys /\ seq[j] \in Keys
  OBVIOUS
<1>2. i < j \/ j < i
  BY <1>1
<1>3. Before(seq[i], seq[j]) \/ Before(seq[j], seq[i])
  BY <1>2 DEF InOrder
<1>. QED
  BY <1>1, <1>3, BeforeIsAnOrder

LEMMA AllAreKeys ==
  ASSUME records \in Runs
  PROVE  All \subseteq Keys /\ IsFiniteSet(All)
<1>1. All \subseteq DOMAIN records
  BY DEF All, Judgeable
<1>2. DOMAIN records \subseteq Keys /\ IsFiniteSet(DOMAIN records)
  BY RunsAssumption
<1>. QED
  BY <1>1, <1>2, FS_Subset

LEMMA InHandIsACase ==
  ASSUME TypeOK, todo # {}
  PROVE  /\ Min(todo) \in todo /\ cases \in Seq(Keys) /\ todo \subseteq DOMAIN cases
         /\ InHand = cases[Min(todo)] /\ InHand \in Keys /\ InHand \in ToSet(cases)
<1>1. cases \in Seq(Keys) /\ todo \subseteq DOMAIN cases
  BY DEF TypeOK
<1>2. todo \in SUBSET Nat
  BY <1>1
<1>3. \E x \in todo : \A y \in todo : x <= y
  BY <1>2, LeastNat
<1>4. Min(todo) \in todo
  BY <1>3 DEF Min
<1>. QED
  BY <1>1, <1>4 DEF InHand, ToSet

\* What a further line adds.
LEMMA LineAdded ==
  ASSUME judgments \in Seq(Lines), NEW e \in Lines, judgments' = Append(judgments, e)
  PROVE  /\ \A k : OkLines(k)' = IF e.key = k /\ e.status = "ok"
                                THEN OkLines(k) \cup {Len(judgments) + 1} ELSE OkLines(k)
         /\ Done(judgments') = IF e.status = "ok" THEN Done(judgments) \cup {e.key} ELSE Done(judgments)
<1>. DEFINE n == Len(judgments)
<1>1. /\ n \in Nat /\ DOMAIN judgments = 1..n /\ DOMAIN judgments' = 1..n + 1
      /\ \A i \in 1..n : judgments'[i] = judgments[i]
      /\ judgments'[n + 1] = e
      /\ \A i : i \in 1..n + 1 <=> i \in 1..n \/ i = n + 1
  BY AppendedTo
<1>2. \A k : OkLines(k)' = IF e.key = k /\ e.status = "ok"
                          THEN OkLines(k) \cup {n + 1} ELSE OkLines(k)
  BY <1>1 DEF OkLines
<1>3. ToSet(judgments') = ToSet(judgments) \cup {e}
  BY MembersAppended
<1>4. Done(judgments') = IF e.status = "ok" THEN Done(judgments) \cup {e.key} ELSE Done(judgments)
  BY <1>3 DEF Done
<1>. QED
  BY <1>2, <1>4

LEMMA DoneHasLine ==
  ASSUME NEW k
  PROVE  k \in Done(judgments) <=> OkLines(k) # {}
  BY DEF Done, OkLines, ToSet

-----------------------------------------------------------------------------
(* The selection. *)

\* Where the loop stands, what it does with a record is what the rule says of it.
LEMMA WantedIsTheRule ==
  ASSUME TypeOK, Selecting, pc = "selecting",
         NEW k \in pool, \A j \in pool \ {k} : Before(k, j)
  PROVE  Wanted(k) <=> Rule(k)
<1>1. CASE command # "build"
  BY <1>1 DEF Wanted, Rule
<1>2. CASE command = "build"
  <2>. DEFINE tier == records[k].tier
              C == {j \in ToSet(chosen) : records[j].tier = tier}
              L == OfTierOf(Looked, k)
  <2>1. All \subseteq Keys /\ IsFiniteSet(All) /\ pool \subseteq All /\ k \in All
    BY AllAreKeys DEF TypeOK, Selecting
  <2>2. \A j \in All : j[1] \in Nat /\ j[2] = 0
    <3>1. \A j \in All : j[2] = 0
      BY <1>2 DEF All, Judgeable, Repeats
    <3>. QED
      BY <2>1, <3>1, KeyTypes
  <2>3. Earlier(k) = L
    <3>1. ASSUME NEW j \in All PROVE j \in Looked <=> j[1] < k[1]
      <4>1. CASE j \in pool
        <5>1. j = k \/ Before(k, j)
          BY <4>1
        <5>2. ~(j[1] < k[1])
          BY <2>1, <2>2, <5>1 DEF Before
        <5>. QED
          BY <4>1, <5>2 DEF Looked
      <4>2. CASE j \notin pool
        <5>1. j \in Looked /\ Before(j, k)
          BY <4>2 DEF Looked, Selecting
        <5>. QED
          BY <2>1, <2>2, <5>1 DEF Before
      <4>. QED
        BY <4>1, <4>2
    <3>. QED
      BY <3>1 DEF Earlier, OfTierOf, Looked
  <2>4. C \subseteq L /\ IsFiniteSet(L)
    <3>1. ToSet(chosen) \subseteq Looked
      BY DEF Selecting
    <3>2. L \subseteq All
      BY DEF OfTierOf, Looked
    <3>. QED
      BY <2>1, <3>1, <3>2, FS_Subset DEF OfTierOf
  <2>5. Cardinality(C) \in Nat /\ Cardinality(L) \in Nat /\ Cardinality(C) <= Cardinality(L)
    BY <2>4, FS_Subset, FS_CardinalityType
  <2>6. L \subseteq C \/ Cardinality(C) >= PerTier
    <3>1. L \subseteq ToSet(chosen) \/ Taken(tier) >= PerTier
      BY <2>1 DEF Selecting
    <3>. QED
      BY <3>1 DEF Taken, OfTierOf
  <2>7. Cardinality(C) < PerTier <=> Cardinality(L) < PerTier
    <3>1. CASE L \subseteq C
      <4>1. L = C
        BY <2>4, <3>1
      <4>. QED
        BY <4>1
    <3>2. CASE Cardinality(C) >= PerTier
      BY <2>5, <3>2, PerTierAssumption
    <3>. QED
      BY <2>6, <3>1, <3>2
  <2>8. Taken(tier) = Cardinality(C)
    BY DEF Taken
  <2>. HIDE DEF C, L
  <2>. QED
    BY <1>2, <2>3, <2>7, <2>8 DEF Wanted, Rule
<1>. QED
  BY <1>1, <1>2

LEMMA ChooseSelects ==
  ASSUME TypeOK, Selecting, Choose
  PROVE  Selecting' /\ chosen' \in Seq(Keys) /\ pool' \subseteq Keys
<1>1. /\ pc = "selecting" /\ pc' = pc /\ records' = records /\ command' = command /\ cases' = cases
      /\ command \in {"build", "cases"} /\ cases = None
      /\ pool \subseteq All
      /\ \A j \in Looked, m \in pool : Before(j, m)
      /\ ToSet(chosen) = {m \in Looked : Rule(m)}
      /\ InOrder(chosen)
  BY DEF Choose, files, Selecting
<1>2. PICK k \in pool :
        /\ \A j \in pool \ {k} : Before(k, j)
        /\ chosen' = IF Wanted(k) THEN Append(chosen, k) ELSE chosen
        /\ pool' = pool \ {k}
  BY DEF Choose
<1>3. /\ All \subseteq Keys /\ IsFiniteSet(All) /\ k \in All /\ k \in Keys /\ chosen \in Seq(Keys)
  BY <1>1, AllAreKeys DEF TypeOK
<1>4. Wanted(k) <=> Rule(k)
  BY <1>1, <1>2, WantedIsTheRule
<1>5. All' = All /\ Looked' = Looked \cup {k} /\ k \notin Looked
  <2>1. All' = All
    BY <1>1 DEF All, Judgeable, Repeats
  <2>. QED
    BY <1>2, <1>3, <2>1 DEF Looked
<1>6. \A m : Earlier(m)' = Earlier(m) /\ (Rule(m)' <=> Rule(m))
  <2>1. \A m : Earlier(m)' = Earlier(m)
    BY <1>1, <1>5 DEF Earlier
  <2>. QED
    BY <1>1, <2>1 DEF Rule
<1>7. /\ ToSet(chosen') = IF Wanted(k) THEN ToSet(chosen) \cup {k} ELSE ToSet(chosen)
      /\ chosen' \in Seq(Keys)
  <2>1. Append(chosen, k) \in Seq(Keys)
    BY <1>3
  <2>2. ToSet(Append(chosen, k)) = ToSet(chosen) \cup {k}
    BY <1>3, MembersAppended
  <2>. QED
    BY <1>2, <1>3, <2>1, <2>2
<1>8. \A j \in Looked', m \in pool' : Before(j, m)
  BY <1>1, <1>2, <1>5
<1>9. ToSet(chosen') = {m \in Looked' : Rule(m)'}
  BY <1>1, <1>4, <1>5, <1>6, <1>7
<1>10. InOrder(chosen')
  <2>1. \A j \in ToSet(chosen) : Before(j, k)
    BY <1>1
  <2>. QED
    BY <1>1, <1>2, <1>3, <2>1, OrderedAppended
<1>11. ASSUME NEW m \in All
       PROVE  \/ {j \in Looked' : records'[j].tier = records'[m].tier} \subseteq ToSet(chosen')
              \/ Cardinality({j \in ToSet(chosen') : records'[j].tier = records'[m].tier}) >= PerTier
  <2>. DEFINE tier == records[m].tier
              C == {j \in ToSet(chosen) : records[j].tier = tier}
              D == {j \in ToSet(chosen') : records[j].tier = tier}
  <2>1. OfTierOf(Looked, m) \subseteq ToSet(chosen) \/ Cardinality(C) >= PerTier
    BY <1>1 DEF Selecting, Taken
  <2>2. C \subseteq D /\ IsFiniteSet(D)
    <3>1. IsFiniteSet(ToSet(chosen'))
      BY <1>7, MembersOf
    <3>. QED
      BY <1>7, <3>1, FS_Subset
  <2>3. Cardinality(C) \in Nat /\ Cardinality(D) \in Nat /\ Cardinality(C) <= Cardinality(D)
    BY <2>2, FS_Subset, FS_CardinalityType
  <2>. HIDE DEF C, D
  <2>4. CASE Cardinality(C) >= PerTier
    <3>1. Cardinality(D) >= PerTier
      BY <2>3, <2>4, PerTierAssumption
    <3>. QED
      BY <1>1, <3>1 DEF D
  <2>5. CASE OfTierOf(Looked, m) \subseteq ToSet(chosen) /\ (Wanted(k) \/ records[k].tier # tier)
    BY <1>1, <1>5, <1>7, <2>5 DEF OfTierOf
  <2>6. CASE ~Wanted(k) /\ records[k].tier = tier
    <3>1. ~(Cardinality(C) < PerTier)
      BY <2>6 DEF Wanted, Taken, C
    <3>. QED
      BY <2>3, <2>4, <3>1, PerTierAssumption
  <2>. QED
    BY <2>1, <2>4, <2>5, <2>6
<1>12. \A m \in All' : OfTierOf(Looked, m)' \subseteq ToSet(chosen') \/ Taken(records[m].tier)' >= PerTier
  BY <1>5, <1>11 DEF OfTierOf, Taken
<1>13. pool' \subseteq All' /\ pool' \subseteq Keys
  BY <1>1, <1>2, <1>3, <1>5
<1>. QED
  BY <1>1, <1>7, <1>8, <1>9, <1>10, <1>12, <1>13 DEF Selecting, InOrder

\* The file is written when nothing is left.
LEMMA WrittenByTheRule ==
  ASSUME TypeOK, Selecting, WriteCases
  PROVE  SelectionIsTheRule'
<1>1. /\ pc = "selecting" /\ pool = {} /\ cases' = chosen /\ records' = records /\ command' = command
      /\ command \in {"build", "cases"}
      /\ ToSet(chosen) = {k \in Looked : Rule(k)} /\ InOrder(chosen)
  BY DEF WriteCases, Selecting
<1>2. Looked = All /\ All' = All
  BY <1>1 DEF Looked, All, Judgeable, Repeats
<1>3. ToSet(chosen) = IF command = "cases" THEN All
                      ELSE {k \in All : records[k].failed \/ Cardinality(Earlier(k)) < PerTier}
  BY <1>1, <1>2 DEF Rule
<1>4. /\ ToSet(cases') = IF command' = "cases" THEN All'
                         ELSE {k \in All' : records'[k].failed \/ Cardinality(Earlier(k)') < PerTier}
      /\ InOrder(cases')
  <2>1. \A k : Earlier(k)' = Earlier(k)
    BY <1>1, <1>2 DEF Earlier
  <2>. QED
    BY <1>1, <1>2, <1>3, <2>1
<1>. QED
  BY <1>4 DEF SelectionIsTheRule, All, Earlier, InOrder

LEMMA SelectionKept ==
  ASSUME SelectionIsTheRule, records' = records, cases' = cases, command' = command
  PROVE  SelectionIsTheRule'
  BY DEF SelectionIsTheRule, Judgeable, Repeats

LEMMA SelectingIsOver ==
  ASSUME pc' # "selecting"
  PROVE  Selecting'
  BY DEF Selecting

LEMMA CasesInOrder ==
  ASSUME SelectionIsTheRule, cases # None
  PROVE  InOrder(cases)
  BY DEF SelectionIsTheRule, InOrder

-----------------------------------------------------------------------------
(* The invariant is inductive. *)

LEMMA InitHolds == Init => IInv
<1>. SUFFICES ASSUME Init PROVE IInv
  OBVIOUS
<1>. USE DEF Init
<1>1. <<>> \in Seq(Keys) /\ <<>> \in Seq(Lines) /\ DOMAIN <<>> = {}
  OBVIOUS
<1>2. TypeOK
  <2>1. NoReply \in [status : {"ok", "cached", "RATE_LIMITED", "error", None},
                     verdict : Scores \cup {None}]
    BY DEF NoReply
  <2>2. starts \in 0..MaxStarts
    BY StartsAssumption
  <2>. QED
    BY <1>1, <2>1, <2>2 DEF TypeOK, Lines
<1>3. Selecting /\ SelectionIsTheRule /\ Undone
  BY DEF Selecting, SelectionIsTheRule, Undone
<1>4. Recorded
  BY <1>1 DEF Recorded
<1>. QED
  BY <1>2, <1>3, <1>4 DEF IInv

LEMMA RecordedKept ==
  ASSUME Recorded, judgments' = judgments, cases' = cases
  PROVE  Recorded'
  BY DEF Recorded

LEMMA CommandTypes ==
  ASSUME TypeOK, Command
  PROVE  pc = "down" /\ todo = {} /\ starts' \in 0..MaxStarts
<1>1. pc = "down" /\ starts < MaxStarts /\ starts' = starts + 1
  BY DEF Command
<1>. QED
  BY <1>1, StartsAssumption DEF TypeOK

LEMMA BuildHolds == IInv /\ Build => IInv'
<1>. SUFFICES ASSUME IInv, Build PROVE IInv'
  OBVIOUS
<1>1. /\ cases = None /\ command' \in {"build", "cases"} /\ pool' = Judgeable(Repeats(command'))
      /\ chosen' = <<>> /\ pc' = "selecting"
      /\ records' = records /\ cases' = cases /\ judgments' = judgments /\ cache' = cache
      /\ todo' = todo /\ reply' = reply /\ called' = called
  BY DEF Build, judging
<1>2. pc = "down" /\ todo = {} /\ starts' \in 0..MaxStarts
  BY CommandTypes DEF IInv, Build
<1>3. pool' = All'
  BY <1>1 DEF All, Judgeable
<1>4. pool' \subseteq Keys
  <2>1. pool' \subseteq DOMAIN records /\ records \in Runs
    BY <1>1 DEF IInv, TypeOK, Judgeable
  <2>. QED
    BY <2>1, RunsAssumption
<1>5. TypeOK'
  <2>1. chosen' \in Seq(Keys)
    BY <1>1
  <2>. QED
    BY <1>1, <1>2, <1>4, <2>1 DEF IInv, TypeOK
<1>6. Selecting'
  <2>1. Looked' = {}
    BY <1>3 DEF Looked
  <2>2. ToSet(chosen') = {} /\ InOrder(chosen')
    BY <1>1, NothingChosen
  <2>3. \A k \in All' : OfTierOf(Looked, k)' \subseteq ToSet(chosen')
    BY <2>1 DEF OfTierOf
  <2>. QED
    BY <1>1, <1>3, <2>1, <2>2, <2>3 DEF Selecting, InOrder
<1>7. SelectionIsTheRule' /\ Recorded' /\ Undone'
  <2>1. SelectionIsTheRule'
    BY <1>1 DEF SelectionIsTheRule
  <2>2. Undone'
    BY <1>1, <1>2 DEF Undone
  <2>. QED
    BY <1>1, <2>1, <2>2, RecordedKept DEF IInv
<1>. QED
  BY <1>5, <1>6, <1>7 DEF IInv

LEMMA ChooseHolds == IInv /\ Choose => IInv'
<1>. SUFFICES ASSUME IInv, Choose PROVE IInv'
  OBVIOUS
<1>1. /\ pc = "selecting" /\ pc' = pc /\ records' = records /\ starts' = starts
      /\ cases' = cases /\ command' = command /\ judgments' = judgments /\ cache' = cache
      /\ todo' = todo /\ reply' = reply /\ called' = called
  BY DEF Choose, files, judging
<1>2. Selecting' /\ chosen' \in Seq(Keys) /\ pool' \subseteq Keys
  BY ChooseSelects DEF IInv
<1>3. TypeOK'
  BY <1>1, <1>2 DEF IInv, TypeOK
<1>4. SelectionIsTheRule' /\ Recorded' /\ Undone'
  BY <1>1, SelectionKept, RecordedKept DEF IInv, Undone
<1>. QED
  BY <1>2, <1>3, <1>4 DEF IInv

\* A process that is over has nothing to do.
LEMMA IdleTypes ==
  ASSUME Idle
  PROVE  /\ pc' = "down" /\ pool' = {} /\ chosen' = <<>> /\ chosen' \in Seq(Keys) /\ todo' = {}
         /\ reply' \in [status : {"ok", "cached", "RATE_LIMITED", "error", None},
                        verdict : Scores \cup {None}]
         /\ Selecting' /\ Undone'
<1>1. /\ pc' = "down" /\ pool' = {} /\ chosen' = <<>> /\ todo' = {} /\ reply' = NoReply
  BY DEF Idle
<1>2. Selecting' /\ Undone'
  BY <1>1 DEF Selecting, Undone
<1>3. NoReply \in [status : {"ok", "cached", "RATE_LIMITED", "error", None},
                   verdict : Scores \cup {None}]
  BY DEF NoReply
<1>4. <<>> \in Seq(Keys)
  OBVIOUS
<1>. QED
  BY <1>1, <1>2, <1>3, <1>4

LEMMA WriteCasesHolds == IInv /\ WriteCases => IInv'
<1>. SUFFICES ASSUME IInv, WriteCases PROVE IInv'
  OBVIOUS
<1>1. /\ pc = "selecting" /\ cases' = chosen /\ Idle
      /\ records' = records /\ starts' = starts /\ command' = command
      /\ judgments' = judgments /\ cache' = cache
  BY DEF WriteCases
<1>2. /\ pc' = "down" /\ pool' = {} /\ chosen' \in Seq(Keys) /\ todo' = {}
      /\ reply' \in [status : {"ok", "cached", "RATE_LIMITED", "error", None},
                     verdict : Scores \cup {None}]
      /\ Selecting' /\ Undone'
  BY <1>1, IdleTypes
<1>3. chosen \in Seq(Keys) /\ cases = None /\ judgments = <<>>
  BY <1>1 DEF IInv, TypeOK, Selecting, Recorded
<1>4. TypeOK'
  BY <1>1, <1>2, <1>3 DEF IInv, TypeOK
<1>5. SelectionIsTheRule'
  BY WrittenByTheRule DEF IInv
<1>6. Recorded'
  BY <1>1, <1>3 DEF Recorded
<1>. QED
  BY <1>2, <1>4, <1>5, <1>6 DEF IInv

LEMMA StartHolds == IInv /\ Start => IInv'
<1>. SUFFICES ASSUME IInv, Start PROVE IInv'
  OBVIOUS
<1>1. /\ cases # None /\ Command
      /\ records' = records /\ cases' = cases /\ command' = command /\ judgments' = judgments
      /\ cache' = cache /\ pool' = pool /\ chosen' = chosen /\ reply' = reply /\ called' = called
      /\ pc' = IF todo' = {} THEN "down" ELSE "judging"
      /\ todo' \subseteq DOMAIN cases /\ \A i \in todo' : cases[i] \notin Done(judgments)
  BY DEF Start, files, selecting
<1>2. pc = "down" /\ todo = {} /\ starts' \in 0..MaxStarts
  BY <1>1, CommandTypes DEF IInv
<1>3. TypeOK'
  BY <1>1, <1>2 DEF IInv, TypeOK
<1>4. Selecting' /\ Undone'
  BY <1>1, SelectingIsOver DEF Undone
<1>5. SelectionIsTheRule' /\ Recorded'
  BY <1>1, SelectionKept, RecordedKept DEF IInv
<1>. QED
  BY <1>3, <1>4, <1>5 DEF IInv

LEMMA StartRaisesHolds == IInv /\ StartRaises => IInv'
<1>. SUFFICES ASSUME IInv, StartRaises PROVE IInv'
  OBVIOUS
<1>1. /\ Command /\ records' = records /\ cases' = cases /\ command' = command
      /\ judgments' = judgments /\ cache' = cache /\ pool' = pool /\ chosen' = chosen
      /\ reply' = reply /\ called' = called /\ todo' = todo /\ pc' = pc
  BY DEF StartRaises, files, selecting, judging
<1>2. pc = "down" /\ todo = {} /\ starts' \in 0..MaxStarts
  BY <1>1, CommandTypes DEF IInv
<1>3. TypeOK'
  BY <1>1, <1>2 DEF IInv, TypeOK
<1>4. Selecting' /\ Undone'
  BY <1>1, <1>2, SelectingIsOver DEF Undone
<1>5. SelectionIsTheRule' /\ Recorded'
  BY <1>1, SelectionKept, RecordedKept DEF IInv
<1>. QED
  BY <1>3, <1>4, <1>5 DEF IInv

\* Between the start and the end of a process, a step that writes no line.
LEMMA AskingHolds ==
  ASSUME IInv, pc \in {"judging", "storing", "recording"}, pc' \in {"judging", "storing", "recording"},
         records' = records, starts' = starts, cases' = cases, command' = command,
         judgments' = judgments, pool' = pool, chosen' = chosen, todo' = todo,
         \A row \in cache' : row.verdict \in Scores \cup {None},
         reply' \in [status : {"ok", "cached", "RATE_LIMITED", "error", None},
                     verdict : Scores \cup {None}]
  PROVE  IInv'
<1>1. TypeOK'
  BY DEF IInv, TypeOK
<1>2. Selecting'
  BY SelectingIsOver
<1>3. SelectionIsTheRule' /\ Recorded' /\ Undone'
  BY SelectionKept, RecordedKept DEF IInv, Undone
<1>. QED
  BY <1>1, <1>2, <1>3 DEF IInv

LEMMA SleepHolds == IInv /\ Sleep => IInv'
<1>. SUFFICES ASSUME IInv, Sleep PROVE IInv'
  OBVIOUS
<1>1. /\ pc = "judging" /\ pc' = pc /\ records' = records /\ starts' = starts /\ cases' = cases
      /\ command' = command /\ judgments' = judgments /\ cache' = cache /\ pool' = pool
      /\ chosen' = chosen /\ todo' = todo /\ reply' = reply
  BY DEF Sleep, files, selecting
<1>2. /\ \A row \in cache' : row.verdict \in Scores \cup {None}
      /\ reply' \in [status : {"ok", "cached", "RATE_LIMITED", "error", None},
                     verdict : Scores \cup {None}]
  BY <1>1 DEF IInv, TypeOK
<1>. QED
  BY <1>1, <1>2, AskingHolds

LEMMA AskCachedHolds == IInv /\ AskCached => IInv'
<1>. SUFFICES ASSUME IInv, AskCached PROVE IInv'
  OBVIOUS
<1>1. PICK row \in Stored : reply' = [status |-> "cached", verdict |-> row.verdict]
  BY DEF AskCached, Replied
<1>2. /\ pc = "judging" /\ pc' = "recording" /\ records' = records /\ starts' = starts
      /\ cases' = cases /\ command' = command /\ judgments' = judgments /\ cache' = cache
      /\ pool' = pool /\ chosen' = chosen /\ todo' = todo
  BY DEF AskCached, Asking, Replied, selecting
<1>3. row \in cache /\ \A r \in cache : r.verdict \in Scores \cup {None}
  BY DEF Stored, IInv, TypeOK
<1>. QED
  BY <1>1, <1>2, <1>3, AskingHolds

LEMMA AskModelHolds == IInv /\ AskModel => IInv'
<1>. SUFFICES ASSUME IInv, AskModel PROVE IInv'
  OBVIOUS
<1>1. PICK v \in Scores \cup {None} : reply' = [status |-> "ok", verdict |-> v]
  BY DEF AskModel, Replied
<1>2. /\ pc = "judging" /\ pc' = "storing" /\ records' = records /\ starts' = starts
      /\ cases' = cases /\ command' = command /\ judgments' = judgments /\ cache' = cache
      /\ pool' = pool /\ chosen' = chosen /\ todo' = todo
  BY DEF AskModel, Asking, Replied, selecting
<1>3. \A r \in cache' : r.verdict \in Scores \cup {None}
  BY <1>2 DEF IInv, TypeOK
<1>. QED
  BY <1>1, <1>2, <1>3, AskingHolds

LEMMA StoreHolds == IInv /\ Store => IInv'
<1>. SUFFICES ASSUME IInv, Store PROVE IInv'
  OBVIOUS
<1>1. /\ pc = "storing" /\ pc' = "recording" /\ records' = records /\ starts' = starts
      /\ cases' = cases /\ command' = command /\ judgments' = judgments
      /\ pool' = pool /\ chosen' = chosen /\ todo' = todo /\ reply' = reply
      /\ cache' = cache \cup {[answer |-> Asked, verdict |-> reply.verdict]}
  BY DEF Store, selecting, judging
<1>2. /\ \A row \in cache : row.verdict \in Scores \cup {None}
      /\ reply \in [status : {"ok", "cached", "RATE_LIMITED", "error", None},
                    verdict : Scores \cup {None}]
  BY DEF IInv, TypeOK
<1>3. \A row \in cache' : row.verdict \in Scores \cup {None}
  BY <1>1, <1>2
<1>. QED
  BY <1>1, <1>2, <1>3, AskingHolds

LEMMA AskFailsHolds == IInv /\ AskFails => IInv'
<1>. SUFFICES ASSUME IInv, AskFails PROVE IInv'
  OBVIOUS
<1>1. PICK status \in {"RATE_LIMITED", "error"} : reply' = [status |-> status, verdict |-> None]
  BY DEF AskFails, Replied
<1>2. /\ pc = "judging" /\ pc' = "recording" /\ records' = records /\ starts' = starts
      /\ cases' = cases /\ command' = command /\ judgments' = judgments /\ cache' = cache
      /\ pool' = pool /\ chosen' = chosen /\ todo' = todo
  BY DEF AskFails, Asking, Replied, selecting
<1>3. \A r \in cache' : r.verdict \in Scores \cup {None}
  BY <1>2 DEF IInv, TypeOK
<1>. QED
  BY <1>1, <1>2, <1>3, AskingHolds

LEMMA RecordedGrows ==
  ASSUME Recorded, judgments \in Seq(Lines), cases # None, cases' = cases,
         NEW e \in Lines, judgments' = Append(judgments, e),
         e.status = "ok" => e.key \in ToSet(cases) /\ e.key \notin Done(judgments)
  PROVE  Recorded'
<1>. DEFINE n == Len(judgments)
<1>1. /\ n \in Nat /\ DOMAIN judgments = 1..n /\ DOMAIN judgments' = 1..n + 1
      /\ \A i \in 1..n : judgments'[i] = judgments[i]
      /\ judgments'[n + 1] = e
      /\ \A i : i \in 1..n + 1 <=> i \in 1..n \/ i = n + 1
  BY AppendedTo
<1>. HIDE DEF n
<1>2. \A i \in 1..n : judgments[i].status = "ok" =>
        judgments[i].key \in ToSet(cases) /\ judgments[i].key \in Done(judgments)
  BY <1>1 DEF Recorded, Done, ToSet
<1>3. \A i \in DOMAIN judgments' : judgments'[i].status = "ok" => judgments'[i].key \in ToSet(cases')
  BY <1>1, <1>2
<1>4. ASSUME NEW i \in 1..n + 1, NEW j \in 1..n + 1,
             judgments'[i].status = "ok", judgments'[j].status = "ok",
             judgments'[i].key = judgments'[j].key
      PROVE  i = j
  <2>1. CASE i \in 1..n /\ j \in 1..n
    BY <1>1, <1>4, <2>1 DEF Recorded
  <2>2. CASE i \in 1..n /\ j = n + 1
    BY <1>1, <1>2, <1>4, <2>2
  <2>3. CASE i = n + 1 /\ j \in 1..n
    BY <1>1, <1>2, <1>4, <2>3
  <2>. QED
    BY <1>1, <2>1, <2>2, <2>3
<1>. QED
  BY <1>1, <1>3, <1>4 DEF Recorded

\* The line of a verdict is of the case in hand, which had none.
LEMMA LineOfRecord ==
  ASSUME IInv, pc = "recording"
  PROVE  /\ Line \in Lines /\ Line.key = InHand /\ Line.status \in {"ok", "error"}
         /\ InHand \in Keys /\ InHand \in ToSet(cases) /\ InHand \notin Done(judgments)
         /\ Min(todo) \in todo /\ cases \in Seq(Keys) /\ cases # None /\ InHand = cases[Min(todo)]
         /\ todo \subseteq DOMAIN cases
<1>1. todo # {} /\ cases # None
  BY DEF IInv, TypeOK
<1>2. /\ Min(todo) \in todo /\ cases \in Seq(Keys) /\ todo \subseteq DOMAIN cases
      /\ InHand = cases[Min(todo)] /\ InHand \in Keys /\ InHand \in ToSet(cases)
  BY <1>1, InHandIsACase DEF IInv
<1>3. InHand \notin Done(judgments)
  BY <1>2 DEF IInv, Undone
<1>4. Line.key = InHand /\ Line.status \in {"ok", "error"}
  BY DEF Line
<1>5. reply.verdict \in Scores \cup {None}
  BY DEF IInv, TypeOK
<1>6. Line \in Lines
  BY <1>2, <1>5 DEF Line, Lines
<1>. QED
  BY <1>1, <1>2, <1>3, <1>4, <1>6

LEMMA RecordHolds == IInv /\ Record => IInv'
<1>. SUFFICES ASSUME IInv, Record PROVE IInv'
  OBVIOUS
<1>1. /\ pc = "recording" /\ judgments' = Append(judgments, Line) /\ records' = records
      /\ starts' = starts /\ cases' = cases /\ command' = command /\ cache' = cache
  BY DEF Record
<1>2. /\ Line \in Lines /\ Line.key = InHand /\ Line.status \in {"ok", "error"}
      /\ InHand \in Keys /\ InHand \in ToSet(cases) /\ InHand \notin Done(judgments)
      /\ Min(todo) \in todo /\ cases \in Seq(Keys) /\ cases # None /\ InHand = cases[Min(todo)]
      /\ todo \subseteq DOMAIN cases
  BY <1>1, LineOfRecord
<1>3. judgments \in Seq(Lines)
  BY DEF IInv, TypeOK, Lines
<1>4. Recorded' /\ judgments' \in Seq(Lines)
  BY <1>1, <1>2, <1>3, RecordedGrows, AppendedTo DEF IInv
<1>5. SelectionIsTheRule'
  BY <1>1, SelectionKept DEF IInv
<1>6. CASE Idle
  <2>1. /\ pc' = "down" /\ pool' = {} /\ chosen' \in Seq(Keys) /\ todo' = {}
        /\ reply' \in [status : {"ok", "cached", "RATE_LIMITED", "error", None},
                       verdict : Scores \cup {None}]
        /\ Selecting' /\ Undone'
    BY <1>6, IdleTypes
  <2>2. TypeOK'
    BY <1>1, <1>4, <2>1 DEF IInv, TypeOK, Lines
  <2>. QED
    BY <1>4, <1>5, <2>1, <2>2 DEF IInv
<1>7. CASE /\ todo # {Min(todo)} /\ pc' = "judging" /\ todo' = todo \ {Min(todo)}
           /\ reply' = NoReply /\ pool' = pool /\ chosen' = chosen
  <2>1. reply' \in [status : {"ok", "cached", "RATE_LIMITED", "error", None},
                    verdict : Scores \cup {None}]
    BY <1>7 DEF NoReply
  <2>2. todo' # {}
    BY <1>2, <1>7
  <2>3. TypeOK'
    BY <1>1, <1>2, <1>4, <1>7, <2>1, <2>2 DEF IInv, TypeOK, Lines
  <2>4. Selecting'
    BY <1>7, SelectingIsOver
  <2>5. Undone'
    <3>. SUFFICES ASSUME NEW i \in todo' PROVE cases[i] \notin Done(judgments')
      BY <1>1 DEF Undone
    <3>1. i \in todo /\ i # Min(todo) /\ cases[i] \notin Done(judgments)
      BY <1>7 DEF IInv, Undone
    <3>2. cases[i] # InHand
      <4>1. InOrder(cases)
        BY <1>2, CasesInOrder DEF IInv
      <4>2. i \in DOMAIN cases /\ Min(todo) \in DOMAIN cases
        BY <1>2, <3>1
      <4>. QED
        BY <1>2, <3>1, <4>1, <4>2, OrderedIsOnce
    <3>3. Done(judgments') \subseteq Done(judgments) \cup {InHand}
      <4>1. Done(judgments') = IF Line.status = "ok" THEN Done(judgments) \cup {Line.key}
                               ELSE Done(judgments)
        BY <1>1, <1>2, <1>3, LineAdded
      <4>. QED
        BY <1>2, <4>1
    <3>. QED
      BY <3>1, <3>2, <3>3
  <2>. QED
    BY <1>4, <1>5, <2>3, <2>4, <2>5 DEF IInv
<1>8. \/ Idle
      \/ /\ todo # {Min(todo)} /\ pc' = "judging" /\ todo' = todo \ {Min(todo)}
         /\ reply' = NoReply /\ pool' = pool /\ chosen' = chosen
  BY DEF Record, selecting
<1>. QED
  BY <1>6, <1>7, <1>8

LEMMA CrashHolds == IInv /\ Crash => IInv'
<1>. SUFFICES ASSUME IInv, Crash PROVE IInv'
  OBVIOUS
<1>1. /\ Idle /\ records' = records /\ starts' = starts /\ cases' = cases /\ command' = command
      /\ judgments' = judgments /\ cache' = cache
  BY DEF Crash, files
<1>2. /\ pc' = "down" /\ pool' = {} /\ chosen' \in Seq(Keys) /\ todo' = {}
      /\ reply' \in [status : {"ok", "cached", "RATE_LIMITED", "error", None},
                     verdict : Scores \cup {None}]
      /\ Selecting' /\ Undone'
  BY <1>1, IdleTypes
<1>3. TypeOK'
  BY <1>1, <1>2 DEF IInv, TypeOK
<1>4. SelectionIsTheRule' /\ Recorded'
  BY <1>1, SelectionKept, RecordedKept DEF IInv
<1>. QED
  BY <1>2, <1>3, <1>4 DEF IInv

LEMMA CrashInAppendHolds == IInv /\ CrashInAppend => IInv'
<1>. SUFFICES ASSUME IInv, CrashInAppend PROVE IInv'
  OBVIOUS
<1>1. /\ pc = "recording" /\ Idle /\ judgments' = Append(judgments, TornLine)
      /\ records' = records /\ starts' = starts /\ cases' = cases /\ command' = command
      /\ cache' = cache
  BY DEF CrashInAppend
<1>2. /\ pc' = "down" /\ pool' = {} /\ chosen' \in Seq(Keys) /\ todo' = {}
      /\ reply' \in [status : {"ok", "cached", "RATE_LIMITED", "error", None},
                     verdict : Scores \cup {None}]
      /\ Selecting' /\ Undone'
  BY <1>1, IdleTypes
<1>3. TornLine \in Lines /\ TornLine.status # "ok" /\ judgments \in Seq(Lines) /\ cases # None
  BY <1>1 DEF IInv, TypeOK, TornLine, Lines
<1>4. Recorded' /\ judgments' \in Seq(Lines)
  BY <1>1, <1>3, RecordedGrows, AppendedTo DEF IInv
<1>5. TypeOK'
  BY <1>1, <1>2, <1>4 DEF IInv, TypeOK, Lines
<1>6. SelectionIsTheRule'
  BY <1>1, SelectionKept DEF IInv
<1>. QED
  BY <1>2, <1>4, <1>5, <1>6 DEF IInv

LEMMA StutterHolds == IInv /\ UNCHANGED vars => IInv'
<1>. SUFFICES ASSUME IInv, UNCHANGED vars PROVE IInv'
  OBVIOUS
<1>1. /\ records' = records /\ starts' = starts /\ cases' = cases /\ command' = command
      /\ judgments' = judgments /\ cache' = cache /\ pc' = pc /\ pool' = pool /\ chosen' = chosen
      /\ todo' = todo /\ reply' = reply /\ called' = called
  BY DEF vars, files, selecting, judging
<1>2. TypeOK' /\ Recorded' /\ Undone' /\ SelectionIsTheRule'
  BY <1>1, SelectionKept, RecordedKept DEF IInv, TypeOK, Undone
<1>3. Selecting'
  <2>1. All' = All /\ Looked' = Looked
    BY <1>1 DEF All, Looked, Judgeable, Repeats
  <2>2. \A k : (Rule(k)' <=> Rule(k)) /\ OfTierOf(Looked, k)' = OfTierOf(Looked, k)
               /\ Taken(records[k].tier)' = Taken(records[k].tier)
    BY <1>1, <2>1 DEF Rule, Earlier, OfTierOf, Taken
  <2>3. pc = "selecting" => Selecting'
    BY <1>1, <2>1, <2>2 DEF IInv, Selecting, InOrder
  <2>. QED
    BY <1>1, <2>3, SelectingIsOver
<1>. QED
  BY <1>2, <1>3 DEF IInv

LEMMA StepHolds == IInv /\ [Next]_vars => IInv'
  BY BuildHolds, ChooseHolds, WriteCasesHolds, StartHolds, StartRaisesHolds, SleepHolds,
     AskCachedHolds, AskModelHolds, StoreHolds, AskFailsHolds, RecordHolds, CrashHolds, CrashInAppendHolds,
     StutterHolds DEF Next, Over

LEMMA Inductive == Spec => []IInv
  BY InitHolds, StepHolds, PTL DEF Spec

-----------------------------------------------------------------------------
(* What follows from it. *)

\* The files and the process keep to their ranges, over any kills.
THEOREM JudgeTypes == Spec => []TypeOK
  BY Inductive, PTL DEF IInv

\* calibration.py:8: the loop with its counters, however often it was killed and run again,
\* writes the cases its rule names, each once and in order.
THEOREM CasesAreTheRule == Spec => []SelectionIsTheRule
  BY Inductive, PTL DEF IInv

-----------------------------------------------------------------------------
(* The judge implements the ledger. *)

LastOf(I) == IF I = {} THEN None ELSE CHOOSE i \in I : \A j \in I : j <= i
graded == [k \in Keys |-> GradeOf(k)]

\* A line that is no verdict grades nothing; a verdict grades its own case, which had none.
LEMMA LineGrades ==
  ASSUME IInv, NEW e \in Lines, judgments' = Append(judgments, e),
         e.status = "ok" => e.key \in Keys /\ e.key \notin Done(judgments)
  PROVE  [Ledger!Next]_(graded)
<1>. DEFINE n == Len(judgments)
<1>1. judgments \in Seq(Lines) /\ n \in Nat
  BY DEF IInv, TypeOK, Lines
<1>2. \A k : OkLines(k)' = IF e.key = k /\ e.status = "ok" THEN OkLines(k) \cup {n + 1} ELSE OkLines(k)
  BY <1>1, LineAdded
<1>3. \A k \in Keys : ~(e.key = k /\ e.status = "ok") => GradeOf(k)' = GradeOf(k)
  <2>. SUFFICES ASSUME NEW k \in Keys, ~(e.key = k /\ e.status = "ok")
                PROVE  GradeOf(k)' = GradeOf(k)
    OBVIOUS
  <2>1. OkLines(k)' = OkLines(k)
    BY <1>2
  <2>2. GradeOf(k) = LastOf(OkLines(k)) /\ GradeOf(k)' = LastOf(OkLines(k)')
    BY DEF GradeOf, LastOf
  <2>. QED
    BY <2>1, <2>2
<1>4. CASE e.status # "ok"
  <2>1. graded' = graded
    BY <1>3, <1>4 DEF graded
  <2>. QED
    BY <2>1
<1>5. CASE e.status = "ok"
  <2>1. e.key \in Keys /\ OkLines(e.key) = {} /\ OkLines(e.key)' = {n + 1}
    BY <1>2, <1>5, DoneHasLine
  <2>2. GradeOf(e.key) = None
    BY <2>1 DEF GradeOf
  <2>3. GradeOf(e.key)' = n + 1
    <3>1. \A i \in {n + 1} : \A j \in {n + 1} : j <= i
      BY <1>1
    <3>2. (CHOOSE i \in {n + 1} : \A j \in {n + 1} : j <= i) = n + 1
      BY <3>1
    <3>3. GradeOf(e.key)' = CHOOSE i \in {n + 1} : \A j \in {n + 1} : j <= i
      BY <2>1 DEF GradeOf
    <3>. QED
      BY <3>2, <3>3
  <2>4. graded' = [graded EXCEPT ![e.key] = n + 1]
    BY <1>3, <1>5, <2>1, <2>3 DEF graded
  <2>5. graded[e.key] = None /\ graded'[e.key] = n + 1
    BY <2>1, <2>2, <2>3 DEF graded
  <2>6. n + 1 \in Nat
    BY <1>1
  <2>7. Ledger!Grade(e.key)
    BY <2>4, <2>5, <2>6 DEF Ledger!Grade, graded
  <2>. QED
    BY <2>1, <2>7 DEF Ledger!Next
<1>. QED
  BY <1>4, <1>5

LEMMA WritesOrNot ==
  ASSUME [Next]_vars
  PROVE  judgments' = judgments \/ Record \/ CrashInAppend
  BY DEF Next, vars, files, Over, Build, Choose, WriteCases, Start, StartRaises, Sleep, AskCached,
         AskModel, Store, AskFails, Replied, Crash

LEMMA StepIsLedger == IInv /\ [Next]_vars => [Ledger!Next]_(graded)
<1>. SUFFICES ASSUME IInv, [Next]_vars PROVE [Ledger!Next]_(graded)
  OBVIOUS
<1>1. CASE judgments' = judgments
  <2>1. graded' = graded
    BY <1>1 DEF graded, GradeOf, OkLines
  <2>. QED
    BY <2>1
<1>2. CASE Record
  <2>1. judgments' = Append(judgments, Line) /\ pc = "recording"
    BY <1>2 DEF Record
  <2>. QED
    BY <2>1, LineOfRecord, LineGrades
<1>3. CASE CrashInAppend
  <2>1. judgments' = Append(judgments, TornLine) /\ TornLine \in Lines /\ TornLine.status # "ok"
    BY <1>3 DEF CrashInAppend, TornLine, Lines
  <2>. QED
    BY <2>1, LineGrades
<1>. QED
  BY <1>1, <1>2, <1>3, WritesOrNot

\* response.py:9, run.py:13: over any kills and resumes a case is judged once, an invalid reply is
\* its verdict as any other, and no verdict is replaced or taken back.
THEOREM JudgeIsLedger == Spec => ImplementsLedger
<1>1. Init => Ledger!Init
  BY DEF Init, Ledger!Init, GradeOf, OkLines
<1>2. IInv /\ [Next]_vars => [Ledger!Next]_[k \in Keys |-> GradeOf(k)]
  BY StepIsLedger DEF graded
<1>. QED
  BY <1>1, <1>2, Inductive, PTL DEF Spec, ImplementsLedger, Ledger!Spec

-----------------------------------------------------------------------------
(* Trust is kept. *)

LEMMA CasesAndCommandStay ==
  ASSUME IInv, [Next]_vars, cases # None
  PROVE  cases' = cases /\ command' = command
<1>1. pc # "selecting"
  BY DEF IInv, Selecting
<1>. QED
  BY <1>1 DEF Next, vars, files, Over, Build, Choose, WriteCases, Start, StartRaises, Sleep,
         AskCached, AskModel, Store, AskFails, Replied, Record, Crash, CrashInAppend

\* A calibration case is the only one of its item.
LEMMA OneCaseOfAnItem ==
  ASSUME IInv, command = "build", cases # None,
         NEW j \in ToSet(cases), NEW k \in ToSet(cases), j[1] = k[1]
  PROVE  j = k
<1>1. \A m \in ToSet(cases) : m \in All
  BY DEF IInv, SelectionIsTheRule, All
<1>2. \A m \in All : m \in Keys /\ m[2] = 0
  <2>1. All \subseteq Keys
    BY AllAreKeys DEF IInv, TypeOK
  <2>. QED
    BY <2>1 DEF All, Judgeable, Repeats
<1>3. j = <<j[1], j[2]>> /\ k = <<k[1], k[2]>>
  BY <1>1, <1>2, KeyTypes
<1>. QED
  BY <1>1, <1>2, <1>3

VerdictOf(I) == judgments[Max(I)].verdict

\* A further line leaves the verdicts there are.
LEMMA VerdictStays ==
  ASSUME IInv, [Next]_vars, command = "build", cases # None,
         NEW id, Verdict(id) # None
  PROVE  Verdict(id)' = Verdict(id)
<1>. DEFINE I == VerdictLines(id)
            n == Len(judgments)
<1>1. judgments \in Seq(Lines) /\ n \in Nat /\ I # {} /\ DOMAIN judgments = 1..n /\ I \subseteq 1..n
  <2>1. judgments \in Seq(Lines) /\ I # {}
    BY DEF IInv, TypeOK, Lines, Verdict
  <2>. QED
    BY <2>1 DEF VerdictLines
<1>2. \A i \in I : \A j \in I : i = j
  <2>. SUFFICES ASSUME NEW i \in I, NEW j \in I PROVE i = j
    OBVIOUS
  <2>1. /\ i \in DOMAIN judgments /\ judgments[i].status = "ok" /\ judgments[i].key[1] = id
        /\ j \in DOMAIN judgments /\ judgments[j].status = "ok" /\ judgments[j].key[1] = id
    BY DEF VerdictLines
  <2>2. judgments[i].key \in ToSet(cases) /\ judgments[j].key \in ToSet(cases)
    BY <2>1 DEF IInv, Recorded
  <2>3. judgments[i].key = judgments[j].key
    BY <2>1, <2>2, OneCaseOfAnItem
  <2>. QED
    BY <2>1, <2>3 DEF IInv, Recorded
<1>3. Max(I) \in I
  <2>1. PICK i \in I : TRUE
    BY <1>1
  <2>2. i \in Nat /\ \A j \in I : i >= j
    BY <1>1, <1>2
  <2>. QED
    BY <2>1, <2>2 DEF Max
<1>4. CASE judgments' = judgments
  BY <1>4 DEF Verdict, VerdictLines
<1>5. ASSUME NEW e \in Lines, judgments' = Append(judgments, e), ~(e.status = "ok" /\ e.key[1] = id)
      PROVE  Verdict(id)' = Verdict(id)
  <2>1. /\ DOMAIN judgments' = 1..n + 1
        /\ \A i \in 1..n : judgments'[i] = judgments[i]
        /\ judgments'[n + 1] = e
        /\ \A i : i \in 1..n + 1 <=> i \in 1..n \/ i = n + 1
    BY <1>1, <1>5, AppendedTo
  <2>2. I' = I
    BY <1>1, <1>5, <2>1 DEF VerdictLines
  <2>3. Verdict(id) = judgments[Max(I)].verdict /\ Verdict(id)' = judgments'[Max(I)].verdict
    BY <1>1, <2>2 DEF Verdict
  <2>4. judgments'[Max(I)] = judgments[Max(I)]
    BY <1>1, <1>3, <2>1
  <2>. QED
    BY <2>3, <2>4
<1>6. CASE Record
  <2>1. judgments' = Append(judgments, Line) /\ pc = "recording"
    BY <1>6 DEF Record
  <2>2. Line \in Lines /\ Line.key = InHand /\ InHand \in ToSet(cases) /\ InHand \notin Done(judgments)
    BY <2>1, LineOfRecord
  <2>3. InHand[1] # id
    <3>. SUFFICES ASSUME InHand[1] = id PROVE FALSE
      OBVIOUS
    <3>1. PICK i \in I : TRUE
      BY <1>1
    <3>2. i \in DOMAIN judgments /\ judgments[i].status = "ok" /\ judgments[i].key[1] = id
      BY DEF VerdictLines
    <3>3. judgments[i].key \in ToSet(cases)
      BY <3>2 DEF IInv, Recorded
    <3>4. judgments[i].key = InHand
      BY <2>2, <3>2, <3>3, OneCaseOfAnItem
    <3>5. judgments[i].key \in Done(judgments)
      BY <3>2 DEF Done, ToSet
    <3>. QED
      BY <2>2, <3>4, <3>5
  <2>. QED
    BY <1>5, <2>1, <2>2, <2>3
<1>7. CASE CrashInAppend
  <2>1. judgments' = Append(judgments, TornLine) /\ TornLine \in Lines /\ TornLine.status # "ok"
    BY <1>7 DEF CrashInAppend, TornLine, Lines
  <2>. QED
    BY <1>5, <2>1
<1>. QED
  BY <1>4, <1>6, <1>7, WritesOrNot

LEMMA LabelledAreFinite ==
  ASSUME TypeOK, cases # None
  PROVE  IsFiniteSet(LabelledItems)
<1>. DEFINE f == [i \in DOMAIN cases |-> cases[i][1]]
            n == Len(cases)
<1>1. n \in Nat /\ DOMAIN cases = 1..n
  BY DEF TypeOK
<1>2. DOMAIN f = 1..n /\ f = [i \in 1..n |-> f[i]]
  BY <1>1
<1>3. IsFiniteSet({f[i] : i \in 1..n})
  <2>. HIDE DEF f
  <2>. QED
    BY <1>1, <1>2, FinitelyMany
<1>4. LabelledItems = {f[i] : i \in 1..n}
  BY <1>1 DEF LabelledItems
<1>. QED
  BY <1>3, <1>4

LEMMA StepKeepsTrust == IInv /\ [Next]_vars => (Trusted /\ Readable' => Trusted')
<1>. SUFFICES ASSUME IInv, [Next]_vars, Trusted, Readable' PROVE Trusted'
  OBVIOUS
<1>1. /\ cases # None /\ command = "build" /\ Counted # {}
      /\ 100 * Cardinality(WithinOne) >= WithinOneMin * Cardinality(Counted)
      /\ 100 * Cardinality(PassMatch) >= PassMatchMin * Cardinality(Counted)
  BY DEF Trusted
<1>2. cases' = cases /\ command' = command
  BY <1>1, CasesAndCommandStay
<1>3. LabelledItems' = LabelledItems /\ Counted' = Counted
  BY <1>2 DEF LabelledItems, Counted
<1>4. \A id \in Judged : Verdict(id)' = Verdict(id) /\ Verdict(id)' # None
  BY <1>1, VerdictStays DEF Judged
<1>5. Judged \subseteq Judged'
  BY <1>3, <1>4 DEF Judged
<1>6. WithinOne \subseteq WithinOne' /\ PassMatch \subseteq PassMatch'
  BY <1>4, <1>5 DEF WithinOne, PassMatch
<1>7. IsFiniteSet(WithinOne') /\ IsFiniteSet(PassMatch')
  <2>1. IsFiniteSet(LabelledItems')
    BY <1>1, <1>3, LabelledAreFinite DEF IInv
  <2>2. WithinOne' \subseteq LabelledItems' /\ PassMatch' \subseteq LabelledItems'
    BY DEF WithinOne, PassMatch, Judged
  <2>. QED
    BY <2>1, <2>2, FS_Subset
<1>8. /\ Cardinality(WithinOne) \in Nat /\ Cardinality(WithinOne') \in Nat
      /\ Cardinality(WithinOne) <= Cardinality(WithinOne')
      /\ Cardinality(PassMatch) \in Nat /\ Cardinality(PassMatch') \in Nat
      /\ Cardinality(PassMatch) <= Cardinality(PassMatch')
  BY <1>6, <1>7, FS_Subset, FS_CardinalityType
<1>9. Cardinality(Counted) \in Nat
  BY <1>1, LabelledAreFinite, FS_CardinalityType DEF IInv, Counted
<1>. DEFINE w == WithinOneMin * Cardinality(Counted)
            p == PassMatchMin * Cardinality(Counted)
<1>10. w \in Nat /\ p \in Nat
  BY <1>9, SharesAssumption
<1>11. /\ WithinOneMin * Cardinality(Counted') = w
       /\ PassMatchMin * Cardinality(Counted') = p
  BY <1>3
<1>. HIDE DEF w, p
<1>12. 100 * Cardinality(WithinOne') >= w
  <2>1. 100 * Cardinality(WithinOne) >= w
    BY <1>1 DEF w
  <2>. QED
    BY <1>8, <1>10, <2>1
<1>13. 100 * Cardinality(PassMatch') >= p
  <2>1. 100 * Cardinality(PassMatch) >= p
    BY <1>1 DEF p
  <2>. QED
    BY <1>8, <1>10, <2>1
<1>. QED
  BY <1>1, <1>2, <1>3, <1>11, <1>12, <1>13 DEF Trusted

\* calibration.py:14, :221: a verdict that is missing counts against a criterion, and one that
\* comes later replaces none: what is trusted on a run that was interrupted stays trusted, as
\* long as no line is torn.
THEOREM TrustStays == Spec => TrustIsKept
<1>1. IInv /\ [Next]_vars => [Trusted /\ Readable' => Trusted']_vars
  BY StepKeepsTrust
<1>. QED
  BY <1>1, Inductive, PTL DEF Spec, TrustIsKept
=============================================================================
