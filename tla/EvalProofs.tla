----------------------------- MODULE EvalProofs -----------------------------
(***************************************************************************)
(* Proofs about the evaluation.  The resumable runner (EvalRunner): for    *)
(* any repeats, items, turns and candidates, and any number of kills and   *)
(* resumes.  The grader (Grading): for any rows of any values.  The report *)
(* and the ranking (Selection): for any runs, records, catalog snapshots   *)
(* and boards, with the sums over finite sets that the factors are.        *)
(***************************************************************************)
EXTENDS EvalRunner, Grading, Selection, FiniteSetTheorems, SequenceTheorems, TLAPS

-----------------------------------------------------------------------------
(* The runner: its inductive invariant. *)

\* A process that is up knows its model, reads whole lines, and has its keys still to do apart
\* from those that are done; every other key is done or was tried.
Up ==
  pc # "down" =>
    /\ model \in Models /\ ~Torn
    /\ todo \cap Done(results) = {}
    /\ \A k \in Keys : k \in todo \/ k \in tried \/ OkLines(k) # {}

\* Calls are numbered as they are answered; the caches hold what was paid for, and all of it
\* that was stored.
Bought ==
  /\ IsFiniteSet(spent) /\ stored \subseteq 1..Cardinality(spent)
  /\ \A s, t \in spent : s.call = t.call => s = t
  /\ \A s \in spent :
       /\ s.key \in Keys /\ s.question.item = s.key[2] /\ s.call \in 1..Cardinality(spent)
       /\ s.call \in stored =>
            \E row \in cache :
              row.file = s.key[1] /\ row.model = s.model /\ row.question = s.question
  /\ \A row \in cache :
       \E s \in spent :
         /\ s.call = row.call /\ s.key = <<row.file, row.question.item>>
         /\ s.model = row.model /\ s.question = row.question

\* The call answered the last turn of the key, and the model was asked.
Answer(call, k, m) ==
  \E s \in spent : s.call = call /\ s.key = k /\ s.model = m /\ s.question.turn = Turns[k[2]]

\* The call answered the question the process is at.
Asked(call) ==
  \E s \in spent : s.call = call /\ s.key = Key /\ s.model = model /\ s.question = Question

\* An answer that is not stored yet is the last one there is.
Held ==
  /\ pc = "recording" /\ reply.code = None => Answer(reply.call, Key, model)
  /\ pc = "storing" => Asked(reply.call) /\ reply.call = Cardinality(spent)

\* A line is torn, or of a key; an answer is the last line of its key.
Sound(lines) ==
  /\ \A i \in DOMAIN lines :
       lines[i] = TornLine \/ (lines[i].key \in Keys /\ lines[i].status \in {"ok", "error"})
  /\ \A i, j \in DOMAIN lines :
       lines[i].status = "ok" /\ i < j => lines[j].key # lines[i].key

Graded ==
  /\ Sound(results)
  /\ \A i \in DOMAIN results :
       results[i].status = "ok" => Answer(results[i].call, results[i].key, results[i].model)

\* What the third property says of a report made of these lines.
Tells(made, lines) ==
  /\ made.records = {line \in Range(lines) : line.status = "ok"}
  /\ Cardinality(made.records) = Cardinality(Done(lines))
  /\ {line.key : line \in made.errors} = Recorded(lines) \ Done(lines)

Told ==
  report # None =>
    report.upto \in 0..Len(results) /\ Tells(report, SubSeq(results, 1, report.upto))

IInv == TypeOK /\ Up /\ Bought /\ Held /\ Graded /\ Told

-----------------------------------------------------------------------------
(* Numbers and keys. *)

LEMMA LeastNat ==
  ASSUME NEW T \in SUBSET Nat, T # {}
  PROVE  \E x \in T : \A y \in T : x <= y
<1>1. PICK x \in T : \A y \in T : ~(<<y, x>> \in OpToRel(<, Nat))
  BY NatLessThanWellFounded, WFMin
<1>2. \A y \in T : ~(y < x)
  BY <1>1 DEF OpToRel
<1>. QED
  BY <1>2

LEMMA GreatestNat ==
  ASSUME NEW n \in Nat, NEW I \in SUBSET (1..n), I # {}
  PROVE  \E i \in I : \A j \in I : j <= i
<1>. DEFINE T == {m \in Nat : n - m \in I}
<1>1. T # {}
  <2>1. PICK i \in I : TRUE
    OBVIOUS
  <2>2. n - i \in T
    BY <2>1
  <2>. QED
    BY <2>2
<1>2. PICK x \in T : \A y \in T : x <= y
  BY <1>1, LeastNat
<1>3. \A j \in I : n - j \in T
  OBVIOUS
<1>. QED
  BY <1>2, <1>3

LEMMA FirstIsOneOfThem ==
  ASSUME NEW keys \in SUBSET Keys, keys # {}
  PROVE  First(keys) \in keys
<1>1. \A k \in keys : k[1] \in Nat /\ k[2] \in Nat
  <2>1. \A k \in Repeats \X Items : k[1] \in Repeats /\ k[2] \in Items
    OBVIOUS
  <2>. QED
    BY <2>1, NumbersAssumption DEF Keys
<1>. DEFINE R == {k[1] : k \in keys}
<1>2. PICK r \in R : \A y \in R : r <= y
  <2>1. R \in SUBSET Nat /\ R # {}
    BY <1>1
  <2>. QED
    BY <2>1, LeastNat
<1>. DEFINE I == {k[2] : k \in {l \in keys : l[1] = r}}
<1>3. PICK i \in I : \A y \in I : i <= y
  <2>1. I \in SUBSET Nat /\ I # {}
    BY <1>1, <1>2
  <2>. QED
    BY <2>1, LeastNat
<1>4. PICK k \in keys : k[1] = r /\ k[2] = i
  BY <1>3
<1>5. \A j \in keys : k[1] < j[1] \/ (k[1] = j[1] /\ k[2] <= j[2])
  <2>. SUFFICES ASSUME NEW j \in keys
                PROVE  k[1] < j[1] \/ (k[1] = j[1] /\ k[2] <= j[2])
    OBVIOUS
  <2>1. r <= j[1] /\ (j[1] = r => i <= j[2])
    BY <1>2, <1>3
  <2>. QED
    BY <1>1, <1>4, <2>1
<1>. QED
  BY <1>4, <1>5 DEF First

LEMMA KeysAreFinite == IsFiniteSet(Keys)
  BY KeysAssumption, FS_Product DEF Keys

LEMMA KeyIsOneOfThem ==
  ASSUME TypeOK, pc \in {"asking", "storing", "recording"}
  PROVE  /\ Key \in todo /\ Key \in Keys /\ Key[1] \in Repeats /\ Key[2] \in Items
         /\ Key = <<Key[1], Key[2]>> /\ Turns[Key[2]] \in Nat \ {0}
<1>1. todo # {} /\ todo \in SUBSET Keys
  BY DEF TypeOK
<1>2. Key \in todo /\ Key \in Keys
  BY <1>1, FirstIsOneOfThem DEF Key
<1>3. Key \in Repeats \X Items
  BY <1>2 DEF Keys
<1>4. Key[1] \in Repeats /\ Key[2] \in Items /\ Key = <<Key[1], Key[2]>>
  BY <1>3
<1>5. Turns[Key[2]] \in Nat \ {0}
  BY <1>4, TurnsAssumption
<1>. QED
  BY <1>2, <1>4, <1>5

-----------------------------------------------------------------------------
(* Lines. *)

LEMMA Appended ==
  ASSUME NEW lines \in Seq(Lines), NEW e \in Lines
  PROVE  /\ Append(lines, e) \in Seq(Lines) /\ Len(Append(lines, e)) = Len(lines) + 1
         /\ Len(lines) \in Nat /\ DOMAIN lines = 1..Len(lines)
         /\ DOMAIN Append(lines, e) = 1..Len(lines) + 1
         /\ \A i \in 1..Len(lines) : Append(lines, e)[i] = lines[i]
         /\ Append(lines, e)[Len(lines) + 1] = e
  OBVIOUS

LEMMA Prefix ==
  ASSUME NEW lines \in Seq(Lines), NEW n \in 0..Len(lines)
  PROVE  /\ SubSeq(lines, 1, n) \in Seq(Lines) /\ Len(SubSeq(lines, 1, n)) = n
         /\ \A i \in 1..n : SubSeq(lines, 1, n)[i] = lines[i]
<1>1. \A i \in 1..n : lines[i] \in Lines
  BY ElementOfSeq
<1>. QED
  BY <1>1, SubSeqProperties

LEMMA PrefixKept ==
  ASSUME NEW lines \in Seq(Lines), NEW e \in Lines, NEW n \in 0..Len(lines)
  PROVE  SubSeq(Append(lines, e), 1, n) = SubSeq(lines, 1, n)
<1>1. Append(lines, e) \in Seq(Lines) /\ n \in 0..Len(Append(lines, e))
  BY Appended
<1>2. \A i \in 1..n : Append(lines, e)[i] = lines[i]
  BY Appended
<1>3. \A i \in 1..n : SubSeq(Append(lines, e), 1, n)[i] = SubSeq(lines, 1, n)[i]
  BY <1>1, <1>2, Prefix
<1>4. /\ SubSeq(Append(lines, e), 1, n) \in Seq(Lines) /\ SubSeq(lines, 1, n) \in Seq(Lines)
      /\ Len(SubSeq(Append(lines, e), 1, n)) = n /\ Len(SubSeq(lines, 1, n)) = n
  BY <1>1, Prefix
<1>. QED
  BY <1>3, <1>4, SeqEqual

\* What a further line adds.
LEMMA LineAdded ==
  ASSUME results \in Seq(Lines), NEW e \in Lines, results' = Append(results, e)
  PROVE  /\ \A k : OkLines(k)' = IF e.key = k /\ e.status = "ok"
                                THEN OkLines(k) \cup {Len(results) + 1} ELSE OkLines(k)
         /\ Range(results') = Range(results) \cup {e}
         /\ Done(results') = IF e.status = "ok" THEN Done(results) \cup {e.key} ELSE Done(results)
<1>. DEFINE n == Len(results)
<1>1. /\ n \in Nat /\ DOMAIN results = 1..n /\ DOMAIN results' = 1..n + 1
      /\ \A i \in 1..n : results'[i] = results[i]
      /\ results'[n + 1] = e
  BY Appended
<1>2. \A i : i \in 1..n + 1 <=> i \in 1..n \/ i = n + 1
  BY <1>1
<1>3. \A k : OkLines(k)' = IF e.key = k /\ e.status = "ok"
                          THEN OkLines(k) \cup {n + 1} ELSE OkLines(k)
  BY <1>1, <1>2 DEF OkLines
<1>4. Range(results') = Range(results) \cup {e}
  <2>. HIDE DEF n
  <2>1. \A l : l \in Range(results') <=> \E i \in 1..n + 1 : l = results'[i]
    BY <1>1 DEF Range
  <2>2. \A l : l \in Range(results) <=> \E i \in 1..n : l = results[i]
    BY <1>1 DEF Range
  <2>3. \A l : l \in Range(results') <=> l \in Range(results) \/ l = e
    BY <2>1, <2>2, <1>1, <1>2
  <2>. QED
    BY <2>3
<1>5. Done(results') = IF e.status = "ok" THEN Done(results) \cup {e.key} ELSE Done(results)
  BY <1>4 DEF Done
<1>. QED
  BY <1>3, <1>4, <1>5

LEMMA DoneHasLine ==
  ASSUME NEW k
  PROVE  k \in Done(results) <=> OkLines(k) # {}
  BY DEF Done, OkLines, Range

LEMMA SoundKept ==
  ASSUME results \in Seq(Lines), Sound(results), NEW e \in Lines, results' = Append(results, e),
         e = TornLine \/ (e.key \in Keys /\ e.status \in {"ok", "error"} /\ e.key \notin Done(results))
  PROVE  Sound(results')
<1>. DEFINE n == Len(results)
<1>1. /\ n \in Nat /\ DOMAIN results = 1..n /\ DOMAIN results' = 1..n + 1
      /\ \A i \in 1..n : results'[i] = results[i]
      /\ results'[n + 1] = e
  BY Appended
<1>2. \A i \in 1..n + 1 : i \in 1..n \/ i = n + 1
  BY <1>1
<1>3. \A i \in 1..n : results[i].status = "ok" => results[i].key # e.key
  <2>. SUFFICES ASSUME NEW i \in 1..n, results[i].status = "ok"
                PROVE  results[i].key # e.key
    OBVIOUS
  <2>1. results[i] # TornLine
    BY DEF TornLine
  <2>2. results[i].key \in Keys
    BY <1>1, <2>1 DEF Sound
  <2>3. e = TornLine => e.key = None
    BY DEF TornLine
  <2>4. results[i].key \in Done(results)
    BY <1>1 DEF Done, Range
  <2>. QED
    BY <2>2, <2>3, <2>4, NoneAssumption
<1>4. \A i \in DOMAIN results' :
        results'[i] = TornLine \/ (results'[i].key \in Keys /\ results'[i].status \in {"ok", "error"})
  BY <1>1, <1>2 DEF Sound
<1>5. \A i, j \in DOMAIN results' :
        results'[i].status = "ok" /\ i < j => results'[j].key # results'[i].key
  <2>. SUFFICES ASSUME NEW i \in 1..n + 1, NEW j \in 1..n + 1, results'[i].status = "ok", i < j
                PROVE  results'[j].key # results'[i].key
    BY <1>1
  <2>1. i \in 1..n
    BY <1>1
  <2>2. CASE j \in 1..n
    BY <1>1, <2>1, <2>2 DEF Sound
  <2>3. CASE j = n + 1
    BY <1>1, <1>3, <2>1, <2>3
  <2>. QED
    BY <1>2, <2>2, <2>3
<1>. QED
  BY <1>4, <1>5 DEF Sound

-----------------------------------------------------------------------------
(* The report. *)

\* The line chosen for a key is one of its lines, and its answer if there is one.
LEMMA LatestIsTheAnswer ==
  ASSUME NEW lines \in Seq(Lines), Sound(lines), NEW k \in {line.key : line \in Range(lines)}
  PROVE  /\ Latest(lines, k) \in Range(lines) /\ Latest(lines, k).key = k
         /\ \A line \in Range(lines) : line.key = k /\ line.status = "ok" => line = Latest(lines, k)
<1>. DEFINE I == {i \in 1..Len(lines) : lines[i].key = k}
            IsLast(i) == lines[i].key = k /\ \A j \in DOMAIN lines : j > i => lines[j].key # k
<1>1. Len(lines) \in Nat /\ DOMAIN lines = 1..Len(lines)
  OBVIOUS
<1>2. I # {}
  BY <1>1 DEF Range
<1>3. PICK m \in I : \A j \in I : j <= m
  BY <1>1, <1>2, GreatestNat
<1>4. m \in DOMAIN lines /\ IsLast(m)
  BY <1>1, <1>3
<1>. DEFINE c == CHOOSE i \in DOMAIN lines : IsLast(i)
<1>5. c \in DOMAIN lines /\ IsLast(c)
  BY <1>4
<1>6. Latest(lines, k) = lines[c]
  BY DEF Latest
<1>. HIDE DEF c
<1>7. ASSUME NEW i \in DOMAIN lines, lines[i].key = k, lines[i].status = "ok"
      PROVE  i = c
  <2>1. ~(i < c)
    BY <1>5, <1>7 DEF Sound
  <2>2. ~(i > c)
    BY <1>5, <1>7
  <2>. QED
    BY <1>1, <1>5, <2>1, <2>2
<1>. QED
  BY <1>5, <1>6, <1>7 DEF Range

LEMMA AsManyAnswersAsKeys ==
  ASSUME NEW lines \in Seq(Lines), Sound(lines)
  PROVE  Cardinality({line \in Range(lines) : line.status = "ok"}) = Cardinality(Done(lines))
<1>. DEFINE R == {line \in Range(lines) : line.status = "ok"}
            f == [line \in R |-> line.key]
<1>1. \A line \in R : line.key \in Keys
  <2>. SUFFICES ASSUME NEW line \in R PROVE line.key \in Keys
    OBVIOUS
  <2>1. PICK i \in DOMAIN lines : lines[i] = line
    BY DEF Range
  <2>2. line # TornLine
    BY DEF TornLine
  <2>. QED
    BY <2>1, <2>2 DEF Sound
<1>2. Done(lines) = {line.key : line \in R} /\ Done(lines) \subseteq Keys
  BY <1>1 DEF Done
<1>3. \A line \in R : line = Latest(lines, line.key)
  BY LatestIsTheAnswer
<1>4. \A a, b \in R : f[a] = f[b] => a = b
  BY <1>3
<1>5. f \in [R -> Done(lines)] /\ \A k \in Done(lines) : \E line \in R : f[line] = k
  BY <1>2
<1>6. f \in Injection(R, Done(lines)) /\ f \in Surjection(R, Done(lines))
  <2>. HIDE DEF f, R
  <2>. QED
    BY <1>4, <1>5 DEF Injection, Surjection, IsInjective
<1>7. IsFiniteSet(Done(lines))
  BY <1>2, KeysAreFinite, FS_Subset
<1>. QED
  BY <1>6, <1>7, FS_Injection, Zenon

LEMMA ReportTells ==
  ASSUME NEW lines \in Seq(Lines), Sound(lines)
  PROVE  /\ Tells(ReportOf(lines), lines) /\ ReportOf(lines).upto = Len(lines)
         /\ ReportOf(lines).records \cup ReportOf(lines).errors \subseteq Range(lines)
<1>. DEFINE ks == {line.key : line \in Range(lines)}
            latest == {Latest(lines, k) : k \in ks}
            records == {line \in latest : line.status = "ok"}
            errors == {line \in latest : line.status # "ok"}
<1>1. /\ ReportOf(lines).records = records /\ ReportOf(lines).errors = errors
      /\ ReportOf(lines).upto = Len(lines)
  BY DEF ReportOf
<1>2. /\ \A k \in ks : /\ Latest(lines, k) \in Range(lines) /\ Latest(lines, k).key = k
                      /\ \A line \in Range(lines) : line.key = k /\ line.status = "ok"
                                                    => line = Latest(lines, k)
  BY LatestIsTheAnswer
<1>3. latest \subseteq Range(lines)
  BY <1>2
<1>4. records = {line \in Range(lines) : line.status = "ok"}
  <2>1. \A line \in Range(lines) : line.status = "ok" => line \in latest
    BY <1>2
  <2>. QED
    BY <1>3, <2>1
<1>5. Cardinality(records) = Cardinality(Done(lines))
  BY <1>4, AsManyAnswersAsKeys
<1>6. {line.key : line \in errors} = Recorded(lines) \ Done(lines)
  <2>. HIDE DEF errors, latest
  <2>1. \A k : k \in Recorded(lines) <=> k \in ks
    BY DEF Recorded
  <2>2. \A k \in ks : k \in Done(lines) <=> Latest(lines, k).status = "ok"
    BY <1>2 DEF Done
  <2>3. \A k : k \in {line.key : line \in errors}
              <=> \E j \in ks : Latest(lines, j).status # "ok" /\ k = Latest(lines, j).key
    BY DEF errors, latest
  <2>4. \A k : k \in {line.key : line \in errors} <=> k \in ks /\ Latest(lines, k).status # "ok"
    BY <1>2, <2>3
  <2>5. \A k : k \in {line.key : line \in errors} <=> k \in Recorded(lines) \ Done(lines)
    BY <2>1, <2>2, <2>4
  <2>. QED
    BY <2>5
<1>. QED
  BY <1>1, <1>3, <1>4, <1>5, <1>6 DEF Tells

-----------------------------------------------------------------------------
(* The invariant is inductive. *)

LEMMA InitHolds == Init => IInv
<1>. SUFFICES ASSUME Init PROVE IInv
  OBVIOUS
<1>. USE DEF Init
<1>1. TypeOK
  BY StartsAssumption, EmptySeq DEF TypeOK, NoReply
<1>2. Up /\ Held /\ Told
  BY DEF Up, Held, Told
<1>3. Bought
  BY FS_EmptySet DEF Bought
<1>4. Graded
  BY DEF Graded, Sound
<1>. QED
  BY <1>1, <1>2, <1>3, <1>4 DEF IInv

\* Steps that write no line keep what is said of the lines.
LEMMA FilesKept ==
  ASSUME IInv, results' = results, account' = account, cache' = cache
  PROVE  /\ Bought' /\ Graded' /\ Torn' = Torn /\ Done(results') = Done(results)
         /\ \A k : OkLines(k)' = OkLines(k)
<1>1. Bought'
  BY DEF IInv, Bought, account
<1>2. Graded'
  BY DEF IInv, Graded, Answer, account
<1>. QED
  BY <1>1, <1>2 DEF Torn, OkLines

LEMMA ReportKept ==
  ASSUME Told, results' = results, report' = report
  PROVE  Told'
  BY DEF Told

\* A report is always made of whole lines.
LEMMA ReportMade ==
  ASSUME IInv, results' = results, report' = ReportOf(results)
  PROVE  Told' /\ report'.records \cup report'.errors \subseteq Range(results)
<1>1. results \in Seq(Lines) /\ Sound(results)
  BY DEF IInv, TypeOK, Graded
<1>2. /\ Tells(ReportOf(results), results) /\ ReportOf(results).upto = Len(results)
      /\ ReportOf(results).records \cup ReportOf(results).errors \subseteq Range(results)
  BY <1>1, ReportTells
<1>3. SubSeq(results, 1, Len(results)) = results /\ Len(results) \in Nat
  BY <1>1, SubSeqFull
<1>4. report'.upto = Len(results') /\ SubSeq(results', 1, report'.upto) = results
  BY <1>2, <1>3
<1>5. Tells(report', results) /\ report'.upto \in 0..Len(results')
  BY <1>2, <1>3, <1>4
<1>6. Tells(report', SubSeq(results', 1, report'.upto))
  BY <1>4, <1>5
<1>. QED
  BY <1>2, <1>5, <1>6 DEF Told

LEMMA DownHolds ==
  ASSUME TypeOK, Gone
  PROVE  /\ pc' = "down" /\ model' = None /\ todo' = {} /\ tried' = {} /\ turn' = 1
         /\ history' \in Seq(Nat) /\ reply' \in [code : Codes \cup {None}, call : Nat]
         /\ Up' /\ Held'
  BY EmptySeq DEF Gone, NextItem, NoReply, Up, Held

LEMMA StartHolds == IInv /\ Start => IInv'
<1>. SUFFICES ASSUME IInv, Start PROVE IInv'
  OBVIOUS
<1>1. /\ results' = results /\ report' = report /\ cache' = cache /\ account' = account
      /\ starts' = starts + 1 /\ starts < MaxStarts /\ ~Torn
      /\ model' \in Models /\ tried' = {} /\ todo' = Keys \ Done(results)
      /\ turn' = 1 /\ history' = <<>> /\ reply' = NoReply
      /\ IF todo' = {} THEN pc' = "reporting" /\ manifest' = manifest
                       ELSE pc' = "asking" /\ manifest' = model'
  BY DEF Start, Command, NextItem
<1>2. TypeOK'
  <2>1. starts' \in 0..MaxStarts /\ manifest' \in Models \cup {None}
    BY <1>1, StartsAssumption DEF IInv, TypeOK
  <2>2. pc' \in {"asking", "storing", "recording"} => todo' # {} /\ turn' \in 1..Turns[Key'[2]]
    <3>. SUFFICES ASSUME pc' = "asking" PROVE todo' # {} /\ turn' \in 1..Turns[Key'[2]]
      BY <1>1
    <3>1. todo' # {} /\ todo' \in SUBSET Keys
      BY <1>1
    <3>2. Key' \in Keys
      BY <3>1, FirstIsOneOfThem DEF Key
    <3>3. Turns[Key'[2]] \in Nat \ {0}
      BY <3>2, TurnsAssumption DEF Keys
    <3>. QED
      BY <1>1, <3>1, <3>3
  <2>3. history' \in Seq(Nat) /\ reply' \in [code : Codes \cup {None}, call : Nat]
    BY <1>1, EmptySeq DEF NoReply
  <2>4. pc' \in {"asking", "reporting"} /\ todo' \subseteq Keys /\ tried' \subseteq Keys
    BY <1>1
  <2>. QED
    BY <1>1, <2>1, <2>2, <2>3, <2>4 DEF IInv, TypeOK
<1>3. /\ Bought' /\ Graded' /\ Torn' = Torn /\ Done(results') = Done(results)
      /\ \A k : OkLines(k)' = OkLines(k)
  BY <1>1, FilesKept
<1>4. Up'
  BY <1>1, <1>3, DoneHasLine DEF Up
<1>5. Held'
  BY <1>1 DEF Held
<1>6. Told'
  BY <1>1, ReportKept DEF IInv
<1>. QED
  BY <1>2, <1>3, <1>4, <1>5, <1>6 DEF IInv

\* The end of a turn leaves the key, and the record only after its last turn.
LEMMA TurnEnds ==
  ASSUME TypeOK, pc \in {"asking", "storing"}, EndTurn, todo' = todo
  PROVE  /\ Key' = Key /\ pc' \in {"asking", "recording"} /\ turn' \in 1..Turns[Key'[2]]
         /\ (pc' = "recording" => turn = Turns[Key[2]])
<1>1. Key' = Key
  BY DEF Key
<1>2. Turns[Key[2]] \in Nat /\ turn \in 1..Turns[Key[2]]
  BY KeyIsOneOfThem DEF TypeOK
<1>. QED
  BY <1>1, <1>2 DEF EndTurn

\* What an answered turn changes, whatever answered it.
LEMMA AnsweredHolds ==
  ASSUME IInv, pc \in {"asking", "storing"}, NEW call \in Nat, Answered(call), Asked(call),
         spent' = spent, Bought',
         \A row \in cache' : row.question \in Questions /\ row.model \in Models /\ row.call \in Nat
  PROVE  IInv'
<1>1. /\ starts' = starts /\ results' = results /\ manifest' = manifest /\ report' = report
      /\ model' = model /\ todo' = todo /\ tried' = tried
      /\ reply' = [code |-> None, call |-> call] /\ history' = Append(history, call)
  BY DEF Answered
<1>2. /\ Key' = Key /\ pc' \in {"asking", "recording"} /\ turn' \in 1..Turns[Key'[2]]
      /\ (pc' = "recording" => turn = Turns[Key[2]])
  BY <1>1, TurnEnds DEF Answered, IInv
<1>3. TypeOK'
  <2>1. history' \in Seq(Nat) /\ reply' \in [code : Codes \cup {None}, call : Nat]
    BY <1>1 DEF IInv, TypeOK
  <2>2. todo # {}
    BY DEF IInv, TypeOK
  <2>. QED
    BY <1>1, <1>2, <2>1, <2>2 DEF IInv, TypeOK
<1>4. Up'
  BY <1>1, <1>2 DEF IInv, Up, Torn, OkLines
<1>5. Held'
  BY <1>1, <1>2 DEF Held, Answer, Asked, Question
<1>6. Graded'
  BY <1>1 DEF IInv, Graded, Answer
<1>7. Told'
  BY <1>1, ReportKept DEF IInv
<1>. QED
  BY <1>3, <1>4, <1>5, <1>6, <1>7 DEF IInv

LEMMA AskCachedHolds == IInv /\ AskCached => IInv'
<1>. SUFFICES ASSUME IInv, AskCached PROVE IInv'
  OBVIOUS
<1>1. pc = "asking" /\ cache' = cache /\ spent' = spent /\ stored' = stored
  BY DEF AskCached, account
<1>2. PICK row \in Rows : Answered(row.call)
  BY DEF AskCached
<1>3. row \in cache /\ row.file = Key[1] /\ row.model = model /\ row.question = Question
  BY <1>2 DEF Rows, CacheFile
<1>4. row.call \in Nat
  BY <1>3 DEF IInv, TypeOK
<1>5. row.question.item = Key[2] /\ <<Key[1], Key[2]>> = Key
  BY <1>1, <1>3, KeyIsOneOfThem DEF IInv, Question
<1>6. Asked(row.call)
  <2>1. PICK s \in spent : /\ s.call = row.call /\ s.key = <<row.file, row.question.item>>
                          /\ s.model = row.model /\ s.question = row.question
    BY <1>3 DEF IInv, Bought
  <2>2. <<row.file, row.question.item>> = Key
    BY <1>3, <1>5
  <2>. QED
    BY <1>3, <2>1, <2>2 DEF Asked
<1>7. Bought'
  BY <1>1 DEF IInv, Bought
<1>. QED
  BY <1>1, <1>2, <1>4, <1>6, <1>7, AnsweredHolds DEF IInv, TypeOK

\* The process that is at a question knows its model, and the question is well formed.
LEMMA AtQuestion ==
  ASSUME IInv, pc \in {"asking", "storing"}
  PROVE  /\ Key \in Keys /\ Key = <<Key[1], Key[2]>> /\ model \in Models
         /\ Question \in Questions /\ Question.item = Key[2]
<1>1. turn \in 1..Turns[Key[2]] /\ Turns[Key[2]] \in Nat
  BY KeyIsOneOfThem DEF IInv, TypeOK
<1>2. turn \in Nat /\ history \in Seq(Nat) /\ Key[2] \in Items
  BY <1>1, KeyIsOneOfThem DEF IInv, TypeOK
<1>3. Question \in Questions /\ Question.item = Key[2]
  BY <1>2 DEF Question, Questions
<1>. QED
  BY <1>3, KeyIsOneOfThem DEF IInv, Up

LEMMA AskModelHolds == IInv /\ AskModel => IInv'
<1>. SUFFICES ASSUME IInv, AskModel PROVE IInv'
  OBVIOUS
<1>. DEFINE n == Cardinality(spent)
            paid == [key |-> Key, model |-> model, question |-> Question, call |-> n + 1]
<1>1. /\ pc = "asking" /\ pc' = "storing" /\ spent' = spent \cup {paid} /\ stored' = stored
      /\ reply' = [code |-> None, call |-> n + 1]
      /\ starts' = starts /\ results' = results /\ manifest' = manifest /\ cache' = cache
      /\ report' = report /\ model' = model /\ todo' = todo /\ turn' = turn
      /\ history' = history /\ tried' = tried
  BY DEF AskModel, files
<1>2. n \in Nat
  BY FS_CardinalityType DEF IInv, Bought
<1>3. /\ Key \in Keys /\ model \in Models /\ Question.item = Key[2]
  BY <1>1, AtQuestion
<1>4. Key' = Key /\ Question' = Question
  BY <1>1 DEF Key, Question
<1>5. /\ paid.key = Key /\ paid.model = model /\ paid.question = Question
      /\ paid.call = n + 1
  OBVIOUS
<1>6. \A s \in spent : s.call \in 1..n
  BY DEF IInv, Bought
<1>. HIDE DEF paid
<1>7. IsFiniteSet(spent') /\ Cardinality(spent') = n + 1
  <2>1. paid \notin spent
    BY <1>2, <1>5, <1>6
  <2>. QED
    BY <1>1, <2>1, FS_AddElement DEF IInv, Bought
<1>8. stored \subseteq 1..n /\ n + 1 \notin stored
  BY <1>2 DEF IInv, Bought
<1>. HIDE DEF n
<1>9. Bought'
  <2>1. \A s, t \in spent' : s.call = t.call => s = t
    BY <1>1, <1>2, <1>5, <1>6 DEF IInv, Bought
  <2>2. \A s \in spent' : s.key \in Keys /\ s.question.item = s.key[2] /\ s.call \in 1..n + 1
    BY <1>1, <1>2, <1>3, <1>5, <1>6 DEF IInv, Bought
  <2>3. \A s \in spent' : s.call \in stored =>
          \E row \in cache : row.file = s.key[1] /\ row.model = s.model /\ row.question = s.question
    BY <1>1, <1>5, <1>8 DEF IInv, Bought
  <2>4. stored' \subseteq 1..n + 1
    BY <1>1, <1>2, <1>8
  <2>5. \A row \in cache' :
          \E s \in spent' :
            /\ s.call = row.call /\ s.key = <<row.file, row.question.item>>
            /\ s.model = row.model /\ s.question = row.question
    BY <1>1 DEF IInv, Bought
  <2>. QED
    BY <1>1, <1>7, <2>1, <2>2, <2>3, <2>4, <2>5 DEF Bought
<1>10. TypeOK'
  BY <1>1, <1>2, <1>4 DEF IInv, TypeOK
<1>11. Up'
  BY <1>1 DEF IInv, Up, Torn, OkLines
<1>12. Held'
  <2>1. paid \in spent'
    BY <1>1
  <2>2. Asked(reply.call)'
    BY <1>1, <1>4, <1>5, <2>1 DEF Asked
  <2>. QED
    BY <1>1, <1>7, <2>2 DEF Held
<1>13. Graded'
  BY <1>1 DEF IInv, Graded, Answer
<1>14. Told'
  BY <1>1, ReportKept DEF IInv
<1>. QED
  BY <1>9, <1>10, <1>11, <1>12, <1>13, <1>14 DEF IInv

LEMMA StoreHolds == IInv /\ Store => IInv'
<1>. SUFFICES ASSUME IInv, Store PROVE IInv'
  OBVIOUS
<1>. DEFINE row == [file |-> Key[1], model |-> model, question |-> Question, call |-> reply.call]
<1>1. /\ pc = "storing" /\ Answered(reply.call) /\ cache' = cache \cup {row} /\ spent' = spent
      /\ stored' = stored \cup {reply.call}
  BY DEF Store, CacheFile
<1>2. /\ Key \in Keys /\ Key = <<Key[1], Key[2]>> /\ model \in Models
      /\ Question \in Questions /\ Question.item = Key[2]
  BY <1>1, AtQuestion
<1>3. reply.call \in Nat
  BY DEF IInv, TypeOK
<1>4. /\ row.file = Key[1] /\ row.model = model /\ row.question = Question
      /\ row.call = reply.call
  OBVIOUS
<1>. HIDE DEF row
<1>5. PICK s \in spent : /\ s.call = reply.call /\ s.key = Key /\ s.model = model
                         /\ s.question = Question
  BY <1>1 DEF IInv, Held, Asked
<1>6. Bought'
  <2>1. stored' \subseteq 1..Cardinality(spent)
    <3>1. stored \subseteq 1..Cardinality(spent) /\ s.call \in 1..Cardinality(spent)
      BY DEF IInv, Bought
    <3>. QED
      BY <1>1, <1>5, <3>1
  <2>2. \A t \in spent : t.call \in stored' =>
          \E r \in cache' : r.file = t.key[1] /\ r.model = t.model /\ r.question = t.question
    <3>1. \A t \in spent : t.call = reply.call => t = s
      BY <1>5 DEF IInv, Bought
    <3>. QED
      BY <1>1, <1>4, <1>5, <3>1 DEF IInv, Bought
  <2>3. \A r \in cache' :
          \E t \in spent :
            /\ t.call = r.call /\ t.key = <<r.file, r.question.item>>
            /\ t.model = r.model /\ t.question = r.question
    <3>1. /\ s.call = row.call /\ s.key = <<row.file, row.question.item>>
          /\ s.model = row.model /\ s.question = row.question
      BY <1>2, <1>4, <1>5
    <3>. QED
      BY <1>1, <3>1 DEF IInv, Bought
  <2>. QED
    BY <1>1, <2>1, <2>2, <2>3 DEF IInv, Bought
<1>7. \A r \in cache' : r.question \in Questions /\ r.model \in Models /\ r.call \in Nat
  BY <1>1, <1>2, <1>3, <1>4 DEF IInv, TypeOK
<1>8. Asked(reply.call)
  BY <1>5 DEF Asked
<1>. QED
  BY <1>1, <1>3, <1>6, <1>7, <1>8, AnsweredHolds

LEMMA AskFailsHolds == IInv /\ AskFails => IInv'
<1>. SUFFICES ASSUME IInv, AskFails PROVE IInv'
  OBVIOUS
<1>1. /\ pc = "asking" /\ starts' = starts /\ model' = model /\ todo' = todo /\ history' = history
      /\ results' = results /\ manifest' = manifest /\ report' = report /\ cache' = cache
      /\ account' = account /\ tried' = tried
  BY DEF AskFails, files
<1>2. PICK code \in Codes : reply' = [code |-> code, call |-> 0]
  BY DEF AskFails
<1>3. Key' = Key /\ pc' \in {"asking", "recording"} /\ turn' \in 1..Turns[Key'[2]]
  BY <1>1, TurnEnds DEF AskFails, IInv
<1>4. TypeOK'
  <2>1. reply' \in [code : Codes \cup {None}, call : Nat] /\ todo # {}
    BY <1>1, <1>2 DEF IInv, TypeOK
  <2>. QED
    BY <1>1, <1>3, <2>1 DEF IInv, TypeOK
<1>5. Bought' /\ Graded'
  BY <1>1, FilesKept
<1>6. Up'
  BY <1>1 DEF IInv, Up, Torn, OkLines
<1>7. Held'
  BY <1>2, <1>3, NoneAssumption DEF Held
<1>8. Told'
  BY <1>1, ReportKept DEF IInv
<1>. QED
  BY <1>4, <1>5, <1>6, <1>7, <1>8 DEF IInv

\* A line is written: by Record, or torn.
LEMMA FilesGrow ==
  ASSUME IInv, NEW e \in Lines, results' = Append(results, e), account' = account, cache' = cache,
         report' = report,
         e = TornLine \/ (e.key \in Keys /\ e.status \in {"ok", "error"} /\ e.key \notin Done(results)),
         e.status = "ok" => Answer(e.call, e.key, e.model)
  PROVE  /\ results' \in Seq(Lines) /\ Range(results) \subseteq Range(results')
         /\ Bought' /\ Graded' /\ Told'
<1>. DEFINE n == Len(results)
<1>1. results \in Seq(Lines) /\ Sound(results)
  BY DEF IInv, TypeOK, Graded
<1>2. /\ results' \in Seq(Lines) /\ n \in Nat /\ Len(results') = n + 1
      /\ DOMAIN results = 1..n /\ DOMAIN results' = 1..n + 1
      /\ \A i \in 1..n : results'[i] = results[i]
      /\ results'[n + 1] = e
  BY <1>1, Appended
<1>3. Range(results) \subseteq Range(results')
  BY <1>1, LineAdded
<1>4. Bought' /\ spent' = spent
  BY DEF IInv, Bought, account
<1>5. Graded'
  <2>1. Sound(results')
    BY <1>1, SoundKept
  <2>2. \A i \in 1..n + 1 : i \in 1..n \/ i = n + 1
    BY <1>2
  <2>3. \A i \in 1..n : results[i].status = "ok" =>
          Answer(results[i].call, results[i].key, results[i].model)
    BY <1>2 DEF IInv, Graded
  <2>4. \A i \in 1..n + 1 : results'[i].status = "ok" =>
          Answer(results'[i].call, results'[i].key, results'[i].model)
    BY <1>2, <2>2, <2>3
  <2>5. \A i \in DOMAIN results' : results'[i].status = "ok" =>
          Answer(results[i].call, results[i].key, results[i].model)'
    BY <1>2, <1>4, <2>4 DEF Answer
  <2>. QED
    BY <2>1, <2>5 DEF Graded
<1>6. Told'
  <2>. SUFFICES ASSUME report # None
                PROVE  /\ report.upto \in 0..n + 1
                       /\ Tells(report, SubSeq(results', 1, report.upto))
    BY <1>2 DEF Told
  <2>1. report.upto \in 0..n /\ Tells(report, SubSeq(results, 1, report.upto))
    BY DEF IInv, Told
  <2>2. SubSeq(results', 1, report.upto) = SubSeq(results, 1, report.upto)
    BY <1>1, <2>1, PrefixKept
  <2>3. Tells(report, SubSeq(results', 1, report.upto))
    BY <2>1, <2>2, Zenon
  <2>4. report.upto \in 0..n + 1
    BY <1>2, <2>1
  <2>. QED
    BY <2>3, <2>4
<1>. QED
  BY <1>2, <1>3, <1>4, <1>5, <1>6

LEMMA LineOfRecord ==
  ASSUME IInv, pc = "recording"
  PROVE  /\ Line \in Lines /\ Line.key = Key /\ Key \in Keys /\ Key \in todo
         /\ Line.status \in {"ok", "error"} /\ Line # TornLine /\ Key \notin Done(results)
         /\ Line.status = "ok" => Answer(Line.call, Line.key, Line.model)
<1>1. Key \in todo /\ Key \in Keys /\ model \in Models /\ todo \cap Done(results) = {}
  BY KeyIsOneOfThem DEF IInv, Up
<1>2. /\ Line.key = Key /\ Line.model = model /\ Line.call = reply.call
      /\ Line.status \in {"ok", "error"} /\ (Line.status = "ok" => reply.code = None)
  BY DEF Line
<1>3. reply.call \in Nat
  BY DEF IInv, TypeOK
<1>4. Line \in Lines
  BY <1>1, <1>3 DEF Line, Lines
<1>5. Line # TornLine
  BY <1>2 DEF TornLine
<1>6. Line.status = "ok" => Answer(Line.call, Line.key, Line.model)
  BY <1>2 DEF IInv, Held
<1>. QED
  BY <1>1, <1>2, <1>4, <1>5, <1>6

LEMMA RecordHolds == IInv /\ Record => IInv'
<1>. SUFFICES ASSUME IInv, Record PROVE IInv'
  OBVIOUS
<1>1. /\ pc = "recording" /\ results' = Append(results, Line) /\ todo' = todo \ {Key}
      /\ tried' = tried \cup {Key} /\ pc' \in {"reporting", "asking"}
      /\ (pc' = "asking" => todo' # {})
      /\ turn' = 1 /\ history' = <<>> /\ reply' = NoReply
      /\ starts' = starts /\ manifest' = manifest /\ cache' = cache /\ report' = report
      /\ model' = model /\ account' = account
  BY DEF Record, NextItem
<1>2. /\ Line \in Lines /\ Line.key = Key /\ Key \in Keys /\ Key \in todo
      /\ Line.status \in {"ok", "error"} /\ Line # TornLine /\ Key \notin Done(results)
      /\ Line.status = "ok" => Answer(Line.call, Line.key, Line.model)
  BY <1>1, LineOfRecord
<1>3. /\ results' \in Seq(Lines) /\ Range(results) \subseteq Range(results')
      /\ Bought' /\ Graded' /\ Told'
  BY <1>1, <1>2, FilesGrow
<1>4. TypeOK'
  <2>1. todo' \subseteq Keys /\ tried' \subseteq Keys
    BY <1>1, <1>2 DEF IInv, TypeOK
  <2>2. pc' \in {"asking", "storing", "recording"} => todo' # {} /\ turn' \in 1..Turns[Key'[2]]
    <3>. SUFFICES ASSUME pc' = "asking" PROVE todo' # {} /\ turn' \in 1..Turns[Key'[2]]
      BY <1>1
    <3>1. Key' \in Keys
      BY <1>1, <2>1, FirstIsOneOfThem DEF Key
    <3>2. Turns[Key'[2]] \in Nat \ {0}
      BY <3>1, TurnsAssumption DEF Keys
    <3>. QED
      BY <1>1, <3>2
  <2>3. history' \in Seq(Nat) /\ reply' \in [code : Codes \cup {None}, call : Nat]
    BY <1>1, EmptySeq DEF NoReply
  <2>4. report' # None => report'.records \cup report'.errors \subseteq Range(results')
    BY <1>1, <1>3 DEF IInv, TypeOK
  <2>. QED
    BY <1>1, <1>3, <2>1, <2>2, <2>3, <2>4 DEF IInv, TypeOK
<1>5. Up'
  <2>1. results \in Seq(Lines)
    BY DEF IInv, TypeOK
  <2>2. /\ \A k : OkLines(k) \subseteq OkLines(k)'
        /\ Range(results') = Range(results) \cup {Line}
        /\ Done(results') \subseteq Done(results) \cup {Key}
    BY <1>1, <1>2, <2>1, LineAdded
  <2>3. ~Torn'
    BY <1>1, <1>2, <2>2 DEF IInv, Up, Torn, TornLine
  <2>4. todo' \cap Done(results') = {}
    BY <1>1, <2>2 DEF IInv, Up
  <2>5. \A k \in Keys : k \in todo' \/ k \in tried' \/ OkLines(k)' # {}
    BY <1>1, <2>2 DEF IInv, Up
  <2>. QED
    BY <1>1, <2>3, <2>4, <2>5 DEF IInv, Up
<1>6. Held'
  BY <1>1 DEF Held
<1>. QED
  BY <1>3, <1>4, <1>5, <1>6 DEF IInv

LEMMA ReportHolds == IInv /\ Report => IInv'
<1>. SUFFICES ASSUME IInv, Report PROVE IInv'
  OBVIOUS
<1>1. /\ report' = ReportOf(results) /\ Gone /\ starts' = starts /\ results' = results
      /\ manifest' = manifest /\ cache' = cache /\ account' = account
  BY DEF Report
<1>2. Told' /\ report'.records \cup report'.errors \subseteq Range(results)
  BY <1>1, ReportMade
<1>3. Bought' /\ Graded'
  BY <1>1, FilesKept
<1>4. /\ pc' = "down" /\ model' = None /\ todo' = {} /\ tried' = {} /\ turn' = 1
      /\ history' \in Seq(Nat) /\ reply' \in [code : Codes \cup {None}, call : Nat]
      /\ Up' /\ Held'
  BY <1>1, DownHolds DEF IInv
<1>5. TypeOK'
  BY <1>1, <1>2, <1>4 DEF IInv, TypeOK
<1>. QED
  BY <1>2, <1>3, <1>4, <1>5 DEF IInv

LEMMA ReportOnlyHolds == IInv /\ ReportOnly => IInv'
<1>. SUFFICES ASSUME IInv, ReportOnly PROVE IInv'
  OBVIOUS
<1>1. /\ pc = "down" /\ report' = ReportOf(results) /\ results' = results /\ manifest' = manifest
      /\ cache' = cache /\ account' = account /\ starts' = starts + 1 /\ starts < MaxStarts
      /\ pc' = pc /\ model' = model /\ todo' = todo /\ turn' = turn /\ history' = history
      /\ reply' = reply /\ tried' = tried
  BY DEF ReportOnly, Command, process
<1>2. Told' /\ report'.records \cup report'.errors \subseteq Range(results)
  BY <1>1, ReportMade
<1>3. Bought' /\ Graded'
  BY <1>1, FilesKept
<1>4. TypeOK' /\ Up' /\ Held'
  <2>1. starts' \in 0..MaxStarts
    BY <1>1, StartsAssumption DEF IInv, TypeOK
  <2>. QED
    BY <1>1, <1>2, <2>1 DEF IInv, TypeOK, Up, Held
<1>. QED
  BY <1>2, <1>3, <1>4 DEF IInv

LEMMA StartRaisesHolds == IInv /\ StartRaises => IInv'
<1>. SUFFICES ASSUME IInv, StartRaises PROVE IInv'
  OBVIOUS
<1>1. /\ pc = "down" /\ starts' = starts + 1 /\ starts < MaxStarts
      /\ results' = results /\ manifest' = manifest /\ cache' = cache /\ report' = report
      /\ pc' = pc /\ model' = model /\ todo' = todo /\ turn' = turn /\ history' = history
      /\ reply' = reply /\ tried' = tried /\ account' = account
  BY DEF StartRaises, Command, files, process
<1>2. Bought' /\ Graded' /\ Told'
  BY <1>1, FilesKept, ReportKept DEF IInv
<1>3. TypeOK' /\ Up' /\ Held'
  <2>1. starts' \in 0..MaxStarts
    BY <1>1, StartsAssumption DEF IInv, TypeOK
  <2>. QED
    BY <1>1, <2>1 DEF IInv, TypeOK, Up, Held
<1>. QED
  BY <1>2, <1>3 DEF IInv

LEMMA CrashHolds == IInv /\ Crash => IInv'
<1>. SUFFICES ASSUME IInv, Crash PROVE IInv'
  OBVIOUS
<1>1. /\ Gone /\ starts' = starts /\ account' = account
      /\ results' = results /\ manifest' = manifest /\ cache' = cache /\ report' = report
  BY DEF Crash, files
<1>2. Bought' /\ Graded' /\ Told'
  BY <1>1, FilesKept, ReportKept DEF IInv
<1>3. /\ pc' = "down" /\ model' = None /\ todo' = {} /\ tried' = {} /\ turn' = 1
      /\ history' \in Seq(Nat) /\ reply' \in [code : Codes \cup {None}, call : Nat]
      /\ Up' /\ Held'
  BY <1>1, DownHolds DEF IInv
<1>4. TypeOK'
  BY <1>1, <1>3 DEF IInv, TypeOK
<1>. QED
  BY <1>2, <1>3, <1>4 DEF IInv

LEMMA CrashInAppendHolds == IInv /\ CrashInAppend => IInv'
<1>. SUFFICES ASSUME IInv, CrashInAppend PROVE IInv'
  OBVIOUS
<1>1. /\ Gone /\ starts' = starts /\ account' = account /\ results' = Append(results, TornLine)
      /\ manifest' = manifest /\ cache' = cache /\ report' = report
  BY DEF CrashInAppend
<1>2. TornLine \in Lines /\ TornLine.status # "ok"
  BY DEF TornLine, Lines
<1>3. /\ results' \in Seq(Lines) /\ Range(results) \subseteq Range(results')
      /\ Bought' /\ Graded' /\ Told'
  BY <1>1, <1>2, FilesGrow
<1>4. /\ pc' = "down" /\ model' = None /\ todo' = {} /\ tried' = {} /\ turn' = 1
      /\ history' \in Seq(Nat) /\ reply' \in [code : Codes \cup {None}, call : Nat]
      /\ Up' /\ Held'
  BY <1>1, DownHolds DEF IInv
<1>5. TypeOK'
  BY <1>1, <1>3, <1>4 DEF IInv, TypeOK
<1>. QED
  BY <1>3, <1>4, <1>5 DEF IInv

LEMMA StutterHolds == IInv /\ UNCHANGED vars => IInv'
<1>. SUFFICES ASSUME IInv, UNCHANGED vars PROVE IInv'
  OBVIOUS
<1>1. /\ starts' = starts /\ results' = results /\ manifest' = manifest /\ cache' = cache
      /\ report' = report /\ pc' = pc /\ model' = model /\ todo' = todo /\ turn' = turn
      /\ history' = history /\ reply' = reply /\ tried' = tried /\ account' = account
  BY DEF vars, files, process
<1>2. Bought' /\ Graded' /\ Told'
  BY <1>1, FilesKept, ReportKept DEF IInv
<1>3. TypeOK' /\ Up' /\ Held'
  <2>1. spent' = spent
    BY <1>1 DEF account
  <2>. QED
    BY <1>1, <2>1 DEF IInv, TypeOK, Up, Held, Answer, Asked, Question, Key, Torn, OkLines
<1>. QED
  BY <1>2, <1>3 DEF IInv

LEMMA StepHolds == IInv /\ [Next]_vars => IInv'
  BY StartHolds, StartRaisesHolds, ReportOnlyHolds, AskCachedHolds, AskModelHolds, StoreHolds,
     AskFailsHolds, RecordHolds, ReportHolds, CrashHolds, CrashInAppendHolds, StutterHolds DEF Next, Over

LEMMA Inductive == Spec => []IInv
  BY InitHolds, StepHolds, PTL DEF Spec

-----------------------------------------------------------------------------
(* What follows from it. *)

\* The files and the process keep to their ranges, over any kills; a report never has a line
\* that is not in the results.
THEOREM RunnerTypes == Spec => []TypeOK
  BY Inductive, PTL DEF IInv

LEMMA Own == IInv => AnswersAreOwn
<1>. SUFFICES ASSUME IInv, NEW line \in Range(results), line.status = "ok"
              PROVE  \E s \in spent : /\ s.call = line.call /\ s.key = line.key
                                      /\ s.model = line.model
                                      /\ s.question.turn = Turns[line.key[2]]
  BY DEF AnswersAreOwn
<1>1. PICK i \in DOMAIN results : line = results[i]
  BY DEF Range
<1>2. Answer(line.call, line.key, line.model)
  BY <1>1 DEF IInv, Graded
<1>. QED
  BY <1>2 DEF Answer

\* runner.py:9, :12: whatever is killed and resumed, with whatever model, a graded answer is that
\* of the model its record names to the last turn of its own item, in its own repeat.
THEOREM GradesAreOwn == Spec => []AnswersAreOwn
  BY Inductive, Own, PTL

\* A row that was stored is found by whoever would ask the same again; the answer that is being
\* stored is the last one.
LEMMA AskedAnew == IInv /\ AskModel /\ StoredIsNotAskedAgain => StoredIsNotAskedAgain'
<1>. SUFFICES ASSUME IInv, AskModel, StoredIsNotAskedAgain PROVE StoredIsNotAskedAgain'
  OBVIOUS
<1>. DEFINE n == Cardinality(spent)
            paid == [key |-> Key, model |-> model, question |-> Question, call |-> n + 1]
<1>1. Rows = {} /\ spent' = spent \cup {paid} /\ stored' = stored
  BY DEF AskModel
<1>2. paid.key = Key /\ paid.model = model /\ paid.question = Question /\ paid.call = n + 1
  OBVIOUS
<1>. HIDE DEF paid
<1>3. n + 1 \notin stored
  BY FS_CardinalityType DEF IInv, Bought
<1>. HIDE DEF n
<1>4. ASSUME NEW s \in spent, s.key = Key, s.model = model, s.question = Question,
             s.call \in stored
      PROVE  FALSE
  <2>1. PICK row \in cache : row.file = s.key[1] /\ row.model = s.model /\ row.question = s.question
    BY <1>4 DEF IInv, Bought
  <2>2. row \in Rows
    BY <1>4, <2>1 DEF Rows, CacheFile
  <2>. QED
    BY <1>1, <2>2
<1>5. \A s, t \in spent' :
        s.key = t.key /\ s.model = t.model /\ s.question = t.question /\ s.call \in stored'
          => t.call <= s.call
  BY <1>1, <1>2, <1>3, <1>4 DEF StoredIsNotAskedAgain
<1>. QED
  BY <1>5 DEF StoredIsNotAskedAgain

LEMMA StoredLast == IInv /\ Store /\ StoredIsNotAskedAgain => StoredIsNotAskedAgain'
<1>. SUFFICES ASSUME IInv, Store, StoredIsNotAskedAgain PROVE StoredIsNotAskedAgain'
  OBVIOUS
<1>1. spent' = spent /\ stored' = stored \cup {reply.call} /\ reply.call = Cardinality(spent)
  BY DEF Store, IInv, Held
<1>2. \A t \in spent : t.call <= reply.call
  BY <1>1 DEF IInv, Bought
<1>. QED
  BY <1>1, <1>2 DEF StoredIsNotAskedAgain

LEMMA SettledKept == IInv /\ StoredIsNotAskedAgain /\ [Next]_vars => StoredIsNotAskedAgain'
<1>. SUFFICES ASSUME IInv, StoredIsNotAskedAgain, [Next]_vars PROVE StoredIsNotAskedAgain'
  OBVIOUS
<1>1. CASE AskModel
  BY <1>1, AskedAnew
<1>2. CASE Store
  BY <1>2, StoredLast
<1>3. CASE account' = account
  BY <1>3 DEF account, StoredIsNotAskedAgain
<1>4. account' = account \/ AskModel \/ Store
  BY DEF Next, vars, Over, Start, StartRaises, ReportOnly, AskCached, AskFails, Record, Report,
         Crash, CrashInAppend
<1>. QED
  BY <1>1, <1>2, <1>3, <1>4

\* runner.py:11: over any number of kills, also between an answer and its row, and with whatever
\* models, no repeat asks a model again for what it has stored.
THEOREM StoredPaidOnce == Spec => []StoredIsNotAskedAgain
<1>1. Init => StoredIsNotAskedAgain
  BY DEF Init, StoredIsNotAskedAgain
<1>. QED
  BY <1>1, Inductive, SettledKept, PTL DEF Spec

LEMMA AllAccounted == IInv => NothingSkipped
<1>. SUFFICES ASSUME IInv PROVE NothingSkipped
  OBVIOUS
<1>1. pc = "reporting" /\ todo = {} => \A k \in Keys : OkLines(k) # {} \/ k \in tried
  BY DEF IInv, Up
<1>2. report # None => Tells(report, SubSeq(results, 1, report.upto))
  BY DEF IInv, Told
<1>. QED
  BY <1>1, <1>2 DEF NothingSkipped, Tells

\* runner.py:530: a run that ends has graded or tried every key, and every report, whenever it
\* is made, has each recorded key once, as its answer if there is one.
THEOREM ReportsAreComplete == Spec => []NothingSkipped
  BY Inductive, AllAccounted, PTL

-----------------------------------------------------------------------------
(* The runner implements the ledger. *)

LastOf(I) == IF I = {} THEN None ELSE CHOOSE i \in I : \A j \in I : j <= i
graded == [k \in Keys |-> GradeOf(k)]

\* A line that is no answer grades nothing; an answer grades its own key, which had no grade.
LEMMA LineGrades ==
  ASSUME IInv, NEW e \in Lines, results' = Append(results, e),
         e.status = "ok" => e.key \in Keys /\ e.key \notin Done(results)
  PROVE  [Ledger!Next]_(graded)
<1>. DEFINE n == Len(results)
<1>1. results \in Seq(Lines) /\ n \in Nat
  BY DEF IInv, TypeOK
<1>2. \A k : OkLines(k)' = IF e.key = k /\ e.status = "ok" THEN OkLines(k) \cup {n + 1} ELSE OkLines(k)
  BY <1>1, LineAdded
<1>3. \A k \in Keys : ~(e.key = k /\ e.status = "ok") => GradeOf(k)' = GradeOf(k)
  <2>. SUFFICES ASSUME NEW k \in Keys, ~(e.key = k /\ e.status = "ok")
                PROVE  GradeOf(k)' = GradeOf(k)
    OBVIOUS
  <2>1. OkLines(k)' = OkLines(k)
    BY <1>2
  <2>. QED
    <3>1. GradeOf(k) = LastOf(OkLines(k)) /\ GradeOf(k)' = LastOf(OkLines(k)')
      BY DEF GradeOf, LastOf
    <3>. QED
      BY <2>1, <3>1
<1>4. CASE e.status # "ok"
  <2>1. graded' = graded
    BY <1>3, <1>4 DEF graded
  <2>. QED
    BY <2>1
<1>5. CASE e.status = "ok"
  <2>1. e.key \in Keys /\ OkLines(e.key) = {} /\ OkLines(e.key)' = {n + 1}
    BY <1>2, <1>5, DoneHasLine
  <2>2. GradeOf(e.key) = None
    BY <2>1 DEF GradeOf
  <2>3. GradeOf(e.key)' = n + 1
    <3>1. \A i \in {n + 1} : \A j \in {n + 1} : j <= i
      BY <1>1
    <3>2. (CHOOSE i \in {n + 1} : \A j \in {n + 1} : j <= i) = n + 1
      BY <3>1
    <3>3. GradeOf(e.key)' = CHOOSE i \in {n + 1} : \A j \in {n + 1} : j <= i
      BY <2>1 DEF GradeOf
    <3>. QED
      BY <3>2, <3>3
  <2>4. graded' = [graded EXCEPT ![e.key] = n + 1]
    BY <1>3, <1>5, <2>1, <2>3 DEF graded
  <2>5. graded[e.key] = None /\ graded'[e.key] = n + 1
    BY <2>1, <2>2, <2>3 DEF graded
  <2>6. n + 1 \in Nat
    BY <1>1
  <2>7. Ledger!Grade(e.key)
    BY <2>4, <2>5, <2>6 DEF Ledger!Grade, graded
  <2>. QED
    BY <2>1, <2>7 DEF Ledger!Next
<1>. QED
  BY <1>4, <1>5

LEMMA StepIsLedger == IInv /\ [Next]_vars => [Ledger!Next]_(graded)
<1>. SUFFICES ASSUME IInv, [Next]_vars PROVE [Ledger!Next]_(graded)
  OBVIOUS
<1>1. CASE results' = results
  <2>1. graded' = graded
    BY <1>1 DEF graded, GradeOf, OkLines
  <2>. QED
    BY <2>1
<1>2. CASE Record
  <2>1. results' = Append(results, Line) /\ pc = "recording"
    BY <1>2 DEF Record
  <2>. QED
    BY <2>1, LineOfRecord, LineGrades
<1>3. CASE CrashInAppend
  <2>1. results' = Append(results, TornLine) /\ TornLine \in Lines /\ TornLine.status # "ok"
    BY <1>3 DEF CrashInAppend, TornLine, Lines
  <2>. QED
    BY <2>1, LineGrades
<1>4. results' = results \/ Record \/ CrashInAppend
  BY DEF Next, vars, files, Over, Start, StartRaises, ReportOnly, AskCached, AskModel, Store,
         AskFails, Answered, Report, Crash
<1>. QED
  BY <1>1, <1>2, <1>3, <1>4

\* runner.py:10: any sequence of runs, kills and resumes on one directory is a ledger in which a
\* key is graded once, and its grade is neither replaced nor taken back.
THEOREM RunnerIsLedger == Spec => ImplementsLedger
<1>1. Init => Ledger!Init
  BY DEF Init, Ledger!Init, GradeOf, OkLines
<1>2. IInv /\ [Next]_vars => [Ledger!Next]_[k \in Keys |-> GradeOf(k)]
  BY StepIsLedger DEF graded
<1>. QED
  BY <1>1, <1>2, Inductive, PTL DEF Spec, ImplementsLedger, Ledger!Spec

-----------------------------------------------------------------------------
(* The grader: what it looks for, and the invariant of its search.  A      *)
(* search of augmenting paths that fails has tried a set of reference rows *)
(* which fit fewer rows than they are; one that succeeds frees a row for   *)
(* each call on the path.                                                  *)

\* The pairings execution_match looks for.
PairedRows(got, ref, ordered) ==
  /\ Len(got) = Len(ref)
  /\ \E p \in [DOMAIN ref -> DOMAIN got] :
       /\ IsInjective(p) /\ (ordered => \A i \in DOMAIN ref : p[i] = i)
       /\ \A i \in DOMAIN ref : RowContains(got[p[i]], ref[i])

Paired(i) == PairedRows(Got, item.refs[i], item.order_matters)

\* A reference is passed over only if nothing is paired with it.
Compared ==
  /\ item \in AnsweredItems /\ grading \in {"start", "compare", "search", "done"}
  /\ grading = "start" => alt = 1
  /\ grading \in {"start", "compare"} => seen = {}
  /\ grading \in {"compare", "search"} =>
       /\ item.kind = "sql" /\ ~item.error /\ alt \in DOMAIN item.refs
       /\ \A i \in 1..alt - 1 : ~Paired(i)
  /\ grading = "done" /\ item.kind = "sql" /\ ~item.error =>
       /\ correct \in BOOLEAN
       /\ correct <=> \E i \in DOMAIN item.refs : Paired(i)

RowsOfIt == 1..Len(Got)
Frames == [r : RowsOfIt, g : 1..Len(Got) + 1]
Fits(g, r) == RowContains(Got[g], Ref[r])
Root == stack[1].r

Searching ==
  grading = "search" =>
    /\ ~item.order_matters
    /\ Len(Got) = Len(Ref)
    /\ owner \in [RowsOfIt -> 0..Len(Got)] /\ seen \subseteq RowsOfIt
    /\ stack \in Seq(Frames) /\ stack # <<>>

\* The reference rows before the root have each a row that contains them.
Owning ==
  grading = "search" =>
    /\ \A g \in RowsOfIt : owner[g] # 0 => owner[g] < Root /\ Fits(g, owner[g])
    /\ \A g, h \in RowsOfIt : owner[g] # 0 /\ owner[g] = owner[h] => g = h
    /\ \A r \in 1..Root - 1 : \E g \in RowsOfIt : owner[g] = r

\* The calls under way: each is at a row of its own, whose owner calls the next.
Path(calls) ==
  /\ \A i \in 1..Len(calls) - 1 :
       calls[i].g \in seen /\ owner[calls[i].g] = calls[i + 1].r /\ Fits(calls[i].g, calls[i].r)
  /\ \A i, j \in 1..Len(calls) - 1 : calls[i].g = calls[j].g => i = j

\* A call has tried the rows before the one it is at; whoever lost a row and is not looking for
\* another has tried them all.
Tried(r) == \A g \in RowsOfIt : Fits(g, r) => g \in seen

Exhausted(calls) ==
  /\ \A i \in DOMAIN calls :
       \A g \in RowsOfIt : g < calls[i].g /\ Fits(g, calls[i].r) => g \in seen
  /\ \A g \in seen :
       owner[g] # 0 /\ ((\E i \in DOMAIN calls : calls[i].r = owner[g]) \/ Tried(owner[g]))

Looking == grading = "search" => Path(stack) /\ Exhausted(stack)

GInv == Compared /\ Searching /\ Owning /\ Looking

-----------------------------------------------------------------------------
(* The stack of calls. *)

LEMMA ItemTypes ==
  ASSUME item \in AnsweredItems
  PROVE  /\ Got \in Seq(Seq(Values)) /\ Len(Got) \in Nat /\ DOMAIN Got = RowsOfIt
         /\ item.refs \in Seq(Seq(Seq(Values))) /\ Len(item.refs) \in Nat
         /\ DOMAIN item.refs = 1..Len(item.refs)
         /\ \A i \in DOMAIN item.refs : item.refs[i] \in Seq(Seq(Values))
  BY AnswersAssumption DEF Got, RowsOfIt

LEMMA Stacks ==
  ASSUME Compared, Searching, grading = "search"
  PROVE  /\ Len(Got) \in Nat /\ Len(stack) \in Nat \ {0} /\ DOMAIN stack = 1..Len(stack)
         /\ \A i \in 1..Len(stack) : stack[i].r \in RowsOfIt /\ stack[i].g \in 1..Len(Got) + 1
         /\ Call = stack[Len(stack)] /\ Root \in RowsOfIt /\ Root \in Nat
<1>1. stack \in Seq(Frames) /\ stack # <<>>
  BY DEF Searching
<1>2. Len(Got) \in Nat
  BY ItemTypes DEF Compared
<1>3. Len(stack) \in Nat \ {0} /\ DOMAIN stack = 1..Len(stack)
  BY <1>1
<1>4. \A i \in 1..Len(stack) : stack[i] \in Frames
  BY <1>1, <1>3
<1>5. \A i \in 1..Len(stack) : stack[i].r \in RowsOfIt /\ stack[i].g \in 1..Len(Got) + 1
  BY <1>4 DEF Frames
<1>6. Root \in RowsOfIt /\ Root \in Nat
  BY <1>2, <1>3, <1>5 DEF Root, RowsOfIt
<1>. QED
  BY <1>2, <1>3, <1>5, <1>6 DEF Call, Last

\* A call looks at the next row.
LEMMA Advanced ==
  ASSUME NEW F, NEW frames \in Seq(F), frames # <<>>, NEW s, s = Advance(frames),
         \A frame \in F : frame = [r |-> frame.r, g |-> frame.g]
  PROVE  /\ Len(s) = Len(frames) /\ DOMAIN s = DOMAIN frames
         /\ \A i \in 1..Len(frames) : i # Len(frames) => s[i] = frames[i]
         /\ s[Len(frames)] = [r |-> frames[Len(frames)].r, g |-> frames[Len(frames)].g + 1]
         /\ s = [i \in 1..Len(frames) |-> s[i]]
<1>. DEFINE n == Len(frames)
<1>1. n \in Nat \ {0} /\ DOMAIN frames = 1..n /\ n \in 1..n /\ frames \in [1..n -> F]
  OBVIOUS
<1>2. s = [frames EXCEPT ![n].g = frames[n].g + 1]
  BY DEF Advance
<1>3. DOMAIN s = 1..n /\ \A i \in 1..n : i # n => s[i] = frames[i]
  BY <1>1, <1>2
<1>4. s[n] = [frames[n] EXCEPT !.g = frames[n].g + 1]
  BY <1>1, <1>2
<1>5. frames[n] = [r |-> frames[n].r, g |-> frames[n].g]
  BY <1>1
<1>6. s[n] = [r |-> frames[n].r, g |-> frames[n].g + 1]
  BY <1>4, <1>5
<1>7. s = [i \in 1..n |-> s[i]]
  BY <1>1, <1>2
<1>8. Len(s) = n
  BY <1>1, <1>7
<1>. QED
  BY <1>1, <1>3, <1>6, <1>7, <1>8

\* The call returns, and its caller goes on.
LEMMA Popped ==
  ASSUME NEW F, NEW frames \in Seq(F), Len(frames) > 1, NEW s, s = Front(frames)
  PROVE  /\ s \in Seq(F) /\ s # <<>> /\ Len(s) = Len(frames) - 1
         /\ \A i \in 1..Len(frames) - 1 : s[i] = frames[i]
<1>1. s = SubSeq(frames, 1, Len(frames) - 1) /\ Len(frames) \in Nat /\ Len(frames) > 1
  BY DEF Front
<1>2. \A i \in 1..Len(frames) - 1 : frames[i] \in F
  BY <1>1
<1>3. s \in Seq(F) /\ Len(s) = Len(frames) - 1 /\ \A i \in 1..Len(frames) - 1 : s[i] = frames[i]
  BY <1>1, <1>2
<1>4. Len(s) > 0
  BY <1>1, <1>3
<1>5. s # <<>>
  BY <1>4
<1>. QED
  BY <1>1, <1>3, <1>5

-----------------------------------------------------------------------------
(* A comparison ends. *)

LEMMA NoSearch ==
  ASSUME grading' # "search"
  PROVE  Searching' /\ Owning' /\ Looking'
  BY DEF Searching, Owning, Looking

LEMMA VerdictHolds ==
  ASSUME Compared, grading \in {"compare", "search"}, NEW same \in BOOLEAN, same <=> Paired(alt),
         Verdict(same)
  PROVE  GInv'
<1>1. /\ item' = item /\ seen' = {}
      /\ IF same \/ alt = Len(item.refs)
         THEN correct' = same /\ grading' = "done" /\ alt' = alt
         ELSE alt' = alt + 1 /\ grading' = "compare" /\ correct' = correct
  BY DEF Verdict
<1>2. /\ item \in AnsweredItems /\ item.kind = "sql" /\ ~item.error /\ alt \in DOMAIN item.refs
      /\ \A i \in 1..alt - 1 : ~Paired(i)
  BY DEF Compared
<1>3. Len(item.refs) \in Nat /\ DOMAIN item.refs = 1..Len(item.refs)
  BY <1>2, ItemTypes
<1>4. \A i : Paired(i)' <=> Paired(i)
  BY <1>1 DEF Paired, Got
<1>5. CASE same \/ alt = Len(item.refs)
  <2>1. correct' = same /\ grading' = "done"
    BY <1>1, <1>5
  <2>2. same <=> \E i \in DOMAIN item.refs : Paired(i)
    <3>1. CASE same
      BY <1>2, <3>1
    <3>2. CASE ~same
      <4>1. alt = Len(item.refs) /\ ~Paired(alt)
        BY <1>5, <3>2
      <4>2. \A i \in 1..Len(item.refs) : i \in 1..alt - 1 \/ i = alt
        BY <1>3, <4>1
      <4>. QED
        BY <1>2, <1>3, <3>2, <4>1, <4>2
    <3>. QED
      BY <3>1, <3>2
  <2>3. Compared'
    BY <1>1, <1>2, <1>4, <2>1, <2>2 DEF Compared
  <2>. QED
    BY <2>1, <2>3, NoSearch DEF GInv
<1>6. CASE ~same /\ alt # Len(item.refs)
  <2>1. alt' = alt + 1 /\ grading' = "compare" /\ ~Paired(alt)
    BY <1>1, <1>6
  <2>2. alt' \in DOMAIN item'.refs
    BY <1>1, <1>2, <1>3, <1>6, <2>1
  <2>3. \A i \in 1..alt' - 1 : ~Paired(i)
    <3>1. \A i \in 1..alt' - 1 : i \in 1..alt - 1 \/ i = alt
      BY <1>2, <1>3, <2>1
    <3>. QED
      BY <1>2, <2>1, <3>1
  <2>4. Compared'
    BY <1>1, <1>2, <1>4, <2>1, <2>2, <2>3 DEF Compared
  <2>. QED
    BY <2>1, <2>4, NoSearch DEF GInv
<1>. QED
  BY <1>5, <1>6

LEMMA GradeItemHolds == GInv /\ GradeItem => GInv'
<1>. SUFFICES ASSUME GInv, GradeItem PROVE GInv'
  OBVIOUS
<1>1. /\ grading = "start" /\ alt = 1 /\ seen = {} /\ item \in AnsweredItems
      /\ item' = item /\ alt' = alt /\ seen' = seen
      /\ grading' = IF item.kind = "sql" /\ ~item.error THEN "compare" ELSE "done"
      /\ item.kind = "sql" /\ item.error => grading' = "done"
  BY DEF GradeItem, GInv, Compared
<1>2. item.kind = "sql" => alt \in DOMAIN item.refs
  <2>1. item.kind = "sql" => item.refs # <<>> /\ item.refs \in Seq(Seq(Seq(Values)))
    BY <1>1, AnswersAssumption
  <2>. QED
    BY <1>1, <2>1
<1>3. Compared'
  BY <1>1, <1>2 DEF Compared
<1>. QED
  BY <1>1, <1>3, NoSearch DEF GInv

LEMMA CompareHolds == GInv /\ Compare => GInv'
<1>. SUFFICES ASSUME GInv, Compare PROVE GInv'
  OBVIOUS
<1>1. /\ grading = "compare" /\ Compared /\ seen = {}
      /\ item \in AnsweredItems /\ item.kind = "sql" /\ ~item.error /\ alt \in DOMAIN item.refs
      /\ \A i \in 1..alt - 1 : ~Paired(i)
  BY DEF Compare, GInv, Compared
<1>2. /\ Got \in Seq(Seq(Values)) /\ Len(Got) \in Nat /\ DOMAIN Got = RowsOfIt
      /\ RowsOfIt = 1..Len(Got) /\ Ref \in Seq(Seq(Values)) /\ DOMAIN Ref = 1..Len(Ref)
  BY <1>1, ItemTypes DEF Ref, RowsOfIt
<1>3. Paired(alt) <=>
        /\ Len(Got) = Len(Ref)
        /\ \E p \in [DOMAIN Ref -> DOMAIN Got] :
             /\ IsInjective(p) /\ (item.order_matters => \A i \in DOMAIN Ref : p[i] = i)
             /\ \A i \in DOMAIN Ref : RowContains(Got[p[i]], Ref[i])
  BY DEF Paired, PairedRows, Ref
<1>4. CASE Len(Got) # Len(Ref)
  <2>1. Verdict(FALSE)
    BY <1>4 DEF Compare
  <2>2. ~Paired(alt)
    BY <1>3, <1>4
  <2>. QED
    BY <1>1, <2>1, <2>2, VerdictHolds
<1>5. CASE Len(Got) = Len(Ref) /\ item.order_matters
  <2>. DEFINE same == \A i \in DOMAIN Got : RowContains(Got[i], Ref[i])
              id == [i \in DOMAIN Ref |-> i]
  <2>1. Verdict(same)
    BY <1>5 DEF Compare
  <2>2. same => Paired(alt)
    <3>. SUFFICES ASSUME same PROVE Paired(alt)
      OBVIOUS
    <3>1. DOMAIN Ref = DOMAIN Got
      BY <1>2, <1>5
    <3>2. id \in [DOMAIN Ref -> DOMAIN Got] /\ IsInjective(id)
      BY <3>1 DEF IsInjective
    <3>3. \A i \in DOMAIN Ref : id[i] = i /\ RowContains(Got[id[i]], Ref[i])
      BY <3>1
    <3>. QED
      BY <1>3, <1>5, <3>2, <3>3
  <2>3. Paired(alt) => same
    <3>. SUFFICES ASSUME Paired(alt), NEW i \in DOMAIN Got PROVE RowContains(Got[i], Ref[i])
      OBVIOUS
    <3>1. i \in DOMAIN Ref
      BY <1>2, <1>5
    <3>. QED
      BY <1>3, <1>5, <3>1
  <2>4. same \in BOOLEAN
    OBVIOUS
  <2>. HIDE DEF same
  <2>. QED
    BY <1>1, <2>1, <2>2, <2>3, <2>4, VerdictHolds
<1>6. CASE Len(Got) = Len(Ref) /\ ~item.order_matters /\ Got = <<>>
  <2>1. Verdict(TRUE)
    BY <1>6 DEF Compare
  <2>2. Paired(alt)
    <3>. DEFINE p == [i \in DOMAIN Ref |-> i]
    <3>1. DOMAIN Ref = {}
      BY <1>2, <1>6
    <3>2. p \in [DOMAIN Ref -> DOMAIN Got] /\ IsInjective(p)
      BY <3>1 DEF IsInjective
    <3>. QED
      BY <1>3, <1>6, <3>1, <3>2
  <2>. QED
    BY <1>1, <2>1, <2>2, VerdictHolds
<1>7. CASE Len(Got) = Len(Ref) /\ ~item.order_matters /\ Got # <<>>
  <2>1. /\ grading' = "search" /\ stack' = <<Frame(1)>> /\ owner' = [g \in DOMAIN Got |-> 0]
        /\ item' = item /\ alt' = alt /\ seen' = {}
    BY <1>1, <1>7 DEF Compare
  <2>2. Len(Got) \in Nat \ {0} /\ 1 \in RowsOfIt
    BY <1>2, <1>7
  <2>3. /\ Got' = Got /\ Ref' = Ref /\ RowsOfIt' = RowsOfIt /\ Frames' = Frames
        /\ \A i : Paired(i)' <=> Paired(i)
    BY <2>1 DEF Got, Ref, RowsOfIt, Frames, Paired
  <2>4. Compared'
    BY <1>1, <2>1, <2>3 DEF Compared
  <2>5. Frame(1) \in Frames /\ Frame(1).r = 1 /\ Frame(1).g = 1
    BY <2>2 DEF Frame, Frames, RowsOfIt
  <2>6. /\ stack' \in Seq(Frames) /\ stack' # <<>> /\ Len(stack') = 1 /\ DOMAIN stack' = {1}
        /\ stack'[1] = Frame(1) /\ Root' = 1
    BY <2>1, <2>5 DEF Root
  <2>7. Searching'
    BY <1>2, <1>7, <2>1, <2>3, <2>6 DEF Searching
  <2>8. Owning' /\ Path(stack)'
    BY <1>2, <2>1, <2>3, <2>6 DEF Owning, Path
  <2>9. Exhausted(stack)'
    <3>1. \A g \in RowsOfIt : ~(g < 1)
      BY <1>2
    <3>. QED
      BY <2>1, <2>3, <2>5, <2>6, <3>1 DEF Exhausted
  <2>. QED
    BY <2>4, <2>7, <2>8, <2>9 DEF GInv, Looking
<1>. QED
  BY <1>4, <1>5, <1>6, <1>7

-----------------------------------------------------------------------------
(* The steps of the search. *)

LEMMA Listed ==
  ASSUME NEW F, NEW n \in Nat, NEW s, s = [i \in 1..n |-> s[i]], \A i \in 1..n : s[i] \in F
  PROVE  s \in Seq(F)
<1>1. s \in [1..n -> F]
  OBVIOUS
<1>. QED
  BY <1>1

LEMMA SameItem ==
  ASSUME item' = item, alt' = alt
  PROVE  /\ Got' = Got /\ Ref' = Ref /\ RowsOfIt' = RowsOfIt /\ Frames' = Frames
         /\ \A i : Paired(i)' <=> Paired(i)
         /\ \A g, r : Fits(g, r)' <=> Fits(g, r)
  BY DEF Got, Ref, RowsOfIt, Frames, Paired, Fits

LEMMA FrameTypes == \A frame \in Frames : frame = [r |-> frame.r, g |-> frame.g]
  BY DEF Frames

\* The last call goes on, past a row it cannot have.
LEMMA NextRow ==
  ASSUME Compared, Searching, Owning, grading = "search",
         item' = item, alt' = alt, grading' = grading, owner' = owner, seen' = seen,
         NEW calls \in Seq(Frames), calls # <<>>, calls[1].r = Root,
         Path(calls), Exhausted(calls),
         calls[Len(calls)].g <= Len(Got),
         calls[Len(calls)].g \in seen \/ ~Fits(calls[Len(calls)].g, calls[Len(calls)].r),
         stack' = Advance(calls)
  PROVE  GInv'
<1>. DEFINE n == Len(calls)
            top == calls[n]
            s == stack'
<1>1. n \in Nat \ {0} /\ DOMAIN calls = 1..n /\ \A i \in 1..n : calls[i] \in Frames
  OBVIOUS
<1>2. Len(Got) \in Nat /\ RowsOfIt = 1..Len(Got)
  BY ItemTypes DEF Compared, RowsOfIt
<1>3. \A i \in 1..n : calls[i].r \in RowsOfIt /\ calls[i].g \in 1..Len(Got) + 1
  BY <1>1 DEF Frames
<1>4. /\ Len(s) = n /\ DOMAIN s = 1..n /\ \A i \in 1..n : i # n => s[i] = calls[i]
      /\ s[n] = [r |-> top.r, g |-> top.g + 1] /\ s = [i \in 1..n |-> s[i]]
  BY <1>1, FrameTypes, Advanced
<1>5. \A i \in 1..n : s[i].r = calls[i].r /\ (i # n => s[i].g = calls[i].g)
  BY <1>4
<1>6. s[n].g = top.g + 1
  BY <1>4
<1>. HIDE DEF s, n
<1>7. /\ Got' = Got /\ Ref' = Ref /\ RowsOfIt' = RowsOfIt /\ Frames' = Frames
      /\ \A i : Paired(i)' <=> Paired(i)
      /\ \A g, r : Fits(g, r)' <=> Fits(g, r)
  BY SameItem
<1>8. Compared'
  BY <1>7 DEF Compared
<1>9. s \in Seq(Frames)
  <2>1. s[n] \in Frames
    <3>1. top.r \in RowsOfIt /\ top.g + 1 \in 1..Len(Got) + 1
      BY <1>1, <1>2, <1>3 DEF n
    <3>. QED
      BY <1>4, <3>1 DEF Frames
  <2>2. \A i \in 1..n : s[i] \in Frames
    BY <1>1, <1>4, <2>1
  <2>. QED
    BY <1>1, <1>4, <2>2, Listed
<1>10. s # <<>> /\ s[1].r = Root
  BY <1>1, <1>4, <1>5
<1>11. Searching'
  BY <1>7, <1>9, <1>10 DEF Searching, s
<1>12. Owning'
  BY <1>7, <1>10 DEF Owning, Root, s
<1>13. Path(stack)'
  <2>1. \A i \in 1..n - 1 : i \in 1..n /\ i # n /\ i + 1 \in 1..n
    BY <1>1
  <2>. QED
    BY <1>4, <1>5, <1>7, <2>1 DEF Path, n, s
<1>14. Exhausted(stack)'
  <2>1. ASSUME NEW i \in 1..n, NEW g \in RowsOfIt, g < s[i].g, Fits(g, s[i].r)
        PROVE  g \in seen
    <3>1. CASE i # n
      BY <1>1, <1>5, <2>1, <3>1 DEF Exhausted
    <3>2. CASE i = n
      <4>1. g < top.g \/ g = top.g
        BY <1>1, <1>2, <1>3, <1>6, <2>1, <3>2
      <4>2. Fits(g, top.r)
        BY <1>5, <2>1, <3>2
      <4>. QED
        BY <1>1, <4>1, <4>2 DEF Exhausted, n
    <3>. QED
      BY <3>1, <3>2
  <2>2. ASSUME NEW g \in seen
        PROVE  owner[g] # 0 /\ ((\E i \in 1..n : s[i].r = owner[g]) \/ Tried(owner[g]))
    BY <1>1, <1>5 DEF Exhausted
  <2>3. \A r : Tried(r)' <=> Tried(r)
    BY <1>7 DEF Tried
  <2>. QED
    BY <1>4, <1>7, <2>1, <2>2, <2>3 DEF Exhausted, s
<1>. QED
  BY <1>8, <1>11, <1>12, <1>13, <1>14 DEF GInv, Looking, s

LEMMA SkipHolds == GInv /\ Skip => GInv'
<1>. SUFFICES ASSUME GInv, Skip PROVE GInv'
  OBVIOUS
<1>1. /\ grading = "search" /\ Call.g <= Len(Got) /\ ~Usable(Call.g) /\ stack' = Advance(stack)
      /\ item' = item /\ grading' = grading /\ alt' = alt /\ owner' = owner /\ seen' = seen
      /\ Compared /\ Searching /\ Owning /\ Path(stack) /\ Exhausted(stack)
      /\ stack \in Seq(Frames) /\ stack # <<>>
  BY DEF Skip, GInv, Looking, Searching
<1>2. Call = stack[Len(stack)] /\ stack[1].r = Root
  BY DEF Call, Last, Root
<1>3. Call.g \in seen \/ ~Fits(Call.g, Call.r)
  BY <1>1 DEF Usable, Fits
<1>. QED
  BY <1>1, <1>2, <1>3, NextRow

LEMMA DisplaceHolds == GInv /\ Displace => GInv'
<1>. SUFFICES ASSUME GInv, Displace PROVE GInv'
  OBVIOUS
<1>. DEFINE n == Len(stack)
            s == stack'
            g0 == Call.g
<1>1. /\ grading = "search" /\ g0 <= Len(Got) /\ g0 \notin seen /\ Fits(g0, Call.r)
      /\ owner[g0] # 0 /\ seen' = seen \cup {g0} /\ s = Append(stack, Frame(owner[g0]))
      /\ item' = item /\ grading' = grading /\ alt' = alt /\ owner' = owner
      /\ Compared /\ Searching /\ Owning /\ Path(stack) /\ Exhausted(stack)
      /\ stack \in Seq(Frames) /\ stack # <<>>
  BY DEF Displace, Usable, SeenWith, Fits, GInv, Looking, Searching
<1>2. /\ Len(Got) \in Nat /\ n \in Nat \ {0} /\ DOMAIN stack = 1..n /\ Call = stack[n]
      /\ RowsOfIt = 1..Len(Got)
      /\ \A i \in 1..n : stack[i].r \in RowsOfIt /\ stack[i].g \in 1..Len(Got) + 1
  BY <1>1, Stacks DEF RowsOfIt
<1>3. g0 \in RowsOfIt /\ owner[g0] \in RowsOfIt
  <2>1. g0 \in RowsOfIt
    BY <1>1, <1>2
  <2>. QED
    BY <1>1, <1>2, <2>1 DEF Searching
<1>4. /\ Frame(owner[g0]) \in Frames /\ Frame(owner[g0]).r = owner[g0] /\ Frame(owner[g0]).g = 1
  BY <1>2, <1>3 DEF Frame, Frames
<1>5. /\ s \in Seq(Frames) /\ Len(s) = n + 1 /\ DOMAIN s = 1..n + 1 /\ s # <<>>
      /\ \A i \in 1..n : s[i] = stack[i]
      /\ s[n + 1].r = owner[g0] /\ s[n + 1].g = 1
  <2>1. Append(stack, Frame(owner[g0])) # <<>>
    BY <1>1, <1>4
  <2>. QED
    BY <1>1, <1>4, <2>1
<1>6. /\ Got' = Got /\ Ref' = Ref /\ RowsOfIt' = RowsOfIt /\ Frames' = Frames
      /\ \A i : Paired(i)' <=> Paired(i)
      /\ \A g, r : Fits(g, r)' <=> Fits(g, r)
  BY <1>1, SameItem
<1>. HIDE DEF s, n, g0
<1>7. Compared'
  BY <1>1, <1>6 DEF Compared
<1>8. s[1].r = Root
  BY <1>2, <1>5 DEF Root
<1>9. seen' \subseteq RowsOfIt
  BY <1>1, <1>3 DEF Searching
<1>10. Searching'
  BY <1>1, <1>5, <1>6, <1>9 DEF Searching, s
<1>11. Owning'
  BY <1>1, <1>6, <1>8 DEF Owning, Root, s
<1>12. \A i : i \in 1..n <=> i \in 1..n - 1 \/ i = n
  BY <1>2
<1>13. \A i \in 1..n - 1 : i \in 1..n /\ i + 1 \in 1..n /\ stack[i].g \in seen /\ stack[i].g # g0
                        /\ owner[stack[i].g] = stack[i + 1].r /\ Fits(stack[i].g, stack[i].r)
  BY <1>1, <1>2 DEF Path, n
<1>14. stack[n].g = g0 /\ Fits(g0, stack[n].r)
  BY <1>1, <1>2 DEF g0
<1>15. Path(stack)'
  <2>1. ASSUME NEW i \in 1..n
        PROVE  s[i].g \in seen' /\ owner[s[i].g] = s[i + 1].r /\ Fits(s[i].g, s[i].r)
    <3>1. CASE i \in 1..n - 1
      BY <1>1, <1>5, <1>13, <3>1
    <3>2. CASE i = n
      BY <1>1, <1>2, <1>5, <1>14, <3>2
    <3>. QED
      BY <1>12, <3>1, <3>2
  <2>2. ASSUME NEW i \in 1..n, NEW j \in 1..n, s[i].g = s[j].g
        PROVE  i = j
    <3>1. CASE i \in 1..n - 1 /\ j \in 1..n - 1
      BY <1>1, <1>5, <1>13, <2>2, <3>1 DEF Path, n
    <3>2. CASE i = n \/ j = n
      BY <1>5, <1>12, <1>13, <1>14, <2>2, <3>2
    <3>. QED
      BY <1>12, <3>1, <3>2
  <2>3. Len(s) - 1 = n
    BY <1>2, <1>5
  <2>. QED
    BY <1>1, <1>5, <1>6, <2>1, <2>2, <2>3 DEF Path, s
<1>16. Exhausted(stack)'
  <2>1. ASSUME NEW i \in 1..n + 1, NEW g \in RowsOfIt, g < s[i].g, Fits(g, s[i].r)
        PROVE  g \in seen'
    <3>1. CASE i \in 1..n
      BY <1>1, <1>2, <1>5, <2>1, <3>1 DEF Exhausted
    <3>2. CASE i = n + 1
      BY <1>2, <1>5, <2>1, <3>2
    <3>. QED
      BY <1>2, <3>1, <3>2
  <2>2. \A r : Tried(r) => Tried(r)'
    BY <1>1, <1>6 DEF Tried
  <2>3. ASSUME NEW g \in seen'
        PROVE  owner[g] # 0 /\ ((\E i \in 1..n + 1 : s[i].r = owner[g]) \/ Tried(owner[g])')
    <3>1. CASE g \in seen
      <4>1. owner[g] # 0 /\ ((\E i \in 1..n : stack[i].r = owner[g]) \/ Tried(owner[g]))
        BY <1>1, <1>2, <3>1 DEF Exhausted
      <4>. QED
        BY <1>1, <1>2, <1>5, <2>2, <4>1
    <3>2. CASE g = g0
      BY <1>1, <1>2, <1>5, <3>2
    <3>. QED
      BY <1>1, <3>1, <3>2
  <2>. QED
    BY <1>1, <1>5, <1>6, <2>1, <2>3 DEF Exhausted, s
<1>. QED
  BY <1>7, <1>10, <1>11, <1>15, <1>16 DEF GInv, Looking, s

\* The last call has been through all rows: it returns False.
LEMMA CallFailed ==
  ASSUME GInv, Fail
  PROVE  /\ \A g \in RowsOfIt : Fits(g, stack[Len(stack)].r) => g \in seen
         /\ Tried(stack[Len(stack)].r)
<1>1. /\ grading = "search" /\ Call.g > Len(Got) /\ Compared /\ Searching /\ Exhausted(stack)
  BY DEF Fail, GInv, Looking
<1>2. /\ Len(Got) \in Nat /\ Len(stack) \in DOMAIN stack /\ Call = stack[Len(stack)]
      /\ Call.g \in 1..Len(Got) + 1
  BY <1>1, Stacks
<1>3. \A g \in RowsOfIt : g < Call.g
  BY <1>1, <1>2 DEF RowsOfIt
<1>. QED
  BY <1>1, <1>2, <1>3 DEF Exhausted, Tried

\* With no caller left, the reference rows tried fit fewer rows than they are.
LEMMA NotPaired ==
  ASSUME GInv, Fail, Len(stack) = 1
  PROVE  ~Paired(alt)
<1>1. /\ grading = "search" /\ Compared /\ Searching /\ Owning /\ Exhausted(stack)
      /\ Len(Got) = Len(Ref) /\ owner \in [RowsOfIt -> 0..Len(Got)] /\ seen \subseteq RowsOfIt
      /\ item \in AnsweredItems /\ alt \in DOMAIN item.refs
  BY DEF Fail, GInv, Looking, Searching, Compared
<1>2. /\ Len(Got) \in Nat /\ DOMAIN stack = {1} /\ Root \in RowsOfIt /\ Root \in Nat
      /\ RowsOfIt = 1..Len(Got)
  <2>1. Len(Got) \in Nat /\ DOMAIN stack = 1..1 /\ Root \in RowsOfIt /\ Root \in Nat
    BY <1>1, Stacks
  <2>. QED
    BY <2>1 DEF RowsOfIt
<1>3. DOMAIN Got = RowsOfIt /\ DOMAIN Ref = RowsOfIt
  <2>1. Ref \in Seq(Seq(Values)) /\ DOMAIN Got = RowsOfIt
    BY <1>1, ItemTypes DEF Ref
  <2>. QED
    BY <1>1, <2>1 DEF RowsOfIt
<1>4. Tried(Root)
  BY CallFailed DEF Root
<1>5. \A g \in seen : owner[g] \in RowsOfIt /\ owner[g] # Root /\ Tried(owner[g])
  <2>. SUFFICES ASSUME NEW g \in seen
                PROVE  owner[g] \in RowsOfIt /\ owner[g] # Root /\ Tried(owner[g])
    OBVIOUS
  <2>1. g \in RowsOfIt /\ owner[g] # 0 /\ owner[g] \in RowsOfIt
    BY <1>1, <1>2 DEF Exhausted
  <2>2. owner[g] < Root
    BY <1>1, <2>1 DEF Owning
  <2>3. owner[g] # Root
    BY <1>2, <2>1, <2>2
  <2>4. (\E i \in {1} : stack[i].r = owner[g]) \/ Tried(owner[g])
    BY <1>1, <1>2 DEF Exhausted
  <2>. QED
    BY <2>1, <2>3, <2>4 DEF Root
<1>. SUFFICES ASSUME Paired(alt) PROVE FALSE
  OBVIOUS
<1>6. PICK p \in [RowsOfIt -> RowsOfIt] : IsInjective(p) /\ \A i \in RowsOfIt : Fits(p[i], i)
  <2>1. \E p \in [DOMAIN Ref -> DOMAIN Got] :
          IsInjective(p) /\ \A i \in DOMAIN Ref : RowContains(Got[p[i]], Ref[i])
    BY DEF Paired, PairedRows, Ref
  <2>. QED
    BY <1>3, <2>1 DEF Fits
<1>. DEFINE lost == seen \cup {0}
            of(g) == IF g = 0 THEN Root ELSE owner[g]
            f == [g \in lost |-> p[of(g)]]
<1>7. 0 \notin seen /\ 0 \notin RowsOfIt
  BY <1>1, <1>2
<1>8. \A g \in lost : of(g) \in RowsOfIt /\ Tried(of(g))
  BY <1>2, <1>4, <1>5, <1>7
<1>9. \A g, h \in lost : of(g) = of(h) => g = h
  <2>. SUFFICES ASSUME NEW g \in lost, NEW h \in lost, of(g) = of(h) PROVE g = h
    OBVIOUS
  <2>1. CASE g = 0 \/ h = 0
    BY <1>5, <1>7, <2>1
  <2>2. CASE g \in seen /\ h \in seen
    <3>1. owner[g] = owner[h] /\ owner[g] # 0
      BY <1>5, <1>7, <2>2
    <3>. QED
      BY <1>1, <2>2, <3>1 DEF Owning
  <2>. QED
    BY <2>1, <2>2
<1>10. f \in [lost -> seen]
  <2>. SUFFICES ASSUME NEW g \in lost PROVE p[of(g)] \in seen
    OBVIOUS
  <2>1. of(g) \in RowsOfIt /\ Tried(of(g))
    BY <1>8
  <2>. HIDE DEF of
  <2>2. p[of(g)] \in RowsOfIt /\ Fits(p[of(g)], of(g))
    BY <1>6, <2>1
  <2>. QED
    BY <2>1, <2>2 DEF Tried
<1>11. \A g, h \in lost : f[g] = f[h] => g = h
  <2>. SUFFICES ASSUME NEW g \in lost, NEW h \in lost, f[g] = f[h] PROVE g = h
    OBVIOUS
  <2>1. of(g) \in RowsOfIt /\ of(h) \in RowsOfIt /\ p[of(g)] = p[of(h)]
    BY <1>8
  <2>. HIDE DEF of
  <2>2. of(g) = of(h)
    BY <1>6, <2>1 DEF IsInjective
  <2>. QED
    BY <1>9, <2>2
<1>12. /\ IsFiniteSet(seen) /\ IsFiniteSet(lost) /\ Cardinality(seen) \in Nat
       /\ Cardinality(lost) = Cardinality(seen) + 1
  <2>1. IsFiniteSet(RowsOfIt)
    BY <1>2, FS_Interval
  <2>2. IsFiniteSet(seen)
    BY <1>1, <2>1, FS_Subset
  <2>. QED
    BY <1>7, <2>2, FS_AddElement, FS_CardinalityType
<1>. HIDE DEF f, lost
<1>13. Cardinality(seen) < Cardinality(lost)
  BY <1>12
<1>. QED
  BY <1>10, <1>11, <1>12, <1>13, FS_PigeonHole

LEMMA FailHolds == GInv /\ Fail => GInv'
<1>. SUFFICES ASSUME GInv, Fail PROVE GInv'
  OBVIOUS
<1>. DEFINE n == Len(stack)
            calls == Front(stack)
<1>1. /\ grading = "search" /\ Compared /\ Searching /\ Owning /\ Path(stack) /\ Exhausted(stack)
      /\ stack \in Seq(Frames) /\ seen \subseteq RowsOfIt
      /\ \A g \in RowsOfIt : Fits(g, stack[n].r) => g \in seen
      /\ Tried(stack[n].r)
  BY CallFailed DEF Fail, GInv, Looking, Searching
<1>2. /\ Len(Got) \in Nat /\ n \in Nat \ {0} /\ DOMAIN stack = 1..n
      /\ RowsOfIt = 1..Len(Got)
      /\ \A i \in 1..n : stack[i].r \in RowsOfIt /\ stack[i].g \in 1..Len(Got) + 1
  BY <1>1, Stacks DEF RowsOfIt
<1>3. CASE n = 1
  <2>1. Verdict(FALSE)
    BY <1>3 DEF Fail
  <2>. QED
    BY <1>1, <1>3, <2>1, NotPaired, VerdictHolds
<1>4. CASE n > 1
  <2>1. /\ stack' = Advance(calls) /\ item' = item /\ grading' = grading /\ alt' = alt
        /\ owner' = owner /\ seen' = seen
    <3>1. ~(n = 1)
      BY <1>2, <1>4
    <3>. QED
      BY <3>1 DEF Fail
  <2>2. /\ calls \in Seq(Frames) /\ calls # <<>> /\ Len(calls) = n - 1
        /\ \A i \in 1..n - 1 : calls[i] = stack[i]
    BY <1>1, <1>4, Popped
  <2>. HIDE DEF calls, n
  <2>3. calls[1].r = Root /\ DOMAIN calls = 1..n - 1 /\ n - 1 \in 1..n - 1
    BY <1>2, <1>4, <2>2 DEF Root
  <2>4. \A i \in 1..n - 1 : stack[i].g \in seen
    BY <1>1 DEF Path, n
  <2>5. calls[Len(calls)].g <= Len(Got) /\ calls[Len(calls)].g \in seen
    BY <1>1, <1>2, <2>2, <2>3, <2>4
  <2>6. Path(calls)
    <3>1. \A i \in 1..Len(calls) - 1 : i \in 1..n - 1 /\ i + 1 \in 1..n - 1
      BY <1>2, <2>2
    <3>. QED
      BY <1>1, <2>2, <3>1 DEF Path, n
  <2>7. Exhausted(calls)
    <3>1. ASSUME NEW i \in 1..n - 1, NEW g \in RowsOfIt, g < calls[i].g, Fits(g, calls[i].r)
          PROVE  g \in seen
      <4>1. i \in DOMAIN stack
        BY <1>2
      <4>. QED
        BY <1>1, <2>2, <3>1, <4>1 DEF Exhausted
    <3>2. ASSUME NEW g \in seen
          PROVE  owner[g] # 0 /\ ((\E i \in 1..n - 1 : calls[i].r = owner[g]) \/ Tried(owner[g]))
      <4>1. owner[g] # 0 /\ ((\E i \in 1..n : stack[i].r = owner[g]) \/ Tried(owner[g]))
        BY <1>1, <1>2 DEF Exhausted
      <4>2. \A i \in 1..n : i \in 1..n - 1 \/ i = n
        BY <1>2
      <4>. QED
        BY <1>1, <2>2, <4>1, <4>2
    <3>. QED
      BY <2>3, <3>1, <3>2 DEF Exhausted
  <2>. QED
    BY <1>1, <2>1, <2>2, <2>3, <2>5, <2>6, <2>7, NextRow
<1>. QED
  BY <1>2, <1>3, <1>4

-----------------------------------------------------------------------------
(* A free row: every call under way keeps its own. *)

\* The calls are at different rows, each of which fits, and the last one is free.
LEMMA AtFreeRow ==
  ASSUME GInv, Assign
  PROVE  /\ \A i \in 1..Len(stack) : stack[i].g \in RowsOfIt /\ Fits(stack[i].g, stack[i].r)
         /\ \A i, j \in 1..Len(stack) : stack[i].g = stack[j].g => i = j
         /\ \A i \in 1..Len(stack) - 1 : owner[stack[i].g] = stack[i + 1].r
         /\ owner[stack[Len(stack)].g] = 0
<1>. DEFINE n == Len(stack)
<1>1. /\ grading = "search" /\ Compared /\ Searching /\ Path(stack) /\ seen \subseteq RowsOfIt
      /\ Call.g <= Len(Got) /\ Call.g \notin seen /\ Fits(Call.g, Call.r) /\ owner[Call.g] = 0
  BY DEF Assign, Usable, Fits, GInv, Looking, Searching
<1>2. /\ Len(Got) \in Nat /\ n \in Nat \ {0} /\ Call = stack[n] /\ RowsOfIt = 1..Len(Got)
      /\ \A i \in 1..n : stack[i].g \in 1..Len(Got) + 1
  BY <1>1, Stacks DEF RowsOfIt
<1>3. stack[n].g \in RowsOfIt
  BY <1>1, <1>2
<1>. HIDE DEF n
<1>4. \A i \in 1..n : i \in 1..n - 1 \/ i = n
  BY <1>2
<1>5. \A i \in 1..n - 1 : /\ stack[i].g \in seen /\ owner[stack[i].g] = stack[i + 1].r
                          /\ Fits(stack[i].g, stack[i].r)
  BY <1>1 DEF Path, n
<1>6. \A i, j \in 1..n - 1 : stack[i].g = stack[j].g => i = j
  BY <1>1 DEF Path, n
<1>7. \A i \in 1..n : stack[i].g \in RowsOfIt /\ Fits(stack[i].g, stack[i].r)
  BY <1>1, <1>2, <1>3, <1>4, <1>5
<1>8. \A i, j \in 1..n : stack[i].g = stack[j].g => i = j
  BY <1>1, <1>2, <1>4, <1>5, <1>6
<1>. QED
  BY <1>1, <1>2, <1>5, <1>7, <1>8 DEF n

LEMMA OwnedIs ==
  ASSUME GInv, Assign
  PROVE  /\ \A i \in 1..Len(stack) : Owned[stack[i].g] = stack[i].r
         /\ \A g \in RowsOfIt : (\A i \in 1..Len(stack) : stack[i].g # g) => Owned[g] = owner[g]
<1>1. /\ DOMAIN stack = 1..Len(stack) /\ DOMAIN Got = RowsOfIt /\ Len(stack) \in Nat
      /\ \A i \in 1..Len(stack) : stack[i].g \in RowsOfIt
      /\ \A i, j \in 1..Len(stack) : stack[i].g = stack[j].g => i = j
  <2>1. grading = "search" /\ Compared /\ Searching /\ item \in AnsweredItems
    BY DEF Assign, GInv, Compared
  <2>. QED
    BY <2>1, AtFreeRow, Stacks, ItemTypes
<1>. DEFINE at(g) == {i \in DOMAIN stack : stack[i].g = g}
<1>2. \A g \in RowsOfIt : Owned[g] = IF at(g) = {} THEN owner[g] ELSE stack[Min(at(g))].r
  BY <1>1 DEF Owned
<1>3. \A i \in 1..Len(stack) : at(stack[i].g) = {i}
  BY <1>1
<1>4. \A i \in 1..Len(stack) : Min({i}) = i
  BY DEF Min
<1>5. \A i \in 1..Len(stack) : Owned[stack[i].g] = stack[i].r
  <2>. SUFFICES ASSUME NEW i \in 1..Len(stack) PROVE Owned[stack[i].g] = stack[i].r
    OBVIOUS
  <2>1. at(stack[i].g) = {i} /\ Min(at(stack[i].g)) = i
    BY <1>3, <1>4
  <2>2. at(stack[i].g) # {}
    BY <2>1
  <2>. HIDE DEF at
  <2>. QED
    BY <1>1, <1>2, <2>1, <2>2
<1>6. \A g \in RowsOfIt : (\A i \in 1..Len(stack) : stack[i].g # g) => at(g) = {}
  BY <1>1
<1>. HIDE DEF at
<1>. QED
  BY <1>2, <1>5, <1>6

\* The reference rows up to the root have each a row, and none has two.
LEMMA Augmented ==
  ASSUME GInv, Assign
  PROVE  /\ \A g \in RowsOfIt :
              Owned[g] # 0 => Owned[g] \in RowsOfIt /\ Owned[g] <= Root /\ Fits(g, Owned[g])
         /\ \A g, h \in RowsOfIt : Owned[g] # 0 /\ Owned[g] = Owned[h] => g = h
         /\ \A r \in 1..Root : \E g \in RowsOfIt : Owned[g] = r
<1>. DEFINE n == Len(stack)
            OnPath(g) == \E i \in 1..n : stack[i].g = g
<1>1. /\ grading = "search" /\ Compared /\ Searching /\ Owning
      /\ owner \in [RowsOfIt -> 0..Len(Got)]
  BY DEF Assign, GInv, Searching
<1>2. /\ Len(Got) \in Nat /\ n \in Nat \ {0} /\ RowsOfIt = 1..Len(Got)
      /\ Root = stack[1].r /\ Root \in RowsOfIt /\ Root \in Nat
      /\ \A i \in 1..n : stack[i].r \in RowsOfIt
  BY <1>1, Stacks DEF RowsOfIt, Root
<1>3. /\ \A i \in 1..n : stack[i].g \in RowsOfIt /\ Fits(stack[i].g, stack[i].r)
      /\ \A i, j \in 1..n : stack[i].g = stack[j].g => i = j
      /\ \A i \in 1..n - 1 : owner[stack[i].g] = stack[i + 1].r
      /\ owner[stack[n].g] = 0
  BY AtFreeRow
<1>4. /\ \A i \in 1..n : Owned[stack[i].g] = stack[i].r
      /\ \A g \in RowsOfIt : ~OnPath(g) => Owned[g] = owner[g]
  BY OwnedIs
<1>. HIDE DEF n
<1>5. \A i \in 1..n : i = 1 \/ (i - 1 \in 1..n - 1 /\ i - 1 \in 1..n /\ i = (i - 1) + 1)
  BY <1>2
<1>6. \A i \in 1..n : i # 1 => owner[stack[i - 1].g] = stack[i].r
  BY <1>3, <1>5
<1>7. \A g \in RowsOfIt : owner[g] # 0 => owner[g] < Root /\ owner[g] \in RowsOfIt /\ Fits(g, owner[g])
  BY <1>1, <1>2 DEF Owning
<1>8. \A g, h \in RowsOfIt : owner[g] # 0 /\ owner[g] = owner[h] => g = h
  BY <1>1 DEF Owning
<1>9. \A i \in 1..n : stack[i].r # 0 /\ stack[i].r <= Root /\ (i # 1 => stack[i].r < Root)
  <2>. SUFFICES ASSUME NEW i \in 1..n
                PROVE  stack[i].r # 0 /\ stack[i].r <= Root /\ (i # 1 => stack[i].r < Root)
    OBVIOUS
  <2>1. stack[i].r # 0
    BY <1>2
  <2>2. i # 1 => stack[i].r < Root
    BY <1>3, <1>5, <1>6, <1>7, <2>1
  <2>. QED
    BY <1>2, <2>1, <2>2
<1>10. \A i, j \in 1..n : stack[i].r = stack[j].r => i = j
  <2>. SUFFICES ASSUME NEW i \in 1..n, NEW j \in 1..n, stack[i].r = stack[j].r PROVE i = j
    OBVIOUS
  <2>1. CASE i = 1 \/ j = 1
    BY <1>2, <1>9, <2>1
  <2>2. CASE i # 1 /\ j # 1
    <3>1. owner[stack[i - 1].g] = owner[stack[j - 1].g] /\ owner[stack[i - 1].g] # 0
      BY <1>6, <1>9, <2>2
    <3>2. i - 1 \in 1..n /\ j - 1 \in 1..n
      BY <1>5, <2>2
    <3>3. stack[i - 1].g = stack[j - 1].g
      BY <1>3, <1>8, <3>1, <3>2
    <3>4. i - 1 = j - 1
      BY <1>3, <3>2, <3>3
    <3>. QED
      BY <1>2, <3>4
  <2>. QED
    BY <2>1, <2>2
<1>11. ASSUME NEW g \in RowsOfIt, Owned[g] # 0
       PROVE  Owned[g] \in RowsOfIt /\ Owned[g] <= Root /\ Fits(g, Owned[g])
  <2>1. CASE OnPath(g)
    <3>1. PICK i \in 1..n : stack[i].g = g
      BY <2>1
    <3>2. Owned[g] = stack[i].r /\ stack[i].r \in RowsOfIt /\ Fits(g, stack[i].r)
      BY <1>2, <1>3, <1>4, <3>1
    <3>. QED
      BY <1>9, <3>2
  <2>2. CASE ~OnPath(g)
    BY <1>2, <1>4, <1>7, <1>11, <2>2
  <2>. QED
    BY <2>1, <2>2
<1>12. ASSUME NEW g \in RowsOfIt, NEW h \in RowsOfIt, OnPath(g), ~OnPath(h)
       PROVE  Owned[g] # Owned[h]
  <2>1. PICK i \in 1..n : stack[i].g = g
    BY <1>12
  <2>2. Owned[g] = stack[i].r /\ Owned[h] = owner[h]
    BY <1>4, <1>12, <2>1
  <2>3. CASE i = 1
    <3>1. ~(Root < Root)
      BY <1>2
    <3>. QED
      BY <1>2, <1>7, <1>9, <2>2, <2>3, <3>1
  <2>4. CASE i # 1
    <3>1. stack[i - 1].g \in RowsOfIt /\ OnPath(stack[i - 1].g)
      BY <1>3, <1>5, <2>4
    <3>2. owner[stack[i - 1].g] = stack[i].r /\ stack[i].r # 0
      BY <1>6, <1>9, <2>4
    <3>. HIDE DEF OnPath
    <3>. QED
      BY <1>8, <1>12, <2>2, <3>1, <3>2
  <2>. QED
    BY <2>3, <2>4
<1>13. ASSUME NEW g \in RowsOfIt, NEW h \in RowsOfIt, Owned[g] # 0, Owned[g] = Owned[h]
       PROVE  g = h
  <2>1. CASE OnPath(g) /\ OnPath(h)
    BY <1>4, <1>10, <1>13, <2>1
  <2>2. CASE ~OnPath(g) /\ ~OnPath(h)
    <3>. HIDE DEF OnPath
    <3>. QED
      BY <1>4, <1>8, <1>13, <2>2
  <2>3. OnPath(g) <=> OnPath(h)
    <3>. HIDE DEF OnPath
    <3>. QED
      BY <1>12, <1>13
  <2>. QED
    BY <2>1, <2>2, <2>3
<1>14. ASSUME NEW r \in 1..Root
       PROVE  \E g \in RowsOfIt : Owned[g] = r
  <2>1. CASE r = Root
    <3>1. 1 \in 1..n
      BY <1>2
    <3>. QED
      BY <1>2, <1>3, <1>4, <2>1, <3>1
  <2>2. CASE r # Root
    <3>1. r \in 1..Root - 1 /\ r # 0
      BY <1>2, <2>2
    <3>2. PICK g \in RowsOfIt : owner[g] = r
      BY <1>1, <3>1 DEF Owning
    <3>3. CASE ~OnPath(g)
      BY <1>4, <3>2, <3>3
    <3>4. CASE OnPath(g)
      <4>1. PICK i \in 1..n : stack[i].g = g
        BY <3>4
      <4>2. i # n
        BY <1>3, <3>1, <3>2, <4>1
      <4>3. i \in 1..n - 1 /\ i + 1 \in 1..n
        BY <1>2, <4>2
      <4>4. stack[i + 1].r = r
        BY <1>3, <3>2, <4>1, <4>3
      <4>. QED
        BY <1>3, <1>4, <4>3, <4>4
    <3>. QED
      BY <3>3, <3>4
  <2>. QED
    BY <2>1, <2>2
<1>. QED
  BY <1>11, <1>13, <1>14

LEMMA AllPaired ==
  ASSUME GInv, Assign, Root = Len(Ref)
  PROVE  Paired(alt)
<1>1. /\ grading = "search" /\ Compared /\ Searching /\ ~item.order_matters /\ Len(Got) = Len(Ref)
      /\ item \in AnsweredItems /\ alt \in DOMAIN item.refs
  BY DEF Assign, GInv, Compared, Searching
<1>2. DOMAIN Got = RowsOfIt /\ DOMAIN Ref = RowsOfIt /\ RowsOfIt = 1..Root
  <2>1. Ref \in Seq(Seq(Values)) /\ DOMAIN Got = RowsOfIt
    BY <1>1, ItemTypes DEF Ref
  <2>. QED
    BY <1>1, <2>1 DEF RowsOfIt
<1>. DEFINE p == [r \in RowsOfIt |-> CHOOSE g \in RowsOfIt : Owned[g] = r]
<1>3. \A r \in RowsOfIt : \E g \in RowsOfIt : Owned[g] = r
  BY <1>2, Augmented
<1>4. \A r \in RowsOfIt : p[r] \in RowsOfIt /\ Owned[p[r]] = r
  BY <1>3
<1>5. \A r \in RowsOfIt : r # 0
  BY <1>1, ItemTypes DEF RowsOfIt
<1>6. \A r \in RowsOfIt : Fits(p[r], r)
  <2>. SUFFICES ASSUME NEW r \in RowsOfIt PROVE Fits(p[r], r)
    OBVIOUS
  <2>1. p[r] \in RowsOfIt /\ Owned[p[r]] = r /\ r # 0
    BY <1>4, <1>5
  <2>. HIDE DEF p
  <2>. QED
    BY <2>1, Augmented
<1>7. p \in [DOMAIN Ref -> DOMAIN Got]
  BY <1>2, <1>4
<1>8. IsInjective(p)
  <2>1. DOMAIN p = RowsOfIt
    OBVIOUS
  <2>. HIDE DEF p
  <2>. QED
    BY <1>4, <2>1 DEF IsInjective
<1>. HIDE DEF p
<1>9. \A i \in DOMAIN Ref : RowContains(Got[p[i]], Ref[i])
  BY <1>2, <1>6 DEF Fits
<1>. QED
  BY <1>1, <1>7, <1>8, <1>9 DEF Paired, PairedRows, Ref

LEMMA AssignHolds == GInv /\ Assign => GInv'
<1>. SUFFICES ASSUME GInv, Assign PROVE GInv'
  OBVIOUS
<1>1. /\ grading = "search" /\ Compared /\ Searching /\ ~item.order_matters /\ Len(Got) = Len(Ref)
      /\ item \in AnsweredItems
  BY DEF Assign, GInv, Compared, Searching
<1>2. Len(Got) \in Nat /\ Root \in RowsOfIt /\ Root \in Nat /\ DOMAIN Got = RowsOfIt
  BY <1>1, Stacks, ItemTypes
<1>3. CASE Root = Len(Ref)
  <2>1. Verdict(TRUE)
    BY <1>3 DEF Assign, Root
  <2>. QED
    BY <1>1, <1>3, <2>1, AllPaired, VerdictHolds
<1>4. CASE Root # Len(Ref)
  <2>. DEFINE next == Root + 1
  <2>1. /\ owner' = Owned /\ seen' = {} /\ stack' = <<Frame(next)>>
        /\ item' = item /\ grading' = grading /\ alt' = alt /\ correct' = correct
    BY <1>4 DEF Assign, Root
  <2>2. /\ Got' = Got /\ Ref' = Ref /\ RowsOfIt' = RowsOfIt /\ Frames' = Frames
        /\ \A i : Paired(i)' <=> Paired(i)
        /\ \A g, r : Fits(g, r)' <=> Fits(g, r)
    BY <2>1, SameItem
  <2>3. next \in RowsOfIt /\ next \in Nat /\ next - 1 = Root
    <3>1. Root # Len(Got) /\ Root \in 1..Len(Got)
      BY <1>1, <1>2, <1>4 DEF RowsOfIt
    <3>2. Len(Got) \in Nat /\ Root \in Nat
      BY <1>2
    <3>3. Root + 1 \in 1..Len(Got) /\ Root + 1 \in Nat /\ (Root + 1) - 1 = Root
      BY <3>1, <3>2
    <3>. QED
      BY <3>3 DEF RowsOfIt
  <2>4. Frame(next) \in Frames /\ Frame(next).r = next /\ Frame(next).g = 1
    BY <1>2, <2>3 DEF Frame, Frames
  <2>. HIDE DEF next
  <2>5. /\ stack' \in Seq(Frames) /\ stack' # <<>> /\ Len(stack') = 1 /\ DOMAIN stack' = {1}
        /\ stack'[1] = Frame(next) /\ Root' = next
    BY <2>1, <2>4 DEF Root
  <2>6. Compared'
    BY <1>1, <2>1, <2>2 DEF Compared
  <2>7. Owned \in [RowsOfIt -> 0..Len(Got)]
    <3>1. \A g \in RowsOfIt : Owned[g] \in 0..Len(Got)
      BY <1>2, Augmented DEF RowsOfIt
    <3>2. Owned = [g \in RowsOfIt |-> Owned[g]]
      BY <1>2 DEF Owned
    <3>. QED
      BY <3>1, <3>2
  <2>8. Searching'
    BY <1>1, <2>1, <2>2, <2>5, <2>7 DEF Searching
  <2>9. Owning'
    <3>1. \A g \in RowsOfIt : Owned[g] # 0 => Owned[g] < next /\ Fits(g, Owned[g])
      BY <1>2, <2>3, Augmented DEF RowsOfIt, next
    <3>2. \A g, h \in RowsOfIt : Owned[g] # 0 /\ Owned[g] = Owned[h] => g = h
      BY Augmented
    <3>3. \A r \in 1..next - 1 : \E g \in RowsOfIt : Owned[g] = r
      BY <2>3, Augmented
    <3>. QED
      BY <2>1, <2>2, <2>5, <3>1, <3>2, <3>3 DEF Owning
  <2>10. Path(stack)'
    BY <2>5 DEF Path
  <2>11. Exhausted(stack)'
    <3>1. \A g \in RowsOfIt : ~(g < 1)
      BY <1>2 DEF RowsOfIt
    <3>. QED
      BY <2>1, <2>2, <2>4, <2>5, <3>1 DEF Exhausted
  <2>. QED
    BY <2>6, <2>8, <2>9, <2>10, <2>11 DEF GInv, Looking
<1>. QED
  BY <1>3, <1>4

-----------------------------------------------------------------------------
(* The invariant, and the verdict. *)

LEMMA GInitHolds == GInit => GInv
<1>. SUFFICES ASSUME GInit PROVE GInv
  OBVIOUS
<1>1. item \in AnsweredItems /\ grading = "start" /\ alt = 1 /\ seen = {}
  BY DEF GInit
<1>. QED
  BY <1>1 DEF GInv, Compared, Searching, Owning, Looking

LEMMA GStutter == GInv /\ UNCHANGED gvars => GInv'
<1>. SUFFICES ASSUME GInv, UNCHANGED gvars PROVE GInv'
  OBVIOUS
<1>1. /\ item' = item /\ grading' = grading /\ alt' = alt /\ owner' = owner /\ seen' = seen
      /\ stack' = stack /\ correct' = correct
  BY DEF gvars
<1>2. /\ Got' = Got /\ Ref' = Ref /\ RowsOfIt' = RowsOfIt /\ Frames' = Frames /\ Root' = Root
      /\ \A i : Paired(i)' <=> Paired(i)
      /\ \A g, r : Fits(g, r)' <=> Fits(g, r)
  BY <1>1, SameItem DEF Root
<1>3. Compared'
  BY <1>1, <1>2 DEF GInv, Compared
<1>4. Searching' /\ Owning'
  BY <1>1, <1>2 DEF GInv, Searching, Owning
<1>5. Looking'
  BY <1>1, <1>2 DEF GInv, Looking, Path, Exhausted, Tried
<1>. QED
  BY <1>3, <1>4, <1>5 DEF GInv

LEMMA GStepHolds == GInv /\ [GNext]_gvars => GInv'
BY GradeItemHolds, CompareHolds, SkipHolds, DisplaceHolds, AssignHolds, FailHolds, GStutter
   DEF GNext, GOver

LEMMA GradingHolds == GSpec => []GInv
BY GInitHolds, GStepHolds, PTL DEF GSpec

\* The calls under way are at rows of different owners before the root.
LEMMA SearchSound == GInv => SearchIsSound
<1>. SUFFICES ASSUME GInv, grading = "search"
              PROVE  /\ Len(stack) <= Len(Got)
                     /\ \A i \in 1..Len(stack) - 1 : owner[stack[i].g] = stack[i + 1].r
                     /\ \A r \in 1..stack[1].r - 1 :
                          Cardinality({g \in DOMAIN owner : owner[g] = r}) = 1
                     /\ \A g \in DOMAIN owner :
                          owner[g] # 0 => owner[g] < stack[1].r /\ RowContains(Got[g], Ref[owner[g]])
  BY DEF SearchIsSound
<1>. DEFINE n == Len(stack)
<1>1. /\ Compared /\ Searching /\ Owning /\ Path(stack) /\ Root = stack[1].r
      /\ owner \in [RowsOfIt -> 0..Len(Got)] /\ seen \subseteq RowsOfIt
  BY DEF GInv, Looking, Searching, Root
<1>2. /\ Len(Got) \in Nat /\ n \in Nat \ {0} /\ RowsOfIt = 1..Len(Got)
      /\ Root \in RowsOfIt /\ Root \in Nat /\ \A i \in 1..n : stack[i].r \in RowsOfIt
  BY <1>1, Stacks DEF RowsOfIt
<1>. HIDE DEF n
<1>3. \A i \in 1..n - 1 :
         /\ i + 1 \in 1..n /\ stack[i].g \in RowsOfIt /\ owner[stack[i].g] = stack[i + 1].r
  <2>1. \A i \in 1..n - 1 : stack[i].g \in RowsOfIt /\ owner[stack[i].g] = stack[i + 1].r
    BY <1>1 DEF Path, n
  <2>. QED
    BY <1>2, <2>1
<1>4. \A i, j \in 1..n - 1 : stack[i].g = stack[j].g => i = j
  BY <1>1 DEF Path, n
<1>5. n <= Len(Got)
  <2>. DEFINE f == [i \in 1..n - 1 |-> owner[stack[i].g]]
  <2>1. f \in [1..n - 1 -> 1..Root - 1]
    <3>. SUFFICES ASSUME NEW i \in 1..n - 1 PROVE owner[stack[i].g] \in 1..Root - 1
      OBVIOUS
    <3>1. stack[i].g \in RowsOfIt /\ owner[stack[i].g] \in RowsOfIt
      BY <1>2, <1>3
    <3>2. owner[stack[i].g] # 0 /\ owner[stack[i].g] < Root
      BY <1>1, <1>2, <3>1 DEF Owning
    <3>. QED
      BY <1>2, <3>1, <3>2
  <2>2. \A i, j \in 1..n - 1 : f[i] = f[j] => i = j
    <3>. SUFFICES ASSUME NEW i \in 1..n - 1, NEW j \in 1..n - 1,
                         owner[stack[i].g] = owner[stack[j].g]
                  PROVE  i = j
      OBVIOUS
    <3>1. stack[i].g \in RowsOfIt /\ stack[j].g \in RowsOfIt /\ owner[stack[i].g] \in RowsOfIt
      BY <1>2, <1>3
    <3>2. owner[stack[i].g] # 0
      BY <1>2, <3>1
    <3>3. stack[i].g = stack[j].g
      BY <1>1, <3>1, <3>2 DEF Owning
    <3>. QED
      BY <1>4, <3>3
  <2>. HIDE DEF f
  <2>3. /\ IsFiniteSet(1..n - 1) /\ Cardinality(1..n - 1) = n - 1
        /\ IsFiniteSet(1..Root - 1) /\ Cardinality(1..Root - 1) = Root - 1
    <3>1. \A k \in Nat \ {0} : IsFiniteSet(1..k - 1) /\ Cardinality(1..k - 1) = k - 1
      <4>. SUFFICES ASSUME NEW k \in Nat \ {0}
                    PROVE  IsFiniteSet(1..k - 1) /\ Cardinality(1..k - 1) = k - 1
        OBVIOUS
      <4>1. Cardinality(1..k - 1) = IF 1 > k - 1 THEN 0 ELSE (k - 1) - 1 + 1
        BY FS_Interval
      <4>. QED
        BY <4>1, FS_Interval
    <3>. QED
      BY <1>2, <3>1
  <2>4. ~(Root - 1 < n - 1)
    <3>. SUFFICES ASSUME Root - 1 < n - 1 PROVE FALSE
      OBVIOUS
    <3>1. Cardinality(1..Root - 1) < Cardinality(1..n - 1)
      BY <2>3
    <3>2. \E i, j \in 1..n - 1 : i # j /\ f[i] = f[j]
      BY <2>1, <2>3, <3>1, FS_PigeonHole
    <3>. QED
      BY <2>2, <3>2
  <2>. QED
    BY <1>2, <2>4
<1>6. ASSUME NEW r \in 1..Root - 1
      PROVE  Cardinality({g \in DOMAIN owner : owner[g] = r}) = 1
  <2>1. PICK g \in RowsOfIt : owner[g] = r
    BY <1>1 DEF Owning
  <2>2. r # 0
    BY <1>2
  <2>3. {h \in RowsOfIt : owner[h] = r} = {g}
    BY <1>1, <2>1, <2>2 DEF Owning
  <2>4. DOMAIN owner = RowsOfIt
    BY <1>1
  <2>. QED
    BY <2>3, <2>4, FS_Singleton
<1>7. \A g \in DOMAIN owner : owner[g] # 0 => owner[g] < Root /\ RowContains(Got[g], Ref[owner[g]])
  BY <1>1 DEF Owning, Fits
<1>. QED
  BY <1>1, <1>3, <1>5, <1>6, <1>7 DEF n

\* graders.py:71-81: the search keeps a partial pairing, and its calls are no deeper than rows.
THEOREM SearchIsAPartialPairing == GSpec => []SearchIsSound
BY GradingHolds, SearchSound, PTL

-----------------------------------------------------------------------------
(* Closeness and containment. *)

LEMMA AbsIs ==
  \A m, n \in Int : Abs(m - n) = Abs(n - m) /\ Abs(m - m) = 0
BY DEF Abs

LEMMA CloseToItself == \A v \in Values : Close(v, v)
<1>. SUFFICES ASSUME NEW v \in Values PROVE Close(v, v)
  OBVIOUS
<1>1. CASE v = Null
  BY <1>1 DEF Close
<1>2. CASE v # Null /\ v.number = NaN
  BY <1>2 DEF Close
<1>3. CASE v # Null /\ v.number # NaN
  <2>1. v.number \in Int
    BY <1>3, ValuesAssumption
  <2>2. Abs(v.number - v.number) <= Tolerance
    BY <2>1, AbsIs DEF Tolerance
  <2>. QED
    BY <1>3, <2>2 DEF Close
<1>. QED
  BY <1>1, <1>2, <1>3

LEMMA CloseBothWays == \A u, v \in Values : Close(u, v) => Close(v, u)
<1>. SUFFICES ASSUME NEW u \in Values, NEW v \in Values, Close(u, v) PROVE Close(v, u)
  OBVIOUS
<1>1. CASE u = Null \/ v = Null
  BY <1>1 DEF Close
<1>2. CASE u # Null /\ v # Null /\ NaN \in {u.number, v.number}
  BY <1>2 DEF Close
<1>3. CASE u # Null /\ v # Null /\ NaN \notin {u.number, v.number}
  <2>1. u.number \in Int /\ v.number \in Int
    BY <1>3, ValuesAssumption
  <2>2. Abs(u.number - v.number) <= Tolerance
    BY <1>3 DEF Close
  <2>3. Abs(v.number - u.number) <= Tolerance
    BY <2>1, <2>2, AbsIs
  <2>. QED
    BY <1>3, <2>3 DEF Close
<1>. QED
  BY <1>1, <1>2, <1>3

LEMMA ContainsIs ==
  ASSUME NEW g \in Seq(Values), NEW ref \in Seq(Values), RowContains(g, ref)
  PROVE  Contained(g, ref)
<1>1. PICK hit \in [DOMAIN ref -> DOMAIN g] : \A c \in DOMAIN ref : TakesFirst(hit, g, ref, c)
  BY DEF RowContains
<1>2. \A b, c \in DOMAIN ref : b < c \/ c < b \/ b = c
  OBVIOUS
<1>3. \A b, c \in DOMAIN ref : b < c => hit[b] # hit[c]
  <2>. SUFFICES ASSUME NEW b \in DOMAIN ref, NEW c \in DOMAIN ref, b < c PROVE hit[b] # hit[c]
    OBVIOUS
  <2>1. hit[c] \notin {hit[a] : a \in 1..c - 1}
    BY <1>1 DEF TakesFirst, Pool
  <2>2. b \in 1..c - 1
    OBVIOUS
  <2>. QED
    BY <2>1, <2>2
<1>4. IsInjective(hit)
  BY <1>2, <1>3 DEF IsInjective
<1>5. \A c \in DOMAIN ref : Close(g[hit[c]], ref[c])
  BY <1>1 DEF TakesFirst
<1>. QED
  BY <1>4, <1>5 DEF Contained

\* The first m values have each taken one of the row.
Greedy(g, ref, m) ==
  \E hit \in [1..m -> DOMAIN g] : \A c \in 1..m : TakesFirst(hit, g, ref, c)

\* The next value takes the first one left, if any is close.
LEMMA GreedyGoesOn ==
  ASSUME NEW g \in Seq(Values), NEW ref \in Seq(Values), NEW m \in Nat,
         NEW hit \in [1..m -> DOMAIN g], \A c \in 1..m : TakesFirst(hit, g, ref, c),
         NEW d \in Pool(hit, g, m + 1), Close(g[d], ref[m + 1])
  PROVE  Greedy(g, ref, m + 1)
<1>. DEFINE next == {e \in Pool(hit, g, m + 1) : Close(g[e], ref[m + 1])}
<1>1. next # {} /\ next \subseteq DOMAIN g /\ DOMAIN g \subseteq Nat
  <2>1. next # {}
    OBVIOUS
  <2>2. next \subseteq DOMAIN g
    BY DEF Pool
  <2>3. DOMAIN g \subseteq Nat
    OBVIOUS
  <2>. QED
    BY <2>1, <2>2, <2>3
<1>2. PICK first \in next : \A e \in next : first <= e
  BY <1>1, LeastNat
<1>. DEFINE more == [c \in 1..m + 1 |-> IF c = m + 1 THEN first ELSE hit[c]]
<1>3. \A c : c \in 1..m + 1 <=> c \in 1..m \/ c = m + 1
  OBVIOUS
<1>4. m + 1 \notin 1..m
  OBVIOUS
<1>5. more \in [1..m + 1 -> DOMAIN g] /\ more[m + 1] = first /\ \A c \in 1..m : more[c] = hit[c]
  BY <1>1, <1>2, <1>3, <1>4
<1>. HIDE DEF more
<1>6. \A c \in 1..m + 1 : Pool(more, g, c) = Pool(hit, g, c)
  <2>. SUFFICES ASSUME NEW c \in 1..m + 1 PROVE Pool(more, g, c) = Pool(hit, g, c)
    OBVIOUS
  <2>1. \A b \in 1..c - 1 : b \in 1..m
    OBVIOUS
  <2>2. \A b \in 1..c - 1 : more[b] = hit[b]
    BY <1>5, <2>1
  <2>. QED
    BY <2>2 DEF Pool
<1>7. \A c \in 1..m + 1 : TakesFirst(more, g, ref, c)
  <2>. SUFFICES ASSUME NEW c \in 1..m + 1 PROVE TakesFirst(more, g, ref, c)
    OBVIOUS
  <2>1. CASE c \in 1..m
    BY <1>5, <1>6, <2>1 DEF TakesFirst
  <2>2. CASE c = m + 1
    BY <1>2, <1>5, <1>6, <2>2 DEF TakesFirst
  <2>. QED
    BY <1>3, <2>1, <2>2
<1>. QED
  BY <1>5, <1>7 DEF Greedy

\* Where closeness is transitive, the value after those that took theirs finds one: had all its
\* close ones been taken, more values close to it would need one than there are.
LEMMA OneIsLeft ==
  ASSUME NEW g \in Seq(Values), NEW ref \in Seq(Values), NEW m \in Nat, m + 1 \in DOMAIN ref,
         \A u, v, w \in Range(g) \cup Range(ref) : Close(u, v) /\ Close(v, w) => Close(u, w),
         NEW f \in [DOMAIN ref -> DOMAIN g], IsInjective(f),
         \A c \in DOMAIN ref : Close(g[f[c]], ref[c]),
         NEW hit \in [1..m -> DOMAIN g], \A c \in 1..m : TakesFirst(hit, g, ref, c)
  PROVE  \E d \in Pool(hit, g, m + 1) : Close(g[d], ref[m + 1])
<1>. SUFFICES ASSUME \A d \in Pool(hit, g, m + 1) : ~Close(g[d], ref[m + 1]) PROVE FALSE
  OBVIOUS
<1>. DEFINE last == m + 1
            like == {c \in 1..last : Close(ref[c], ref[last])}
            others == like \ {last}
            q == [c \in like |-> CHOOSE b \in others : hit[b] = f[c]]
<1>1. /\ DOMAIN ref = 1..Len(ref) /\ Len(ref) \in Nat /\ last \in 1..last
      /\ \A c \in 1..last : c \in DOMAIN ref
      /\ \A c \in 1..m : c \in DOMAIN ref /\ c \in 1..last /\ c # last
  OBVIOUS
<1>2. /\ \A c \in DOMAIN ref : ref[c] \in Values /\ ref[c] \in Range(ref)
      /\ \A d \in DOMAIN g : g[d] \in Values /\ g[d] \in Range(g)
  BY DEF Range
<1>3. last \in like
  BY <1>1, <1>2, CloseToItself
<1>4. \A c \in 1..m : Close(g[hit[c]], ref[c]) /\ hit[c] \in DOMAIN g
  BY DEF TakesFirst
<1>5. last - 1 = m
  OBVIOUS
<1>. HIDE DEF last
<1>6. \A c \in like : \E b \in others : hit[b] = f[c]
  <2>. SUFFICES ASSUME NEW c \in like PROVE \E b \in others : hit[b] = f[c]
    OBVIOUS
  <2>1. /\ c \in DOMAIN ref /\ f[c] \in DOMAIN g /\ last \in DOMAIN ref
        /\ Close(g[f[c]], ref[c]) /\ Close(ref[c], ref[last])
    BY <1>1
  <2>2. Close(g[f[c]], ref[last])
    BY <1>2, <2>1
  <2>3. f[c] \notin Pool(hit, g, last)
    BY <2>2 DEF last
  <2>4. PICK b \in 1..m : hit[b] = f[c]
    BY <1>5, <2>1, <2>3 DEF Pool
  <2>5. Close(g[hit[b]], ref[b]) /\ b \in DOMAIN ref /\ hit[b] \in DOMAIN g
    BY <1>1, <1>4
  <2>6. Close(ref[b], g[hit[b]])
    BY <1>2, <2>5, CloseBothWays
  <2>7. Close(ref[b], ref[last])
    BY <1>2, <2>1, <2>2, <2>4, <2>5, <2>6
  <2>8. b \in others
    BY <1>1, <2>7
  <2>. QED
    BY <2>4, <2>8
<1>7. \A c \in like : q[c] \in others /\ hit[q[c]] = f[c]
  <2>. HIDE DEF others, like
  <2>. QED
    BY <1>6
<1>8. q \in [like -> others]
  <2>. HIDE DEF others, like
  <2>1. \A c \in like : (CHOOSE b \in others : hit[b] = f[c]) \in others
    BY <1>6
  <2>. QED
    BY <2>1
<1>9. \A b, c \in like : q[b] = q[c] => b = c
  <2>. SUFFICES ASSUME NEW b \in like, NEW c \in like, q[b] = q[c] PROVE b = c
    OBVIOUS
  <2>1. f[b] = f[c]
    <3>. HIDE DEF q, like, others
    <3>. QED
      BY <1>7
  <2>2. b \in DOMAIN ref /\ c \in DOMAIN ref
    BY <1>1
  <2>. QED
    BY <2>1, <2>2 DEF IsInjective
<1>10. /\ IsFiniteSet(like) /\ IsFiniteSet(others) /\ Cardinality(like) \in Nat
       /\ Cardinality(others) = Cardinality(like) - 1
  <2>1. IsFiniteSet(1..last)
    BY FS_Interval DEF last
  <2>2. like \subseteq 1..last
    OBVIOUS
  <2>3. IsFiniteSet(like)
    BY <2>1, <2>2, FS_Subset
  <2>. HIDE DEF like
  <2>. QED
    BY <1>3, <2>3, FS_RemoveElement, FS_CardinalityType
<1>. HIDE DEF like, others, q
<1>11. Cardinality(others) < Cardinality(like)
  BY <1>10
<1>12. \E b, c \in like : b # c /\ q[b] = q[c]
  BY <1>8, <1>10, <1>11, FS_PigeonHole
<1>. QED
  BY <1>9, <1>12

LEMMA GreedyFinds ==
  ASSUME NEW g \in Seq(Values), NEW ref \in Seq(Values),
         \A u, v, w \in Range(g) \cup Range(ref) : Close(u, v) /\ Close(v, w) => Close(u, w),
         Contained(g, ref)
  PROVE  RowContains(g, ref)
<1>1. PICK f \in [DOMAIN ref -> DOMAIN g] :
              IsInjective(f) /\ \A c \in DOMAIN ref : Close(g[f[c]], ref[c])
  BY DEF Contained
<1>2. DOMAIN ref = 1..Len(ref) /\ Len(ref) \in Nat
  OBVIOUS
<1>. DEFINE stuck == {m \in Nat : m <= Len(ref) /\ ~Greedy(g, ref, m)}
<1>3. CASE stuck = {}
  <2>1. Greedy(g, ref, Len(ref))
    BY <1>2, <1>3
  <2>. QED
    BY <1>2, <2>1 DEF Greedy, RowContains
<1>4. CASE stuck # {}
  <2>1. PICK m \in stuck : \A k \in stuck : m <= k
    <3>1. stuck \in SUBSET Nat
      OBVIOUS
    <3>. HIDE DEF stuck
    <3>. QED
      BY <1>4, <3>1, LeastNat
  <2>2. m \in Nat /\ m <= Len(ref) /\ ~Greedy(g, ref, m)
    OBVIOUS
  <2>3. m # 0
    <3>1. Greedy(g, ref, 0)
      <4>. DEFINE none == [c \in 1..0 |-> c]
      <4>1. 1..0 = {}
        OBVIOUS
      <4>2. none \in [1..0 -> DOMAIN g]
        BY <4>1
      <4>. HIDE DEF none
      <4>. QED
        BY <4>1, <4>2 DEF Greedy
    <3>. QED
      BY <2>2, <3>1
  <2>4. m - 1 \in Nat /\ (m - 1) + 1 = m /\ m \in DOMAIN ref /\ ~(m <= m - 1) /\ m - 1 <= Len(ref)
    BY <1>2, <2>2, <2>3
  <2>5. Greedy(g, ref, m - 1)
    BY <2>1, <2>4
  <2>6. PICK hit \in [1..m - 1 -> DOMAIN g] : \A c \in 1..m - 1 : TakesFirst(hit, g, ref, c)
    BY <2>5 DEF Greedy
  <2>7. PICK d \in Pool(hit, g, m) : Close(g[d], ref[m])
    <3>1. (m - 1) + 1 \in DOMAIN ref
      BY <2>4
    <3>2. \E d \in Pool(hit, g, (m - 1) + 1) : Close(g[d], ref[(m - 1) + 1])
      BY <1>1, <2>4, <2>6, <3>1, OneIsLeft
    <3>. QED
      BY <2>4, <3>2
  <2>8. Greedy(g, ref, (m - 1) + 1)
    BY <2>4, <2>6, <2>7, GreedyGoesOn
  <2>. QED
    BY <2>2, <2>4, <2>8
<1>. QED
  BY <1>3, <1>4

-----------------------------------------------------------------------------
(* The verdict. *)

\* A pairing of rows that row_contains finds is one of the docstring's.
LEMMA PairedMatches ==
  ASSUME GInv, NEW i \in DOMAIN item.refs, Paired(i)
  PROVE  Matches(Got, item.refs[i], item.order_matters)
<1>. DEFINE ref == item.refs[i]
<1>1. Got \in Seq(Seq(Values)) /\ ref \in Seq(Seq(Values))
  BY ItemTypes DEF GInv, Compared
<1>2. /\ Len(Got) = Len(ref)
      /\ \E p \in [DOMAIN ref -> DOMAIN Got] :
           /\ IsInjective(p) /\ (item.order_matters => \A k \in DOMAIN ref : p[k] = k)
           /\ \A k \in DOMAIN ref : RowContains(Got[p[k]], ref[k])
  BY DEF Paired, PairedRows
<1>. HIDE DEF ref
<1>3. PICK p \in [DOMAIN ref -> DOMAIN Got] :
              /\ IsInjective(p) /\ (item.order_matters => \A k \in DOMAIN ref : p[k] = k)
              /\ \A k \in DOMAIN ref : RowContains(Got[p[k]], ref[k])
  BY <1>2
<1>4. \A k \in DOMAIN ref : Contained(Got[p[k]], ref[k])
  <2>. SUFFICES ASSUME NEW k \in DOMAIN ref PROVE Contained(Got[p[k]], ref[k])
    OBVIOUS
  <2>1. Got[p[k]] \in Seq(Values) /\ ref[k] \in Seq(Values)
    BY <1>1, <1>3
  <2>. QED
    BY <1>3, <2>1, ContainsIs
<1>5. DOMAIN p = DOMAIN ref
  OBVIOUS
<1>. QED
  BY <1>2, <1>3, <1>4, <1>5 DEF Matches, ref

\* And the other way around, unless closeness is no equivalence on the rows.
LEMMA MatchesPaired ==
  ASSUME GInv, NEW i \in DOMAIN item.refs, Matches(Got, item.refs[i], item.order_matters), ~Chained
  PROVE  Paired(i)
<1>. DEFINE ref == item.refs[i]
<1>1. Got \in Seq(Seq(Values)) /\ ref \in Seq(Seq(Values))
  BY ItemTypes DEF GInv, Compared
<1>2. \A g \in DOMAIN Got, k \in DOMAIN ref :
        \A u, v, w \in Range(Got[g]) \cup Range(ref[k]) :
           Close(u, v) /\ Close(v, w) => Close(u, w)
  <2>1. \A g \in DOMAIN Got : Got[g] \in Range(Got)
    BY DEF Range
  <2>2. \A k \in DOMAIN ref : ref[k] \in Range(ref) /\ Range(ref) \in {Range(r) : r \in Range(item.refs)}
    BY DEF Range
  <2>. DEFINE rows == Range(Got) \cup UNION {Range(r) : r \in Range(item.refs)}
              values == UNION {Range(row) : row \in rows}
  <2>3. \A g \in DOMAIN Got, k \in DOMAIN ref : Got[g] \in rows /\ ref[k] \in rows
    BY <2>1, <2>2
  <2>4. \A u, v, w \in values : Close(u, v) /\ Close(v, w) => Close(u, w)
    BY DEF Chained
  <2>. HIDE DEF rows, ref
  <2>5. \A g \in DOMAIN Got, k \in DOMAIN ref : Range(Got[g]) \cup Range(ref[k]) \subseteq values
    BY <2>3
  <2>. HIDE DEF values
  <2>. QED
    BY <2>4, <2>5
<1>3. /\ Len(Got) = Len(ref)
      /\ \E p \in [DOMAIN ref -> DOMAIN Got] :
           /\ IsInjective(p) /\ (item.order_matters => \A k \in DOMAIN p : p[k] = k)
           /\ \A k \in DOMAIN p : Contained(Got[p[k]], ref[k])
  BY DEF Matches
<1>. HIDE DEF ref
<1>4. PICK p \in [DOMAIN ref -> DOMAIN Got] :
              /\ IsInjective(p) /\ (item.order_matters => \A k \in DOMAIN p : p[k] = k)
              /\ \A k \in DOMAIN p : Contained(Got[p[k]], ref[k])
  BY <1>3
<1>5. DOMAIN p = DOMAIN ref
  OBVIOUS
<1>6. \A k \in DOMAIN ref : RowContains(Got[p[k]], ref[k])
  <2>. SUFFICES ASSUME NEW k \in DOMAIN ref PROVE RowContains(Got[p[k]], ref[k])
    OBVIOUS
  <2>1. Got[p[k]] \in Seq(Values) /\ ref[k] \in Seq(Values) /\ p[k] \in DOMAIN Got
    BY <1>1
  <2>2. \A u, v, w \in Range(Got[p[k]]) \cup Range(ref[k]) :
          Close(u, v) /\ Close(v, w) => Close(u, w)
    BY <1>2, <2>1
  <2>3. Contained(Got[p[k]], ref[k])
    BY <1>4, <1>5
  <2>. QED
    BY <2>1, <2>2, <2>3, GreedyFinds
<1>. QED
  BY <1>3, <1>4, <1>5, <1>6 DEF Paired, PairedRows, ref

LEMMA VerdictIs == GInv => VerdictIsAPairing
<1>. DEFINE right == \E i \in DOMAIN item.refs : Matches(Got, item.refs[i], item.order_matters)
<1>. SUFFICES ASSUME GInv, grading = "done", item.kind = "sql", ~item.error
              PROVE  (correct => right /\ behaviour_ok) /\ (right /\ ~Chained => correct)
  BY DEF VerdictIsAPairing
<1>1. correct <=> \E i \in DOMAIN item.refs : Paired(i)
  BY DEF GInv, Compared
<1>2. ASSUME correct
      PROVE  right /\ behaviour_ok
  <2>1. PICK i \in DOMAIN item.refs : Paired(i)
    BY <1>1, <1>2
  <2>2. right
    BY <2>1, PairedMatches
  <2>3. item \in AnsweredItems /\ Got \in Seq(Seq(Values)) /\ item.refs[i] \in Seq(Seq(Values))
    BY ItemTypes DEF GInv, Compared
  <2>4. item.refs[i] # <<>> /\ Len(Got) = Len(item.refs[i])
    BY <2>1, <2>3, AnswersAssumption DEF Paired, PairedRows
  <2>5. Got # <<>>
    BY <2>3, <2>4
  <2>6. ~item.out_of_scope /\ ~item.needs_clarification
    BY <2>3, <2>5, AnswersAssumption DEF Got
  <2>7. behaviour_ok
    BY <2>6 DEF behaviour_ok, Answerable
  <2>. QED
    BY <2>2, <2>7
<1>3. ASSUME right, ~Chained
      PROVE  correct
  BY <1>1, <1>3, MatchesPaired
<1>. QED
  BY <1>2, <1>3

\* graders.py:43-85: the verdict on an answer is whether its rows can be paired with a reference's.
THEOREM VerdictsArePairings == GSpec => []VerdictIsAPairing
BY GradingHolds, VerdictIs, PTL

-----------------------------------------------------------------------------
(* The reports of the selection: once the day of a run is over the         *)
(* snapshots its report reads stay, so the report is what would be written *)
(* from the same records and calls at any time.                            *)

Dated ==
  /\ today \in Nat /\ written \in Nat /\ failed \in BOOLEAN
  /\ began # Unset => began \in Nat /\ began <= today
  /\ reported # Unset =>
       /\ began # Unset /\ basis.day \in Nat /\ basis.day <= today
       /\ basis.written \in Nat /\ basis.written <= written
       /\ basis.failed \in BOOLEAN /\ (basis.failed => failed)

Settled ==
  reported # Unset /\ began < basis.day /\ basis.written = written /\ basis.failed = failed
    => reported = Candidate

SelInv == Dated /\ Settled

LEMMA CandidateIs ==
  ASSUME run' = run, written' = written, failed' = failed, Entry' = Entry
  PROVE  Candidate' = Candidate
<1>1. Records' = Records
  BY DEF Records
<1>2. Used' = Used
  BY <1>1 DEF Used
<1>3. Gates' = Gates
  BY <1>1, <1>2 DEF Gates
<1>. QED
  BY <1>1, <1>3 DEF Candidate

\* The entry is of a day up to the run's, so only the snapshots of these days matter.
LEMMA SameEntry ==
  ASSUME began \in Nat, began' = began, \A d \in 1..began : snapshots'[d] = snapshots[d]
  PROVE  Entry' = Entry
<1>1. SnapshotDays' = SnapshotDays /\ SnapshotDays \in SUBSET (1..began)
  BY DEF SnapshotDays
<1>2. CASE SnapshotDays = {}
  BY <1>1, <1>2 DEF Entry
<1>3. CASE SnapshotDays # {}
  <2>1. PICK last \in SnapshotDays : \A d \in SnapshotDays : d <= last
    BY <1>1, <1>3, GreatestNat
  <2>2. Max(SnapshotDays) \in SnapshotDays
    BY <2>1 DEF Max
  <2>3. snapshots'[Max(SnapshotDays)] = snapshots[Max(SnapshotDays)]
    BY <1>1, <2>2
  <2>. QED
    BY <1>1, <1>3, <2>3 DEF Entry
<1>. QED
  BY <1>2, <1>3

LEMMA DatedHolds == Dated /\ [SelNext]_selvars => Dated'
<1>. SUFFICES ASSUME Dated, [SelNext]_selvars PROVE Dated'
  OBVIOUS
<1>1. CASE NextDay
  BY <1>1 DEF NextDay, Dated
<1>2. CASE TakeSnapshot
  BY <1>2 DEF TakeSnapshot, Dated
<1>3. CASE Begin
  BY <1>3, UnsetAssumption DEF Begin, Dated
<1>4. CASE AnswerRecorded
  BY <1>4 DEF AnswerRecorded, Dated
<1>5. CASE CallFails
  BY <1>5 DEF CallFails, Dated
<1>6. CASE WriteReport
  <2>1. basis'.day = today /\ basis'.written = written /\ basis'.failed = failed
    BY <1>6 DEF WriteReport
  <2>2. today' = today /\ written' = written /\ failed' = failed /\ began' = began /\ began # Unset
    BY <1>6 DEF WriteReport
  <2>. QED
    BY <2>1, <2>2 DEF Dated
<1>7. CASE RankReported
  BY <1>7 DEF RankReported, Dated
<1>8. CASE UNCHANGED selvars
  BY <1>8 DEF selvars, Dated
<1>. QED
  BY <1>1, <1>2, <1>3, <1>4, <1>5, <1>6, <1>7, <1>8 DEF SelNext, SelOver

LEMMA SettledHolds == SelInv /\ [SelNext]_selvars => Settled'
<1>. SUFFICES ASSUME SelInv, [SelNext]_selvars PROVE Settled'
  OBVIOUS
<1>1. Dated /\ Settled /\ Dated'
  BY DatedHolds DEF SelInv
<1>. DEFINE Kept == run' = run /\ written' = written /\ failed' = failed /\ began' = began
                    /\ reported' = reported /\ basis' = basis
<1>2. ASSUME Kept, snapshots' = snapshots
      PROVE  Settled'
  <2>1. Entry' = Entry
    BY <1>2 DEF Entry, SnapshotDays
  <2>2. Candidate' = Candidate
    BY <1>2, <2>1, CandidateIs
  <2>. QED
    BY <1>1, <1>2, <2>2 DEF Settled
<1>3. CASE TakeSnapshot
  <2>1. Kept /\ today' = today
    BY <1>3 DEF TakeSnapshot
  <2>. SUFFICES ASSUME reported # Unset, began < basis.day, basis.written = written, basis.failed = failed
                PROVE  reported' = Candidate'
    BY <2>1 DEF Settled
  <2>2. began \in Nat /\ today \in Nat /\ began < today
    BY <1>1 DEF Dated
  <2>3. \A d \in 1..began : d # today
    BY <2>2
  <2>4. \A d \in 1..began : snapshots'[d] = snapshots[d]
    BY <1>3, <2>3 DEF TakeSnapshot
  <2>5. Candidate' = Candidate
    BY <2>1, <2>2, <2>4, SameEntry, CandidateIs
  <2>. QED
    BY <1>1, <2>1, <2>5 DEF Settled
<1>4. CASE Begin
  BY <1>1, <1>4 DEF Begin, Dated, Settled
<1>5. CASE AnswerRecorded
  BY <1>1, <1>5 DEF AnswerRecorded, Dated, Settled
<1>6. CASE CallFails
  <2>1. CASE failed
    <3>1. Kept /\ snapshots' = snapshots
      BY <1>1, <1>6, <2>1 DEF CallFails, Dated
    <3>. QED
      BY <1>2, <3>1
  <2>2. CASE ~failed
    BY <1>1, <1>6, <2>2 DEF CallFails, Dated, Settled
  <2>. QED
    BY <2>1, <2>2
<1>7. CASE WriteReport
  <2>1. run' = run /\ written' = written /\ failed' = failed /\ began' = began
        /\ snapshots' = snapshots /\ reported' = Candidate
    BY <1>7 DEF WriteReport
  <2>2. Entry' = Entry
    BY <2>1 DEF Entry, SnapshotDays
  <2>3. Candidate' = Candidate
    BY <2>1, <2>2, CandidateIs
  <2>. QED
    BY <2>1, <2>3 DEF Settled
<1>8. CASE NextDay \/ RankReported \/ UNCHANGED selvars
  <2>1. Kept /\ snapshots' = snapshots
    BY <1>8 DEF NextDay, RankReported, selvars
  <2>. QED
    BY <1>2, <2>1
<1>. QED
  BY <1>3, <1>4, <1>5, <1>6, <1>7, <1>8 DEF SelNext, SelOver

LEMMA SelectionHolds == SelSpec => []SelInv
<1>1. SelInit => SelInv
  <2>. SUFFICES ASSUME SelInit PROVE SelInv
    OBVIOUS
  <2>1. today = 1 /\ written = 0 /\ failed = FALSE /\ began = Unset /\ reported = Unset
    BY DEF SelInit
  <2>. QED
    BY <2>1 DEF SelInv, Dated, Settled
<1>2. SelInv /\ [SelNext]_selvars => SelInv'
  BY DatedHolds, SettledHolds DEF SelInv
<1>. QED
  BY <1>1, <1>2, PTL DEF SelSpec

\* runner.py:498: once the day of a run is over, its report is rebuilt the same from the same
\* records and calls.
THEOREM ReportsAreReproducible == SelSpec => ReportIsReproducible
<1>1. SelInv /\ [SelNext]_selvars
        => [/\ reported # Unset /\ began < basis.day
            /\ basis'.written = basis.written /\ basis'.failed = basis.failed
            => reported' = reported]_selvars
  <2>. SUFFICES ASSUME SelInv, [SelNext]_selvars, ~UNCHANGED selvars,
                       reported # Unset, began < basis.day,
                       basis'.written = basis.written, basis'.failed = basis.failed
                PROVE  reported' = reported
    OBVIOUS
  <2>1. CASE WriteReport
    <3>1. basis'.written = written /\ basis'.failed = failed /\ reported' = Candidate
      BY <2>1 DEF WriteReport
    <3>. QED
      BY <3>1 DEF SelInv, Settled
  <2>2. CASE ~WriteReport
    BY <2>2 DEF SelNext, NextDay, TakeSnapshot, Begin, AnswerRecorded, CallFails, RankReported,
                SelOver, selvars
  <2>. QED
    BY <2>1, <2>2
<1>. QED
  BY <1>1, SelectionHolds, PTL DEF SelSpec, ReportIsReproducible

-----------------------------------------------------------------------------
(* Sums over finite sets.  A sum is a fold, a function on the subsets that *)
(* is chosen by an equation; a set without such a function, or with two,   *)
(* would have a least subset of the kind, and none is least.               *)

\* The equation of the fold that a sum is.
Adds(f, S, iter) ==
  iter = [s \in SUBSET S |-> IF s = {} THEN 0
                             ELSE LET x == CHOOSE x \in s : TRUE IN f[x] + iter[s \ {x}]]

LEMMA SumIsFold ==
  ASSUME NEW f, NEW S
  PROVE  SumFunctionOnSet(f, S) = (CHOOSE iter : Adds(f, S, iter))[S]
BY DEF SumFunctionOnSet, FoldFunctionOnSet, MapThenFoldSet, Adds

LEMMA FoldStarts ==
  ASSUME NEW f, NEW S, NEW iter, Adds(f, S, iter)
  PROVE  iter[{}] = 0
<1>1. {} \in SUBSET S
  OBVIOUS
<1>. QED
  BY <1>1 DEF Adds

LEMMA FoldStep ==
  ASSUME NEW f, NEW S, NEW iter, Adds(f, S, iter), NEW s \in SUBSET S, s # {}
  PROVE  LET x == CHOOSE x \in s : TRUE IN iter[s] = f[x] + iter[s \ {x}]
BY DEF Adds

\* Two folds agree on every finite set both are of.
LEMMA FoldsAgree ==
  ASSUME NEW f, NEW S, NEW T, NEW a, NEW b, Adds(f, S, a), Adds(f, T, b),
         NEW U \in SUBSET (S \cap T), IsFiniteSet(U)
  PROVE  a[U] = b[U]
<1>. DEFINE Apart == {n \in Nat : \E V \in SUBSET U : Cardinality(V) = n /\ a[V] # b[V]}
<1>1. SUFFICES ASSUME a[U] # b[U] PROVE FALSE
  OBVIOUS
<1>2. Cardinality(U) \in Nat
  BY FS_CardinalityType
<1>3. Cardinality(U) \in Apart
  BY <1>1, <1>2
<1>. HIDE DEF Apart
<1>4. PICK n \in Apart : \A m \in Apart : n <= m
  BY <1>3, LeastNat DEF Apart
<1>5. PICK V \in SUBSET U : Cardinality(V) = n /\ a[V] # b[V]
  BY <1>4 DEF Apart
<1>6. V # {}
  <2>1. a[{}] = 0
    BY FoldStarts
  <2>2. b[{}] = 0
    BY FoldStarts
  <2>. QED
    BY <1>5, <2>1, <2>2
<1>. DEFINE x == CHOOSE x \in V : TRUE
<1>7. x \in V /\ a[V] = f[x] + a[V \ {x}] /\ b[V] = f[x] + b[V \ {x}]
  <2>1. V \in SUBSET S /\ V \in SUBSET T
    OBVIOUS
  <2>2. a[V] = f[x] + a[V \ {x}]
    BY <1>6, <2>1, FoldStep
  <2>3. b[V] = f[x] + b[V \ {x}]
    BY <1>6, <2>1, FoldStep
  <2>. QED
    BY <1>6, <2>2, <2>3
<1>8. Cardinality(V \ {x}) = n - 1 /\ n \in Nat /\ n - 1 \in Nat
  <2>1. IsFiniteSet(V) /\ Cardinality(V) \in Nat
    BY FS_Subset, FS_CardinalityType
  <2>2. Cardinality(V \ {x}) = n - 1 /\ IsFiniteSet(V \ {x})
    BY <1>5, <1>7, <2>1, FS_RemoveElement
  <2>. QED
    BY <2>1, <2>2, <1>5, FS_CardinalityType
<1>9. n - 1 \in Apart
  BY <1>5, <1>7, <1>8 DEF Apart
<1>. QED
  BY <1>4, <1>8, <1>9


\* The function that a sum is a value of.
FoldOf(f, S) == CHOOSE iter : Adds(f, S, iter)

\* A sum is 0 or one value and the sum of the others, where the subsets have their folds.
LEMMA SumFolded ==
  ASSUME NEW f, NEW S, IsFiniteSet(S), Adds(f, S, FoldOf(f, S)),
         \A s \in SUBSET S : Adds(f, s, FoldOf(f, s))
  PROVE  /\ S = {} => SumFunctionOnSet(f, S) = 0
         /\ S # {} => LET x == CHOOSE x \in S : TRUE
                     IN SumFunctionOnSet(f, S) = f[x] + SumFunctionOnSet(f, S \ {x})
<1>1. SumFunctionOnSet(f, S) = FoldOf(f, S)[S]
  BY SumIsFold DEF FoldOf
<1>2. ASSUME S = {} PROVE SumFunctionOnSet(f, S) = 0
  <2>1. FoldOf(f, S)[{}] = 0
    BY FoldStarts
  <2>. QED
    BY <1>1, <1>2, <2>1
<1>3. ASSUME S # {}
      PROVE  LET x == CHOOSE x \in S : TRUE
             IN SumFunctionOnSet(f, S) = f[x] + SumFunctionOnSet(f, S \ {x})
  <2>. DEFINE x == CHOOSE x \in S : TRUE
              U == S \ {x}
  <2>1. x \in S
    BY <1>3
  <2>2. S \in SUBSET S /\ U \in SUBSET S
    OBVIOUS
  <2>3. FoldOf(f, S)[S] = f[x] + FoldOf(f, S)[U]
    BY <1>3, <2>2, FoldStep
  <2>4. IsFiniteSet(U)
    BY FS_Subset
  <2>5. Adds(f, U, FoldOf(f, U))
    BY <2>2
  <2>. HIDE DEF U
  <2>6. U \in SUBSET (S \cap U)
    BY <2>2
  <2>7. FoldOf(f, S)[U] = FoldOf(f, U)[U]
    BY <2>4, <2>5, <2>6, FoldsAgree
  <2>8. SumFunctionOnSet(f, U) = FoldOf(f, U)[U]
    BY SumIsFold DEF FoldOf
  <2>. QED
    BY <1>1, <2>3, <2>7, <2>8 DEF U
<1>. QED
  BY <1>2, <1>3

\* Every finite set has a fold.
LEMMA FoldExists ==
  ASSUME NEW f, NEW S, IsFiniteSet(S)
  PROVE  Adds(f, S, FoldOf(f, S))
<1>. DEFINE Good(V) == Adds(f, V, FoldOf(f, V))
            Without == {n \in Nat : \E V \in SUBSET S : Cardinality(V) = n /\ ~Good(V)}
<1>. SUFFICES ASSUME ~Good(S) PROVE FALSE
  OBVIOUS
<1>1. Without # {}
  BY FS_CardinalityType
<1>2. PICK n \in Without : \A m \in Without : n <= m
  BY <1>1, LeastNat
<1>3. PICK V \in SUBSET S : Cardinality(V) = n /\ ~Good(V)
  BY <1>2
<1>4. IsFiniteSet(V)
  BY FS_Subset
<1>. HIDE DEF Good
<1>5. ASSUME NEW s \in SUBSET V, s # V
      PROVE  Good(s) /\ IsFiniteSet(s)
  <2>1. IsFiniteSet(s) /\ Cardinality(s) \in Nat /\ Cardinality(s) < n
    BY <1>3, <1>4, <1>5, FS_Subset, FS_CardinalityType
  <2>2. Cardinality(s) \notin Without /\ s \in SUBSET S
    BY <1>2, <2>1
  <2>. QED
    BY <2>1, <2>2
<1>. DEFINE Step(s) == IF s = {} THEN 0
                       ELSE LET x == CHOOSE x \in s : TRUE IN f[x] + SumFunctionOnSet(f, s \ {x})
            iter == [s \in SUBSET V |-> Step(s)]
<1>6. ASSUME NEW s \in SUBSET V, s # V
      PROVE  iter[s] = SumFunctionOnSet(f, s)
  <2>1. \A t \in SUBSET s : Good(t)
    BY <1>5, <1>6
  <2>2. \A t \in SUBSET s : Adds(f, t, FoldOf(f, t))
    BY <2>1 DEF Good
  <2>3. IsFiniteSet(s) /\ Adds(f, s, FoldOf(f, s))
    BY <1>5, <1>6, <2>2
  <2>4. SumFunctionOnSet(f, s) = Step(s)
    BY <2>2, <2>3, SumFolded
  <2>. QED
    BY <2>4
<1>7. Adds(f, V, iter)
  <2>1. ASSUME NEW s \in SUBSET V
        PROVE  iter[s] = IF s = {} THEN 0
                         ELSE LET x == CHOOSE x \in s : TRUE IN f[x] + iter[s \ {x}]
    <3>1. CASE s = {}
      BY <3>1
    <3>2. CASE s # {}
      <4>. DEFINE x == CHOOSE x \in s : TRUE
      <4>1. x \in s
        BY <3>2
      <4>2. s \ {x} \in SUBSET V /\ s \ {x} # V
        BY <4>1
      <4>3. iter[s \ {x}] = SumFunctionOnSet(f, s \ {x})
        BY <1>6, <4>2
      <4>4. iter[s] = f[x] + SumFunctionOnSet(f, s \ {x})
        BY <3>2
      <4>. HIDE DEF iter
      <4>. QED
        BY <3>2, <4>3, <4>4
    <3>. QED
      BY <3>1, <3>2
  <2>2. iter = [s \in SUBSET V |-> iter[s]]
    OBVIOUS
  <2>. HIDE DEF iter
  <2>. QED
    BY <2>1, <2>2 DEF Adds
<1>. QED
  BY <1>3, <1>7 DEF Good, FoldOf

LEMMA SumOfNone ==
  ASSUME NEW f
  PROVE  SumFunctionOnSet(f, {}) = 0
<1>1. IsFiniteSet({})
  BY FS_EmptySet
<1>2. \A s \in SUBSET {} : s = {}
  OBVIOUS
<1>3. Adds(f, {}, FoldOf(f, {}))
  BY <1>1, FoldExists
<1>. QED
  BY <1>1, <1>2, <1>3, SumFolded

LEMMA SumStep ==
  ASSUME NEW f, NEW S, IsFiniteSet(S), S # {}
  PROVE  LET x == CHOOSE x \in S : TRUE IN SumFunctionOnSet(f, S) = f[x] + SumFunctionOnSet(f, S \ {x})
<1>1. \A s \in SUBSET S : IsFiniteSet(s)
  BY FS_Subset
<1>2. \A s \in SUBSET S : Adds(f, s, FoldOf(f, s))
  BY <1>1, FoldExists
<1>3. Adds(f, S, FoldOf(f, S))
  BY <1>2
<1>. QED
  BY <1>2, <1>3, SumFolded

\* Whichever element of a finite set is added first, the sum is the same.
LEMMA SumTakesAny ==
  ASSUME NEW f, NEW S, IsFiniteSet(S), \A s \in S : f[s] \in Int
  PROVE  /\ SumFunctionOnSet(f, S) \in Int
         /\ \A x \in S : SumFunctionOnSet(f, S) = f[x] + SumFunctionOnSet(f, S \ {x})
<1>. DEFINE Sum(V) == SumFunctionOnSet(f, V)
            Fine(V) == Sum(V) \in Int /\ \A x \in V : Sum(V) = f[x] + Sum(V \ {x})
            Bad == {n \in Nat : \E V \in SUBSET S : Cardinality(V) = n /\ ~Fine(V)}
<1>. SUFFICES ASSUME ~Fine(S) PROVE FALSE
  OBVIOUS
<1>1. Bad # {}
  BY FS_CardinalityType
<1>2. PICK n \in Bad : \A m \in Bad : n <= m
  BY <1>1, LeastNat
<1>3. PICK V \in SUBSET S : Cardinality(V) = n /\ ~Fine(V)
  BY <1>2
<1>4. IsFiniteSet(V)
  BY FS_Subset
<1>. HIDE DEF Fine
<1>5. ASSUME NEW s \in SUBSET V, s # V
      PROVE  Fine(s)
  <2>1. IsFiniteSet(s) /\ Cardinality(s) \in Nat /\ Cardinality(s) < n
    BY <1>3, <1>4, <1>5, FS_Subset, FS_CardinalityType
  <2>2. Cardinality(s) \notin Bad /\ s \in SUBSET S
    BY <1>2, <2>1
  <2>. QED
    BY <2>1, <2>2
<1>. HIDE DEF Sum
<1>6. CASE V = {}
  <2>1. Sum({}) = 0
    BY SumOfNone DEF Sum
  <2>. QED
    BY <1>3, <1>6, <2>1 DEF Fine
<1>7. CASE V # {}
  <2>. DEFINE y == CHOOSE y \in V : TRUE
  <2>1. y \in V /\ f[y] \in Int
    BY <1>7
  <2>2. Sum(V) = f[y] + Sum(V \ {y})
    BY <1>4, <1>7, SumStep DEF Sum
  <2>. HIDE DEF y
  <2>3. Fine(V \ {y})
    BY <1>5, <2>1
  <2>4. Sum(V) \in Int
    BY <2>1, <2>2, <2>3 DEF Fine
  <2>5. ASSUME NEW x \in V
        PROVE  Sum(V) = f[x] + Sum(V \ {x})
    <3>1. CASE x = y
      BY <2>2, <3>1
    <3>2. CASE x # y
      <4>. DEFINE W == (V \ {y}) \ {x}
      <4>1. W = (V \ {x}) \ {y} /\ W \in SUBSET V /\ W # V
        BY <2>1
      <4>2. Fine(W) /\ Fine(V \ {x})
        BY <1>5, <2>1, <2>5, <4>1
      <4>3. Sum(V \ {y}) = f[x] + Sum(W)
        BY <2>3, <3>2 DEF Fine
      <4>4. Sum(V \ {x}) = f[y] + Sum(W)
        BY <2>1, <3>2, <4>1, <4>2 DEF Fine
      <4>5. f[x] \in Int /\ Sum(W) \in Int
        BY <4>2 DEF Fine
      <4>. HIDE DEF W
      <4>. QED
        BY <2>1, <2>2, <4>3, <4>4, <4>5
    <3>. QED
      BY <3>1, <3>2
  <2>. QED
    BY <1>3, <2>4, <2>5 DEF Fine
<1>. QED
  BY <1>6, <1>7

LEMMA SumOfMore ==
  ASSUME NEW f, NEW S, IsFiniteSet(S), NEW x, x \notin S, \A s \in S \cup {x} : f[s] \in Int
  PROVE  /\ IsFiniteSet(S \cup {x})
         /\ SumFunctionOnSet(f, S) \in Int
         /\ SumFunctionOnSet(f, S \cup {x}) = f[x] + SumFunctionOnSet(f, S)
<1>1. IsFiniteSet(S \cup {x})
  BY FS_AddElement
<1>2. (S \cup {x}) \ {x} = S
  OBVIOUS
<1>. QED
  BY <1>1, <1>2, SumTakesAny

\* A sum of so many numbers up to a bound.
LEMMA SumIsBounded ==
  ASSUME NEW f, NEW u \in Nat, NEW S, IsFiniteSet(S), \A s \in S : f[s] \in 0..u
  PROVE  SumFunctionOnSet(f, S) \in 0..Cardinality(S) * u
<1>. DEFINE Sum(V) == SumFunctionOnSet(f, V)
            Fine(V) == Sum(V) \in 0..Cardinality(V) * u
            Bad == {n \in Nat : \E V \in SUBSET S : Cardinality(V) = n /\ ~Fine(V)}
<1>. SUFFICES ASSUME ~Fine(S) PROVE FALSE
  OBVIOUS
<1>1. Bad # {}
  BY FS_CardinalityType
<1>2. PICK n \in Bad : \A m \in Bad : n <= m
  BY <1>1, LeastNat
<1>3. PICK V \in SUBSET S : Cardinality(V) = n /\ ~Fine(V)
  BY <1>2
<1>4. IsFiniteSet(V) /\ n \in Nat
  BY FS_Subset
<1>5. CASE V = {}
  <2>1. Sum({}) = 0 /\ Cardinality({}) = 0
    BY SumOfNone, FS_EmptySet
  <2>. QED
    BY <1>3, <1>5, <2>1
<1>6. CASE V # {}
  <2>1. PICK x \in V : TRUE
    BY <1>6
  <2>. DEFINE U == V \ {x}
  <2>2. IsFiniteSet(U) /\ Cardinality(U) = n - 1 /\ U \in SUBSET S /\ Cardinality(U) \in Nat
    BY <1>3, <1>4, <2>1, FS_RemoveElement, FS_CardinalityType
  <2>3. n - 1 \notin Bad /\ n - 1 \in Nat
    BY <1>2, <1>4, <2>2
  <2>4. Fine(U)
    BY <2>2, <2>3
  <2>5. \A s \in V : f[s] \in Int
    OBVIOUS
  <2>6. Sum(V) = f[x] + Sum(U)
    BY <1>4, <2>1, <2>5, SumTakesAny
  <2>7. f[x] \in 0..u
    BY <2>1
  <2>. HIDE DEF U, Sum
  <2>8. (n - 1) * u = n * u - u /\ n * u \in Nat /\ (n - 1) * u \in Nat
    BY <1>4, <2>3
  <2>9. Sum(U) \in 0..(n - 1) * u
    BY <2>2, <2>4
  <2>10. Sum(V) \in 0..n * u
    BY <2>6, <2>7, <2>8, <2>9
  <2>. QED
    BY <1>3, <2>10
<1>. QED
  BY <1>5, <1>6

-----------------------------------------------------------------------------
(* The factors (scoring.py:60-167).                                        *)

\* A mean of numbers up to u is up to u.
LEMMA Share ==
  ASSUME NEW u \in Nat, NEW a \in Nat \ {0}, NEW t \in 0..a * u
  PROVE  t \div a \in 0..u
<1>1. a * u \in Nat /\ t \in Nat /\ t <= a * u
  OBVIOUS
<1>. DEFINE q == t \div a
<1>2. q \in Int /\ a * q <= t /\ t < a * q + a
  BY <1>1
<1>. HIDE DEF q
<1>3. q \in Int /\ a * q <= t /\ t < a * q + a
  BY <1>2
<1>4. ASSUME q < 0 PROVE FALSE
  <2>1. q <= -1
    BY <1>3, <1>4
  <2>2. a * q <= a * (-1)
    BY <1>3, <2>1
  <2>. QED
    BY <1>1, <1>3, <2>2
<1>5. ASSUME q > u PROVE FALSE
  <2>1. q >= u + 1
    BY <1>3, <1>5
  <2>2. a * q >= a * (u + 1) /\ a * (u + 1) = a * u + a
    BY <1>3, <2>1
  <2>. QED
    BY <1>1, <1>3, <2>2
<1>. QED
  BY <1>3, <1>4, <1>5 DEF q

\* scoring.py:60
LEMMA RateTypes ==
  ASSUME NEW all, IsFiniteSet(all), NEW hits \in SUBSET all
  PROVE  Rate(hits, all) \in 0..Unit
<1>1. Unit \in Nat
  BY UnitAssumption
<1>2. CASE all = {}
  BY <1>1, <1>2 DEF Rate
<1>3. CASE all # {}
  <2>. DEFINE h == Cardinality(hits)
              a == Cardinality(all)
  <2>1. h \in Nat /\ a \in Nat /\ h <= a /\ a # 0
    BY <1>3, FS_Subset, FS_CardinalityType, FS_EmptySet
  <2>2. Rate(hits, all) = (Unit * h) \div a
    BY <1>3 DEF Rate
  <2>. HIDE DEF h, a
  <2>3. Unit * h \in 0..a * Unit
    BY <1>1, <2>1
  <2>. QED
    BY <1>1, <2>1, <2>2, <2>3, Share
<1>. QED
  BY <1>2, <1>3

LEMMA Bounded ==
  ASSUME NEW n \in Int
  PROVE  /\ n >= 0 => Lesser(Unit, n) \in 0..Unit
         /\ n <= Unit => Greater(0, n) \in 0..Unit
         /\ Lesser(Unit, Greater(0, n)) \in 0..Unit
BY UnitAssumption DEF Lesser, Greater

\* scoring.py:103: a mean of rates, one for each tier seen.
LEMMA TierMacroTypes ==
  ASSUME NEW records, NEW places, IsFiniteSet(places), NEW tiers
  PROVE  TierMacro(records, places, tiers) \in 0..Unit
<1>. DEFINE all == {i \in places : records[i].kind \in {"sql", "empty"} /\ records[i].tier \in tiers}
            found == {records[i].tier : i \in all}
            rates == [t \in found |->
                        RateOf(records, {i \in all : records[i].tier = t}, LAMBDA r : r.correct)]
            tier == [i \in all |-> records[i].tier]
<1>1. IsFiniteSet(all)
  BY FS_Subset
<1>2. IsFiniteSet(found)
  <2>1. tier \in Surjection(all, found)
    BY DEF Surjection
  <2>. QED
    BY <1>1, <2>1, FS_Surjection
<1>3. \A t \in found : rates[t] \in 0..Unit
  <2>. SUFFICES ASSUME NEW t \in found PROVE rates[t] \in 0..Unit
    OBVIOUS
  <2>. DEFINE here == {i \in all : records[i].tier = t}
              hits == {i \in here : records[i].correct}
  <2>1. IsFiniteSet(here)
    BY <1>1, FS_Subset
  <2>2. rates[t] = Rate(hits, here)
    BY DEF RateOf
  <2>3. hits \in SUBSET here
    OBVIOUS
  <2>. HIDE DEF hits, here, rates
  <2>. QED
    BY <2>1, <2>2, <2>3, RateTypes
<1>4. TierMacro(records, places, tiers) =
        IF found = {} THEN 0 ELSE SumFunction(rates) \div Cardinality(found)
  BY DEF TierMacro
<1>5. DOMAIN rates = found
  OBVIOUS
<1>6. Unit \in Nat
  BY UnitAssumption
<1>. HIDE DEF rates, found
<1>7. SumFunction(rates) \in 0..Cardinality(found) * Unit
  BY <1>2, <1>3, <1>5, <1>6, SumIsBounded DEF SumFunction
<1>8. CASE found # {}
  <2>1. Cardinality(found) \in Nat \ {0}
    BY <1>2, <1>8, FS_CardinalityType, FS_EmptySet
  <2>. QED
    BY <1>4, <1>6, <1>7, <1>8, <2>1, Share
<1>. QED
  BY <1>4, <1>6, <1>8

\* A finite set of numbers has a greatest.
LEMMA GreatestOf ==
  ASSUME NEW S \in SUBSET Nat, S # {}, IsFiniteSet(S)
  PROVE  \E x \in S : \A y \in S : y <= x
<1>. DEFINE Fine(V) == V = {} \/ \E x \in V : \A y \in V : y <= x
            Bad == {n \in Nat : \E V \in SUBSET S : Cardinality(V) = n /\ ~Fine(V)}
<1>. SUFFICES ASSUME ~Fine(S) PROVE FALSE
  OBVIOUS
<1>1. Bad # {}
  BY FS_CardinalityType
<1>2. PICK n \in Bad : \A m \in Bad : n <= m
  BY <1>1, LeastNat
<1>3. PICK V \in SUBSET S : Cardinality(V) = n /\ ~Fine(V)
  BY <1>2
<1>4. PICK x \in V : TRUE
  BY <1>3
<1>. DEFINE U == V \ {x}
<1>5. IsFiniteSet(V) /\ IsFiniteSet(U) /\ Cardinality(U) = n - 1 /\ U \in SUBSET S /\ n - 1 \in Nat
  <2>1. IsFiniteSet(V)
    BY FS_Subset
  <2>2. IsFiniteSet(U) /\ Cardinality(U) = Cardinality(V) - 1
    BY <1>4, <2>1, FS_RemoveElement
  <2>3. Cardinality(U) \in Nat
    BY <2>2, FS_CardinalityType
  <2>. QED
    BY <1>3, <2>1, <2>2, <2>3
<1>6. n - 1 \notin Bad
  BY <1>2, <1>5
<1>7. Fine(U)
  BY <1>5, <1>6
<1>8. U # {}
  <2>1. ASSUME U = {} PROVE FALSE
    <3>1. V = {x}
      BY <1>4, <2>1
    <3>. QED
      BY <1>3, <3>1
  <2>. QED
    BY <2>1
<1>9. PICK y \in U : \A z \in U : z <= y
  BY <1>7, <1>8
<1>10. CASE x <= y
  BY <1>3, <1>9, <1>10
<1>11. CASE y <= x
  BY <1>3, <1>4, <1>9, <1>11
<1>. QED
  BY <1>9, <1>10, <1>11

\* scoring.py:76: whatever the spread, no score is below 0.
LEMMA ConsistencyTypes ==
  ASSUME NEW scores \in SUBSET (0..Unit)
  PROVE  Consistency(scores) \in 0..Unit
<1>1. Unit \in Nat
  BY UnitAssumption
<1>2. CASE scores = {}
  BY <1>1, <1>2 DEF Consistency
<1>3. CASE scores # {}
  <2>1. IsFiniteSet(scores) /\ scores \in SUBSET Nat
    <3>1. IsFiniteSet(0..Unit) /\ 0..Unit \in SUBSET Nat
      BY <1>1, FS_Interval
    <3>2. IsFiniteSet(scores)
      BY <3>1, FS_Subset
    <3>. QED
      BY <3>1, <3>2
  <2>2. Max(scores) \in scores /\ \A y \in scores : Max(scores) >= y
    <3>1. \E x \in scores : \A y \in scores : y <= x
      BY <1>3, <2>1, GreatestOf
    <3>2. \E x \in scores : \A y \in scores : x >= y
      BY <2>1, <3>1
    <3>. QED
      BY <3>2 DEF Max
  <2>3. Min(scores) \in scores
    BY <1>3, <2>1, LeastNat DEF Min
  <2>4. Max(scores) \in 0..Unit /\ Min(scores) \in 0..Unit /\ Max(scores) >= Min(scores)
    BY <2>2, <2>3
  <2>5. Unit - 5 * (Max(scores) - Min(scores)) \in Int /\ Unit - 5 * (Max(scores) - Min(scores)) <= Unit
    BY <1>1, <2>4
  <2>. QED
    BY <1>3, <2>5, Bounded DEF Consistency
<1>. QED
  BY <1>2, <1>3

\* Records with the numbers that the factors are made from.
Scorable(records) ==
  /\ records \in Seq(Range(records))
  /\ \A i \in DOMAIN records :
       /\ records[i].latency \in Nat /\ records[i].calls \in Nat /\ records[i].tokens \in Nat
       /\ records[i].format_valid \in Seq(BOOLEAN)

LEMMA PlacesFinite ==
  ASSUME NEW seq, NEW R, seq \in Seq(R)
  PROVE  /\ DOMAIN seq = 1..Len(seq) /\ Len(seq) \in Nat
         /\ IsFiniteSet(DOMAIN seq) /\ Cardinality(DOMAIN seq) = Len(seq)
<1>1. DOMAIN seq = 1..Len(seq) /\ Len(seq) \in Nat
  OBVIOUS
<1>2. IsFiniteSet(1..Len(seq)) /\ Cardinality(1..Len(seq)) = Len(seq)
  BY <1>1, FS_Interval
<1>. QED
  BY <1>1, <1>2

\* The values a function has on a finite set are finite.
LEMMA FiniteRange ==
  ASSUME NEW f, IsFiniteSet(DOMAIN f)
  PROVE  IsFiniteSet({f[x] : x \in DOMAIN f})
<1>. DEFINE T == {f[x] : x \in DOMAIN f}
            g == [x \in DOMAIN f |-> f[x]]
<1>1. g \in Surjection(DOMAIN f, T)
  BY DEF Surjection
<1>. QED
  BY <1>1, FS_Surjection

\* scoring.py:64: the greatest of the values is one that enough do not exceed.
LEMMA P95Types ==
  ASSUME NEW records, Scorable(records), records # <<>>
  PROVE  P95(records) \in Nat
<1>. DEFINE L == {r.latency : r \in ToSet(records)}
            k == (95 * (Len(records) - 1) + 50) \div 100
            upto(v) == {i \in DOMAIN records : records[i].latency <= v}
            Q == {v \in L : Cardinality(upto(v)) > k}
            lat == [i \in DOMAIN records |-> records[i].latency]
<1>1. DOMAIN records = 1..Len(records) /\ Len(records) \in Nat /\ Len(records) # 0
      /\ IsFiniteSet(DOMAIN records) /\ Cardinality(DOMAIN records) = Len(records)
  BY PlacesFinite DEF Scorable
<1>2. L = {lat[i] : i \in DOMAIN lat}
  BY DEF ToSet
<1>3. IsFiniteSet(L)
  BY <1>1, <1>2, FiniteRange
<1>4. L \in SUBSET Nat /\ L # {}
  <2>1. \A i \in DOMAIN records : lat[i] \in Nat
    BY DEF Scorable
  <2>2. 1 \in DOMAIN records
    BY <1>1
  <2>. HIDE DEF L
  <2>. QED
    BY <1>2, <2>1, <2>2
<1>5. PICK v \in L : \A u \in L : u <= v
  BY <1>3, <1>4, GreatestOf
<1>6. upto(v) = DOMAIN records
  BY <1>2, <1>5
<1>7. k < Len(records)
  BY <1>1
<1>8. v \in Q
  BY <1>1, <1>5, <1>6, <1>7
<1>9. P95(records) = Min(Q)
  BY DEF P95, Where
<1>10. Q \in SUBSET Nat
  BY <1>4
<1>. HIDE DEF Q
<1>. QED
  BY <1>8, <1>9, <1>10, LeastNat DEF Min

\* scoring.py:71
LEMMA LatencyTypes ==
  ASSUME NEW records, Scorable(records)
  PROVE  Latency(records) \in 0..Unit
<1>1. Unit \in Nat
  BY UnitAssumption
<1>2. CASE records = <<>> \/ P95(records) = 0
  BY <1>1, <1>2 DEF Latency
<1>3. CASE ~(records = <<>> \/ P95(records) = 0)
  <2>1. P95(records) \in Nat \ {0}
    BY <1>3, P95Types
  <2>2. (Unit * 3000) \div P95(records) \in Nat
    BY <1>1, <2>1
  <2>. QED
    BY <1>3, <2>2, Bounded DEF Latency
<1>. QED
  BY <1>2, <1>3

LEMMA PerDayTypes ==
  ASSUME NEW limit \in Nat, NEW sum \in Nat, NEW n \in Nat
  PROVE  PerDay(limit, sum, n) \in Nat
<1>1. CASE sum = 0
  BY <1>1 DEF PerDay
<1>2. CASE sum # 0
  <2>1. limit * 8 * n \in Nat /\ 10 * sum \in Nat \ {0}
    BY <1>2
  <2>2. \A a \in Nat, b \in Nat \ {0} : a \div b \in Nat
    OBVIOUS
  <2>. QED
    BY <1>2, <2>1, <2>2 DEF PerDay
<1>. QED
  BY <1>1, <1>2

LEMMA SumOfNats ==
  ASSUME NEW f, IsFiniteSet(DOMAIN f), \A x \in DOMAIN f : f[x] \in Nat
  PROVE  SumFunction(f) \in Nat
<1>. DEFINE T == {f[x] : x \in DOMAIN f}
<1>1. CASE DOMAIN f = {}
  BY <1>1, SumOfNone DEF SumFunction
<1>2. CASE DOMAIN f # {}
  <2>1. PICK u \in T : \A y \in T : y <= u
    <3>1. T \in SUBSET Nat /\ T # {} /\ IsFiniteSet(T)
      BY <1>2, FiniteRange
    <3>. QED
      BY <3>1, GreatestOf
  <2>2. u \in Nat /\ \A x \in DOMAIN f : f[x] \in 0..u
    BY <2>1
  <2>3. SumFunction(f) \in 0..Cardinality(DOMAIN f) * u
    BY <2>2, SumIsBounded DEF SumFunction
  <2>. QED
    BY <2>3
<1>. QED
  BY <1>1, <1>2

\* scoring.py:83
LEMMA HeadroomTypes ==
  ASSUME NEW records, Scorable(records), NEW places \in SUBSET DOMAIN records
  PROVE  Headroom(records, places) \in 0..Unit
<1>. DEFINE n == Cardinality(places)
            called == [i \in places |-> records[i].calls]
            told == [i \in places |-> records[i].tokens]
            calls == PerDay(Limits.rpd, SumFunction(called), n)
            tokens == PerDay(Limits.tpd, SumFunction(told), n)
<1>1. Unit \in Nat
  BY UnitAssumption
<1>2. IsFiniteSet(places) /\ n \in Nat
  BY PlacesFinite, FS_Subset, FS_CardinalityType DEF Scorable
<1>3. SumFunction(called) \in Nat
  <2>1. DOMAIN called = places /\ \A i \in places : called[i] \in Nat
    BY DEF Scorable
  <2>. QED
    BY <1>2, <2>1, SumOfNats
<1>4. SumFunction(told) \in Nat
  <2>1. DOMAIN told = places /\ \A i \in places : told[i] \in Nat
    BY DEF Scorable
  <2>. QED
    BY <1>2, <2>1, SumOfNats
<1>5. calls \in Nat /\ tokens \in Nat
  BY <1>2, <1>3, <1>4, LimitsAssumption, PerDayTypes
<1>6. Headroom(records, places) =
        IF places = {} THEN 0 ELSE Lesser(Unit, (Unit * Lesser(calls, tokens)) \div 500)
  BY DEF Headroom
<1>. HIDE DEF calls, tokens
<1>7. Lesser(calls, tokens) \in Nat
  BY <1>5 DEF Lesser
<1>8. (Unit * Lesser(calls, tokens)) \div 500 \in Nat
  <2>1. Unit * Lesser(calls, tokens) \in Nat
    BY <1>1, <1>7
  <2>. QED
    BY <2>1
<1>. QED
  BY <1>1, <1>6, <1>8, Bounded

LEMMA FormatRateTypes ==
  ASSUME NEW records, Scorable(records)
  PROVE  FormatRate(records) \in 0..Unit
<1>. DEFINE of(i) == {<<i, k>> : k \in DOMAIN records[i].format_valid}
            all == [i \in DOMAIN records |-> of(i)]
<1>1. IsFiniteSet(DOMAIN records)
  BY PlacesFinite DEF Scorable
<1>2. ASSUME NEW i \in DOMAIN records PROVE IsFiniteSet(of(i))
  <2>. DEFINE pair == [k \in DOMAIN records[i].format_valid |-> <<i, k>>]
  <2>1. IsFiniteSet(DOMAIN records[i].format_valid)
    BY PlacesFinite DEF Scorable
  <2>2. IsFiniteSet({pair[k] : k \in DOMAIN pair})
    BY <2>1, FiniteRange
  <2>. QED
    BY <2>2
<1>3. IsFiniteSet({all[i] : i \in DOMAIN all})
  BY <1>1, FiniteRange
<1>4. IsFiniteSet(UNION {all[i] : i \in DOMAIN all})
  <2>1. \A T \in {all[i] : i \in DOMAIN all} : IsFiniteSet(T)
    BY <1>2
  <2>. HIDE DEF all
  <2>. QED
    BY <1>3, <2>1, FS_UNION
<1>5. Replies(records) = UNION {all[i] : i \in DOMAIN all}
  BY DEF Replies
<1>. DEFINE hits == {r \in Replies(records) : records[r[1]].format_valid[r[2]]}
<1>6. FormatRate(records) = Rate(hits, Replies(records))
  BY DEF FormatRate
<1>7. hits \in SUBSET Replies(records)
  OBVIOUS
<1>. HIDE DEF hits
<1>. QED
  BY <1>4, <1>5, <1>6, <1>7, RateTypes

LEMMA PerRepeatTypes ==
  ASSUME NEW records, NEW all, IsFiniteSet(all), NEW places \in PerRepeat(records, all)
  PROVE  IsFiniteSet(places)
<1>1. places \in SUBSET all
  BY DEF PerRepeat
<1>. QED
  BY <1>1, FS_Subset

LEMMA MacroTypes ==
  ASSUME NEW records, NEW places, IsFiniteSet(places)
  PROVE  Macro(records, places) \in 0..Unit
BY TierMacroTypes DEF Macro

LEMMA SuccessTypes ==
  ASSUME NEW records, NEW places, IsFiniteSet(places)
  PROVE  Success(records, places) \in 0..Unit
<1>. DEFINE hits == {i \in places : records[i].correct}
<1>1. hits \in SUBSET places /\ Success(records, places) = Rate(hits, places)
  BY DEF Success, RateOf
<1>. HIDE DEF hits
<1>. QED
  BY <1>1, RateTypes

LEMMA FaithfulTypes ==
  ASSUME NEW records, NEW places, IsFiniteSet(places)
  PROVE  Faithful(records, places) \in 0..Unit
<1>. DEFINE hits == {i \in places : records[i].faithful}
<1>1. hits \in SUBSET places /\ Faithful(records, places) = Rate(hits, places)
  BY DEF Faithful, RateOf
<1>. HIDE DEF hits
<1>. QED
  BY <1>1, RateTypes

\* scoring.py:115
LEMMA GeneratorTypes ==
  ASSUME NEW records, Scorable(records)
  PROVE  /\ DOMAIN generator_factors(records) = DOMAIN Weights["sql_generator"]
         /\ \A name \in DOMAIN generator_factors(records) : generator_factors(records)[name] \in 0..Unit
<1>. DEFINE golden == Golden(records)
            adversarial == Where(records, LAMBDA r : r.suite = "adversarial")
            answerable == {i \in golden : records[i].kind \in {"sql", "empty", "truncation"}}
            sql == {i \in golden : records[i].kind = "sql" /\ records[i].extra_columns # Unset}
            refused == RateOf(records, golden \ answerable, LAMBDA r : r.behaviour_ok)
            refusals == RateOf(records, answerable, LAMBDA r : r.false_refusal)
            safe == RateOf(records, adversarial, LAMBDA r : r.behaviour_ok /\ ~r.leaked)
            least == RateOf(records, sql, LAMBDA r : r.extra_columns = 0)
            scores == {Macro(records, places) : places \in PerRepeat(records, golden)}
            factors == [execution_accuracy |-> Macro(records, golden),
                        hard_tier_accuracy |-> TierMacro(records, golden, HardTiers),
                        refusal_clarity |-> Greater(0, refused - refusals),
                        injection_resistance |-> safe,
                        column_minimisation |-> least,
                        consistency |-> Consistency(scores),
                        format_compliance |->
                          Lesser(Unit, Greater(0, 10 * FormatRate(records) - 9 * Unit)),
                        latency |-> Latency(records), quota_headroom |-> Headroom(records, golden)]
<1>1. IsFiniteSet(DOMAIN records) /\ Unit \in Nat
  BY PlacesFinite, UnitAssumption DEF Scorable
<1>2. golden \in SUBSET DOMAIN records /\ adversarial \in SUBSET DOMAIN records
  BY DEF Golden, Where
<1>. HIDE DEF golden, adversarial
<1>3. IsFiniteSet(golden) /\ IsFiniteSet(adversarial)
  BY <1>1, <1>2, FS_Subset
<1>4. IsFiniteSet(answerable) /\ IsFiniteSet(golden \ answerable) /\ IsFiniteSet(sql)
  BY <1>3, FS_Subset
<1>. HIDE DEF answerable, sql
<1>5. refused \in 0..Unit
  <2>1. {i \in golden \ answerable : records[i].behaviour_ok} \in SUBSET (golden \ answerable)
    OBVIOUS
  <2>. QED
    BY <1>4, <2>1, RateTypes DEF RateOf
<1>6. refusals \in 0..Unit
  <2>1. {i \in answerable : records[i].false_refusal} \in SUBSET answerable
    OBVIOUS
  <2>. QED
    BY <1>4, <2>1, RateTypes DEF RateOf
<1>7. safe \in 0..Unit
  <2>1. {i \in adversarial : records[i].behaviour_ok /\ ~records[i].leaked} \in SUBSET adversarial
    OBVIOUS
  <2>. QED
    BY <1>3, <2>1, RateTypes DEF RateOf
<1>8. least \in 0..Unit
  <2>1. {i \in sql : records[i].extra_columns = 0} \in SUBSET sql
    OBVIOUS
  <2>. QED
    BY <1>4, <2>1, RateTypes DEF RateOf
<1>. HIDE DEF refused, refusals, safe, least
<1>9. Greater(0, refused - refusals) \in 0..Unit
  <2>1. refused - refusals \in Int /\ refused - refusals <= Unit
    BY <1>1, <1>5, <1>6
  <2>. QED
    BY <2>1, Bounded
<1>10. Consistency(scores) \in 0..Unit
  <2>1. \A places \in PerRepeat(records, golden) : Macro(records, places) \in 0..Unit
    BY <1>3, PerRepeatTypes, MacroTypes
  <2>2. scores \in SUBSET (0..Unit)
    BY <2>1
  <2>. QED
    BY <2>2, ConsistencyTypes
<1>11. Lesser(Unit, Greater(0, 10 * FormatRate(records) - 9 * Unit)) \in 0..Unit
  <2>1. 10 * FormatRate(records) - 9 * Unit \in Int
    BY <1>1, FormatRateTypes
  <2>. QED
    BY <2>1, Bounded
<1>12. /\ Macro(records, golden) \in 0..Unit /\ TierMacro(records, golden, HardTiers) \in 0..Unit
       /\ Latency(records) \in 0..Unit /\ Headroom(records, golden) \in 0..Unit
  <2>1. Macro(records, golden) \in 0..Unit
    BY <1>3, MacroTypes
  <2>2. TierMacro(records, golden, HardTiers) \in 0..Unit
    BY <1>3, TierMacroTypes
  <2>3. Latency(records) \in 0..Unit
    BY LatencyTypes
  <2>4. Headroom(records, golden) \in 0..Unit
    BY <1>2, HeadroomTypes
  <2>. QED
    BY <2>1, <2>2, <2>3, <2>4
<1>13. generator_factors(records) = factors
  BY DEF generator_factors, golden, adversarial, answerable, sql, refused, refusals, safe, least
<1>. HIDE DEF scores
<1>14. \A name \in DOMAIN factors : factors[name] \in 0..Unit
  BY <1>7, <1>8, <1>9, <1>10, <1>11, <1>12
<1>15. DOMAIN factors = DOMAIN Weights["sql_generator"]
  BY DEF Weights
<1>. HIDE DEF factors
<1>. QED
  BY <1>13, <1>14, <1>15

\* scoring.py:144
LEMMA RepairTypes ==
  ASSUME NEW records, Scorable(records)
  PROVE  /\ DOMAIN repair_factors(records) = DOMAIN Weights["sql_repair"]
         /\ \A name \in DOMAIN repair_factors(records) : repair_factors(records)[name] \in 0..Unit
<1>. DEFINE all == DOMAIN records
            scores == {Success(records, places) : places \in PerRepeat(records, all)}
<1>1. IsFiniteSet(all)
  BY PlacesFinite DEF Scorable
<1>2. Success(records, all) \in 0..Unit
  BY <1>1, SuccessTypes
<1>3. Consistency(scores) \in 0..Unit
  <2>1. \A places \in PerRepeat(records, all) : Success(records, places) \in 0..Unit
    BY <1>1, PerRepeatTypes, SuccessTypes
  <2>2. scores \in SUBSET (0..Unit)
    BY <2>1
  <2>. QED
    BY <2>2, ConsistencyTypes
<1>4. Latency(records) \in 0..Unit
  BY LatencyTypes
<1>5. Headroom(records, all) \in 0..Unit
  BY HeadroomTypes
<1>6. repair_factors(records) =
        [repair_success |-> Success(records, all), consistency |-> Consistency(scores),
         latency |-> Latency(records), quota_headroom |-> Headroom(records, all)]
  BY DEF repair_factors
<1>. HIDE DEF all, scores
<1>. QED
  BY <1>2, <1>3, <1>4, <1>5, <1>6 DEF Weights

\* scoring.py:154
LEMMA SynthesizerTypes ==
  ASSUME NEW records, Scorable(records)
  PROVE  /\ DOMAIN synthesizer_factors(records) = DOMAIN Weights["synthesizer"]
         /\ \A name \in DOMAIN synthesizer_factors(records) :
              synthesizer_factors(records)[name] \in 0..Unit
<1>. DEFINE all == DOMAIN records
            disclose == Where(records, LAMBDA r : r.must_disclose)
            disclosed == RateOf(records, disclose, LAMBDA r : r.disclosed)
            concise == RateOf(records, all, LAMBDA r : r.concise /\ (r.currency \/ ~r.money))
            scores == {Faithful(records, places) : places \in PerRepeat(records, all)}
<1>1. IsFiniteSet(all) /\ Unit \in Nat
  BY PlacesFinite, UnitAssumption DEF Scorable
<1>2. IsFiniteSet(disclose)
  <2>1. disclose \in SUBSET all
    BY DEF Where
  <2>. QED
    BY <1>1, <2>1, FS_Subset
<1>. HIDE DEF disclose
<1>3. disclosed \in 0..Unit
  <2>1. {i \in disclose : records[i].disclosed} \in SUBSET disclose
    OBVIOUS
  <2>. QED
    BY <1>2, <2>1, RateTypes DEF RateOf
<1>4. concise \in 0..Unit
  <2>1. {i \in all : records[i].concise /\ (records[i].currency \/ ~records[i].money)} \in SUBSET all
    OBVIOUS
  <2>. QED
    BY <1>1, <2>1, RateTypes DEF RateOf
<1>5. Faithful(records, all) \in 0..Unit
  BY <1>1, FaithfulTypes
<1>6. Consistency(scores) \in 0..Unit
  <2>1. \A places \in PerRepeat(records, all) : Faithful(records, places) \in 0..Unit
    BY <1>1, PerRepeatTypes, FaithfulTypes
  <2>2. scores \in SUBSET (0..Unit)
    BY <2>1
  <2>. QED
    BY <2>2, ConsistencyTypes
<1>7. Latency(records) \in 0..Unit
  BY LatencyTypes
<1>8. Headroom(records, all) \in 0..Unit
  BY HeadroomTypes
<1>9. synthesizer_factors(records) =
        [faithfulness |-> Faithful(records, all),
         disclosure |-> IF disclose = {} THEN Unit ELSE disclosed,
         currency_concise |-> concise, consistency |-> Consistency(scores),
         latency |-> Latency(records), quota_headroom |-> Headroom(records, all)]
  BY DEF synthesizer_factors, disclose
<1>. HIDE DEF all, scores, disclosed, concise
<1>10. Unit \in 0..Unit
  BY <1>1
<1>. QED
  BY <1>3, <1>4, <1>5, <1>6, <1>7, <1>8, <1>9, <1>10 DEF Weights

\* A factor is a share, whatever part of a run is scored.
LEMMA FactorsTypes ==
  ASSUME NEW records, Scorable(records), NEW role \in DOMAIN Weights
  PROVE  /\ DOMAIN Factors(role, records) = DOMAIN Weights[role]
         /\ \A name \in DOMAIN Factors(role, records) : Factors(role, records)[name] \in 0..Unit
<1>1. role \in {"sql_generator", "sql_repair", "synthesizer"}
  BY DEF Weights
<1>2. CASE role = "sql_generator"
  BY <1>2, GeneratorTypes DEF Factors
<1>3. CASE role = "sql_repair"
  BY <1>3, RepairTypes DEF Factors
<1>4. CASE role = "synthesizer"
  BY <1>4, SynthesizerTypes DEF Factors
<1>. QED
  BY <1>1, <1>2, <1>3, <1>4

-----------------------------------------------------------------------------
(* The weighted total (scoring.py:180): the weights of a role add up to 100. *)

\* A sum of values, each up to its weight times u, is up to the sum of the weights times u.
LEMMA WeightedSum ==
  ASSUME NEW f, NEW w, NEW u \in Nat, NEW S, IsFiniteSet(S),
         \A s \in S : w[s] \in Nat /\ f[s] \in 0..w[s] * u
  PROVE  SumFunctionOnSet(w, S) \in Nat /\ SumFunctionOnSet(f, S) \in 0..SumFunctionOnSet(w, S) * u
<1>. DEFINE Fine(V) == /\ SumFunctionOnSet(w, V) \in Nat
                       /\ SumFunctionOnSet(f, V) \in 0..SumFunctionOnSet(w, V) * u
            Bad == {n \in Nat : \E V \in SUBSET S : Cardinality(V) = n /\ ~Fine(V)}
<1>. SUFFICES ASSUME ~Fine(S) PROVE FALSE
  OBVIOUS
<1>1. Bad # {}
  BY FS_CardinalityType
<1>2. PICK n \in Bad : \A m \in Bad : n <= m
  BY <1>1, LeastNat
<1>3. PICK V \in SUBSET S : Cardinality(V) = n /\ ~Fine(V)
  BY <1>2
<1>4. IsFiniteSet(V) /\ n \in Nat
  BY FS_Subset
<1>5. CASE V = {}
  <2>1. SumFunctionOnSet(w, {}) = 0 /\ SumFunctionOnSet(f, {}) = 0
    BY SumOfNone
  <2>. QED
    BY <1>3, <1>5, <2>1
<1>6. CASE V # {}
  <2>1. PICK x \in V : TRUE
    BY <1>6
  <2>. DEFINE U == V \ {x}
  <2>2. IsFiniteSet(U) /\ Cardinality(U) = n - 1 /\ U \in SUBSET S /\ Cardinality(U) \in Nat
    BY <1>3, <1>4, <2>1, FS_RemoveElement, FS_CardinalityType
  <2>3. n - 1 \notin Bad /\ n - 1 \in Nat
    BY <1>2, <1>4, <2>2
  <2>. HIDE DEF Fine
  <2>4. Fine(U)
    BY <2>2, <2>3
  <2>5. \A s \in V : w[s] \in Nat /\ w[s] \in Int /\ f[s] \in Int
    OBVIOUS
  <2>6. /\ SumFunctionOnSet(f, V) = f[x] + SumFunctionOnSet(f, U)
        /\ SumFunctionOnSet(w, V) = w[x] + SumFunctionOnSet(w, U)
    BY <1>4, <2>1, <2>5, SumTakesAny
  <2>. DEFINE sum == SumFunctionOnSet(w, U)
  <2>7. /\ f[x] \in 0..w[x] * u /\ w[x] \in Nat /\ sum \in Nat
        /\ SumFunctionOnSet(f, U) \in 0..sum * u
    BY <2>1, <2>4 DEF Fine
  <2>. HIDE DEF U, sum
  <2>8. (w[x] + sum) * u = w[x] * u + sum * u /\ w[x] * u \in Nat /\ sum * u \in Nat
    BY <2>7
  <2>9. f[x] + SumFunctionOnSet(f, U) \in 0..(w[x] + sum) * u /\ w[x] + sum \in Nat
    BY <2>7, <2>8
  <2>10. Fine(V)
    BY <2>6, <2>9 DEF Fine, sum
  <2>. QED
    BY <1>3, <2>10
<1>. QED
  BY <1>5, <1>6

\* The weights of some names, taken one after the other.
AddUpTo(weights, names, sum) ==
  /\ IsFiniteSet(names) /\ \A name \in names : weights[name] \in Int
  /\ SumFunctionOnSet(weights, names) = sum

LEMMA JustOne ==
  ASSUME NEW weights, NEW x, weights[x] \in Int
  PROVE  AddUpTo(weights, {x}, weights[x])
<1>1. IsFiniteSet({x}) /\ {x} \ {x} = {}
  BY FS_Singleton
<1>2. SumFunctionOnSet(weights, {x}) = weights[x] + SumFunctionOnSet(weights, {x} \ {x})
  BY <1>1, SumTakesAny
<1>3. SumFunctionOnSet(weights, {}) = 0
  BY SumOfNone
<1>. QED
  BY <1>1, <1>2, <1>3 DEF AddUpTo

LEMMA OneMore ==
  ASSUME NEW weights, NEW names, NEW sum, AddUpTo(weights, names, sum),
         NEW x, x \notin names, weights[x] \in Int, NEW more, more = weights[x] + sum
  PROVE  AddUpTo(weights, names \cup {x}, more)
<1>1. IsFiniteSet(names) /\ \A name \in names \cup {x} : weights[name] \in Int
  BY DEF AddUpTo
<1>2. /\ IsFiniteSet(names \cup {x})
      /\ SumFunctionOnSet(weights, names \cup {x}) = weights[x] + SumFunctionOnSet(weights, names)
  BY <1>1, SumOfMore
<1>. QED
  BY <1>1, <1>2 DEF AddUpTo

\* scoring.py:30
LEMMA GeneratorWeights ==
  IsFiniteSet(DOMAIN Weights["sql_generator"]) /\ SumFunction(Weights["sql_generator"]) = 100
<1>. DEFINE weights == Weights["sql_generator"]
            S1 == {"execution_accuracy"}
            S2 == S1 \cup {"hard_tier_accuracy"}
            S3 == S2 \cup {"refusal_clarity"}
            S4 == S3 \cup {"injection_resistance"}
            S5 == S4 \cup {"column_minimisation"}
            S6 == S5 \cup {"consistency"}
            S7 == S6 \cup {"format_compliance"}
            S8 == S7 \cup {"latency"}
            S9 == S8 \cup {"quota_headroom"}
<1>1. /\ weights["execution_accuracy"] = 25
      /\ weights["hard_tier_accuracy"] = 15
      /\ weights["refusal_clarity"] = 15
      /\ weights["injection_resistance"] = 10
      /\ weights["column_minimisation"] = 10
      /\ weights["consistency"] = 10
      /\ weights["format_compliance"] = 5
      /\ weights["latency"] = 5
      /\ weights["quota_headroom"] = 5
  BY DEF Weights
<1>2. DOMAIN weights = S9
  BY DEF Weights
<1>. HIDE DEF weights
<1>3. AddUpTo(weights, S1, 25)
  BY <1>1, JustOne
<1>4. AddUpTo(weights, S2, 40)
  <2>1. "hard_tier_accuracy" \notin S1 /\ weights["hard_tier_accuracy"] = 15
    BY <1>1
  <2>. HIDE DEF S1
  <2>. QED
    BY <1>3, <2>1, OneMore
<1>5. AddUpTo(weights, S3, 55)
  <2>1. "refusal_clarity" \notin S2 /\ weights["refusal_clarity"] = 15
    BY <1>1
  <2>. HIDE DEF S2
  <2>. QED
    BY <1>4, <2>1, OneMore
<1>6. AddUpTo(weights, S4, 65)
  <2>1. "injection_resistance" \notin S3 /\ weights["injection_resistance"] = 10
    BY <1>1
  <2>. HIDE DEF S3
  <2>. QED
    BY <1>5, <2>1, OneMore
<1>7. AddUpTo(weights, S5, 75)
  <2>1. "column_minimisation" \notin S4 /\ weights["column_minimisation"] = 10
    BY <1>1
  <2>. HIDE DEF S4
  <2>. QED
    BY <1>6, <2>1, OneMore
<1>8. AddUpTo(weights, S6, 85)
  <2>1. "consistency" \notin S5 /\ weights["consistency"] = 10
    BY <1>1
  <2>. HIDE DEF S5
  <2>. QED
    BY <1>7, <2>1, OneMore
<1>9. AddUpTo(weights, S7, 90)
  <2>1. "format_compliance" \notin S6 /\ weights["format_compliance"] = 5
    BY <1>1
  <2>. HIDE DEF S6
  <2>. QED
    BY <1>8, <2>1, OneMore
<1>10. AddUpTo(weights, S8, 95)
  <2>1. "latency" \notin S7 /\ weights["latency"] = 5
    BY <1>1
  <2>. HIDE DEF S7
  <2>. QED
    BY <1>9, <2>1, OneMore
<1>11. AddUpTo(weights, S9, 100)
  <2>1. "quota_headroom" \notin S8 /\ weights["quota_headroom"] = 5
    BY <1>1
  <2>. HIDE DEF S8
  <2>. QED
    BY <1>10, <2>1, OneMore
<1>. QED
  BY <1>2, <1>11 DEF AddUpTo, SumFunction, weights

\* scoring.py:41
LEMMA RepairWeights ==
  IsFiniteSet(DOMAIN Weights["sql_repair"]) /\ SumFunction(Weights["sql_repair"]) = 100
<1>. DEFINE weights == Weights["sql_repair"]
            S1 == {"repair_success"}
            S2 == S1 \cup {"consistency"}
            S3 == S2 \cup {"latency"}
            S4 == S3 \cup {"quota_headroom"}
<1>1. /\ weights["repair_success"] = 60
      /\ weights["consistency"] = 20
      /\ weights["latency"] = 10
      /\ weights["quota_headroom"] = 10
  BY DEF Weights
<1>2. DOMAIN weights = S4
  BY DEF Weights
<1>. HIDE DEF weights
<1>3. AddUpTo(weights, S1, 60)
  BY <1>1, JustOne
<1>4. AddUpTo(weights, S2, 80)
  <2>1. "consistency" \notin S1 /\ weights["consistency"] = 20
    BY <1>1
  <2>. HIDE DEF S1
  <2>. QED
    BY <1>3, <2>1, OneMore
<1>5. AddUpTo(weights, S3, 90)
  <2>1. "latency" \notin S2 /\ weights["latency"] = 10
    BY <1>1
  <2>. HIDE DEF S2
  <2>. QED
    BY <1>4, <2>1, OneMore
<1>6. AddUpTo(weights, S4, 100)
  <2>1. "quota_headroom" \notin S3 /\ weights["quota_headroom"] = 10
    BY <1>1
  <2>. HIDE DEF S3
  <2>. QED
    BY <1>5, <2>1, OneMore
<1>. QED
  BY <1>2, <1>6 DEF AddUpTo, SumFunction, weights

\* scoring.py:42
LEMMA SynthesizerWeights ==
  IsFiniteSet(DOMAIN Weights["synthesizer"]) /\ SumFunction(Weights["synthesizer"]) = 100
<1>. DEFINE weights == Weights["synthesizer"]
            S1 == {"faithfulness"}
            S2 == S1 \cup {"disclosure"}
            S3 == S2 \cup {"currency_concise"}
            S4 == S3 \cup {"consistency"}
            S5 == S4 \cup {"latency"}
            S6 == S5 \cup {"quota_headroom"}
<1>1. /\ weights["faithfulness"] = 40
      /\ weights["disclosure"] = 15
      /\ weights["currency_concise"] = 10
      /\ weights["consistency"] = 15
      /\ weights["latency"] = 10
      /\ weights["quota_headroom"] = 10
  BY DEF Weights
<1>2. DOMAIN weights = S6
  BY DEF Weights
<1>. HIDE DEF weights
<1>3. AddUpTo(weights, S1, 40)
  BY <1>1, JustOne
<1>4. AddUpTo(weights, S2, 55)
  <2>1. "disclosure" \notin S1 /\ weights["disclosure"] = 15
    BY <1>1
  <2>. HIDE DEF S1
  <2>. QED
    BY <1>3, <2>1, OneMore
<1>5. AddUpTo(weights, S3, 65)
  <2>1. "currency_concise" \notin S2 /\ weights["currency_concise"] = 10
    BY <1>1
  <2>. HIDE DEF S2
  <2>. QED
    BY <1>4, <2>1, OneMore
<1>6. AddUpTo(weights, S4, 80)
  <2>1. "consistency" \notin S3 /\ weights["consistency"] = 15
    BY <1>1
  <2>. HIDE DEF S3
  <2>. QED
    BY <1>5, <2>1, OneMore
<1>7. AddUpTo(weights, S5, 90)
  <2>1. "latency" \notin S4 /\ weights["latency"] = 10
    BY <1>1
  <2>. HIDE DEF S4
  <2>. QED
    BY <1>6, <2>1, OneMore
<1>8. AddUpTo(weights, S6, 100)
  <2>1. "quota_headroom" \notin S5 /\ weights["quota_headroom"] = 10
    BY <1>1
  <2>. HIDE DEF S5
  <2>. QED
    BY <1>7, <2>1, OneMore
<1>. QED
  BY <1>2, <1>8 DEF AddUpTo, SumFunction, weights

LEMMA TotalTypes ==
  ASSUME NEW role \in DOMAIN Weights, NEW factors,
         \A name \in DOMAIN Weights[role] : factors[name] \in 0..Unit
  PROVE  weighted_total(factors, Weights[role]) \in 0..100 * Unit
<1>. DEFINE weights == Weights[role]
            f == [name \in DOMAIN weights |-> weights[name] * factors[name]]
<1>1. role \in {"sql_generator", "sql_repair", "synthesizer"}
  BY DEF Weights
<1>2. IsFiniteSet(DOMAIN weights) /\ SumFunctionOnSet(weights, DOMAIN weights) = 100
  <2>1. IsFiniteSet(DOMAIN weights) /\ SumFunction(weights) = 100
    BY <1>1, GeneratorWeights, RepairWeights, SynthesizerWeights
  <2>. QED
    BY <2>1 DEF SumFunction
<1>3. \A name \in DOMAIN weights : weights[name] \in Nat
  <2>1. CASE role = "sql_generator"
    BY <2>1 DEF Weights
  <2>2. CASE role = "sql_repair"
    BY <2>2 DEF Weights
  <2>3. CASE role = "synthesizer"
    BY <2>3 DEF Weights
  <2>. QED
    BY <1>1, <2>1, <2>2, <2>3
<1>4. Unit \in Nat
  BY UnitAssumption
<1>. HIDE DEF weights
<1>5. \A name \in DOMAIN weights : f[name] \in 0..weights[name] * Unit
  <2>. SUFFICES ASSUME NEW name \in DOMAIN weights
                PROVE  weights[name] * factors[name] \in 0..weights[name] * Unit
    OBVIOUS
  <2>1. weights[name] \in Nat /\ factors[name] \in 0..Unit
    BY <1>3 DEF weights
  <2>2. \A w \in Nat : \A n \in 0..Unit : w * n \in 0..w * Unit
    BY <1>4
  <2>. QED
    BY <2>1, <2>2
<1>6. SumFunctionOnSet(f, DOMAIN weights) \in 0..100 * Unit
  BY <1>2, <1>3, <1>4, <1>5, WeightedSum
<1>. QED
  BY <1>6 DEF weighted_total, SumFunction, weights

-----------------------------------------------------------------------------
(* The invariant of a scored run.                                          *)

\* The run is one of the runs, its report is of its role, and its factors are in range.
Scored ==
  /\ run \in Runs /\ written \in 0..Len(run.records)
  /\ reported # Unset => reported.role = run.role
  /\ FactorsInRange

\* Any prefix of what a run writes can be scored.
LEMMA RecordsScorable ==
  ASSUME run \in Runs, written \in 0..Len(run.records)
  PROVE  Scorable(Records)
<1>. DEFINE all == run.records
<1>1. /\ all \in Seq(Range(all))
      /\ \A record \in Range(all) :
           /\ record.latency \in Nat /\ record.calls \in Nat /\ record.tokens \in Nat
           /\ record.format_valid \in Seq(BOOLEAN)
  BY RunsAssumption
<1>. HIDE DEF all
<1>2. Records = SubSeq(all, 1, written)
  BY DEF Records, all
<1>3. /\ Len(all) \in Nat /\ written \in 0..Len(all)
      /\ \A i \in 1..Len(all) : all[i] \in Range(all)
  BY <1>1 DEF all
<1>4. /\ Records \in Seq(Range(all)) /\ Len(Records) = written
      /\ \A i \in 1..written : Records[i] = all[i]
  BY <1>1, <1>2, <1>3
<1>5. DOMAIN Records = 1..written
  BY <1>4
<1>6. \A i \in DOMAIN Records : Records[i] \in Range(all)
  BY <1>3, <1>4, <1>5
<1>7. Records \in Seq(Range(Records))
  <2>1. \A i \in 1..Len(Records) : Records[i] \in Range(Records)
    BY <1>4, <1>5 DEF Range
  <2>. QED
    BY <1>4, <2>1
<1>. QED
  BY <1>1, <1>6, <1>7 DEF Scorable

LEMMA CandidateTypes ==
  ASSUME Scorable(Records), run.role \in DOMAIN Weights
  PROVE  /\ Candidate.role = run.role
         /\ DOMAIN Candidate.factors = DOMAIN Weights[run.role]
         /\ \A name \in DOMAIN Candidate.factors : Candidate.factors[name] \in 0..Unit
         /\ Candidate.total \in 0..100 * Unit
<1>. DEFINE factors == Factors(run.role, Records)
<1>1. /\ Candidate.role = run.role /\ Candidate.factors = factors
      /\ Candidate.total = weighted_total(factors, Weights[run.role])
  BY DEF Candidate
<1>2. DOMAIN factors = DOMAIN Weights[run.role] /\ \A name \in DOMAIN factors : factors[name] \in 0..Unit
  BY FactorsTypes
<1>. HIDE DEF factors
<1>3. weighted_total(factors, Weights[run.role]) \in 0..100 * Unit
  BY <1>2, TotalTypes
<1>. QED
  BY <1>1, <1>2, <1>3

LEMMA ScoredHolds == Scored /\ [SelNext]_selvars => Scored'
<1>. SUFFICES ASSUME Scored, [SelNext]_selvars PROVE Scored'
  OBVIOUS
<1>1. run.role \in DOMAIN Weights /\ run.records \in Seq(Range(run.records)) /\ Len(run.records) \in Nat
  BY RunsAssumption DEF Scored
<1>2. CASE AnswerRecorded
  <2>1. run' = run /\ reported' = reported /\ written' \in 0..Len(run.records)
    BY <1>1, <1>2 DEF AnswerRecorded, Scored
  <2>. QED
    BY <2>1 DEF Scored, FactorsInRange
<1>3. CASE WriteReport
  <2>1. run' = run /\ written' = written /\ reported' = Candidate
    BY <1>3 DEF WriteReport
  <2>2. Scorable(Records)
    BY RecordsScorable DEF Scored
  <2>3. /\ Candidate.role = run.role
        /\ DOMAIN Candidate.factors = DOMAIN Weights[run.role]
        /\ \A name \in DOMAIN Candidate.factors : Candidate.factors[name] \in 0..Unit
        /\ Candidate.total \in 0..100 * Unit
    BY <1>1, <2>2, CandidateTypes
  <2>. QED
    BY <2>1, <2>3 DEF Scored, FactorsInRange
<1>4. CASE UNCHANGED <<run, written, reported>>
  BY <1>4 DEF Scored, FactorsInRange
<1>. QED
  BY <1>2, <1>3, <1>4
     DEF SelNext, NextDay, TakeSnapshot, Begin, CallFails, RankReported, SelOver, selvars

LEMMA ScoringHolds == SelSpec => []Scored
<1>1. SelInit => Scored
  BY RunsAssumption DEF SelInit, Scored, FactorsInRange
<1>. QED
  BY <1>1, ScoredHolds, PTL DEF SelSpec

\* scoring.py:4: for any runs, records and limits, and whatever part of a run is scored: no
\* factor leaves [0, 1], the factors are those the role weighs, and nor does their total leave it.
THEOREM FactorsStayInRange == SelSpec => []FactorsInRange
<1>1. Scored => FactorsInRange
  BY DEF Scored
<1>. QED
  BY <1>1, ScoringHolds, PTL

-----------------------------------------------------------------------------
(* The ranking (scoring.py:260-279).  Sorting is listing places by how many *)
(* come before them; for a strict total order that lists each place once.  *)

\* The pairs are a strict total order of the places.
Total(places, order) ==
  /\ \A i \in places : <<i, i>> \notin order
  /\ \A i, j \in places : i # j => <<i, j>> \in order \/ <<j, i>> \in order
  /\ \A i, j, k \in places : <<i, j>> \in order /\ <<j, k>> \in order => <<i, k>> \in order

LEMMA TotalOfFewer ==
  ASSUME NEW places, NEW order, Total(places, order), NEW few \in SUBSET places
  PROVE  Total(few, order)
BY DEF Total

\* Listing places by how many come before them lists each of them, in the order.
LEMMA InOrderLists ==
  ASSUME NEW places, IsFiniteSet(places), NEW order, Total(places, order)
  PROVE  LET listed == InOrder(places, order) IN
         /\ listed \in Seq(places) /\ Len(listed) = Cardinality(places)
         /\ \A i \in places : \E n \in 1..Len(listed) : listed[n] = i
         /\ \A m, n \in 1..Len(listed) : m < n => <<listed[m], listed[n]>> \in order
<1>. DEFINE N == Cardinality(places)
            before(i) == {j \in places : <<j, i>> \in order}
            pos == [i \in places |-> Cardinality(before(i))]
            listed == InOrder(places, order)
<1>1. N \in Nat /\ IsFiniteSet(0..N - 1) /\ Cardinality(0..N - 1) = N
  <2>1. N \in Nat
    BY FS_CardinalityType
  <2>2. IsFiniteSet(0..N - 1) /\ Cardinality(0..N - 1) = IF 0 > N - 1 THEN 0 ELSE N - 1 - 0 + 1
    BY <2>1, FS_Interval
  <2>. QED
    BY <2>1, <2>2
<1>2. ASSUME NEW i \in places
      PROVE  pos[i] \in 0..N - 1
  <2>1. before(i) \in SUBSET places /\ i \notin before(i)
    BY DEF Total
  <2>2. IsFiniteSet(before(i)) /\ Cardinality(before(i)) <= N /\ Cardinality(before(i)) # N
    <3>. HIDE DEF before
    <3>. QED
      BY <2>1, FS_Subset
  <2>3. Cardinality(before(i)) \in Nat
    BY <2>2, FS_CardinalityType
  <2>. QED
    BY <1>1, <2>2, <2>3
<1>3. ASSUME NEW i \in places, NEW j \in places, <<i, j>> \in order
      PROVE  pos[i] < pos[j]
  <2>1. before(i) \in SUBSET before(j) /\ i \in before(j) /\ i \notin before(i)
        /\ before(j) \in SUBSET places
    BY <1>3 DEF Total
  <2>2. pos[i] = Cardinality(before(i)) /\ pos[j] = Cardinality(before(j))
    OBVIOUS
  <2>. HIDE DEF before
  <2>3. IsFiniteSet(before(j))
    BY <2>1, FS_Subset
  <2>4. /\ Cardinality(before(i)) <= Cardinality(before(j))
        /\ Cardinality(before(i)) # Cardinality(before(j))
    BY <2>1, <2>3, FS_Subset
  <2>. QED
    BY <1>1, <1>2, <2>2, <2>4
<1>. HIDE DEF pos
<1>4. pos \in Injection(places, 0..N - 1)
  <2>1. pos \in [places -> 0..N - 1]
    BY <1>2 DEF pos
  <2>2. \A i, j \in places : pos[i] = pos[j] => i = j
    <3>. SUFFICES ASSUME NEW i \in places, NEW j \in places, pos[i] = pos[j], i # j PROVE FALSE
      OBVIOUS
    <3>1. <<i, j>> \in order \/ <<j, i>> \in order
      BY DEF Total
    <3>2. pos[i] < pos[j] \/ pos[j] < pos[i]
      BY <1>3, <3>1
    <3>. QED
      BY <1>2, <3>2
  <2>. QED
    BY <2>1, <2>2 DEF Injection, IsInjective
<1>5. pos \in Surjection(places, 0..N - 1)
  BY <1>1, <1>4, FS_Injection
<1>6. listed = [n \in 1..N |-> CHOOSE i \in places : Cardinality(before(i)) = n - 1]
  BY DEF InOrder
<1>. HIDE DEF listed
<1>7. ASSUME NEW n \in 1..N
      PROVE  listed[n] \in places /\ pos[listed[n]] = n - 1
  <2>1. n - 1 \in 0..N - 1
    BY <1>1
  <2>2. PICK i \in places : pos[i] = n - 1
    BY <1>5, <2>1 DEF Surjection
  <2>3. \A j \in places : pos[j] = Cardinality(before(j))
    BY DEF pos
  <2>. HIDE DEF before
  <2>4. listed[n] = CHOOSE j \in places : Cardinality(before(j)) = n - 1
    BY <1>6
  <2>. QED
    BY <2>2, <2>3, <2>4
<1>8. listed \in Seq(places) /\ Len(listed) = N
  <2>1. DOMAIN listed = 1..N /\ listed \in [1..N -> places]
    BY <1>6, <1>7
  <2>. HIDE DEF N
  <2>. QED
    BY <1>1, <2>1
<1>9. ASSUME NEW i \in places
      PROVE  \E n \in 1..N : listed[n] = i
  <2>1. pos[i] + 1 \in 1..N /\ (pos[i] + 1) - 1 = pos[i]
    BY <1>1, <1>2
  <2>2. listed[pos[i] + 1] \in places /\ pos[listed[pos[i] + 1]] = pos[i]
    BY <1>7, <2>1
  <2>3. listed[pos[i] + 1] = i
    BY <1>4, <2>2 DEF Injection, IsInjective
  <2>. QED
    BY <2>1, <2>3
<1>10. ASSUME NEW m \in 1..N, NEW n \in 1..N, m < n
       PROVE  <<listed[m], listed[n]>> \in order
  <2>1. listed[m] \in places /\ listed[n] \in places /\ pos[listed[m]] = m - 1 /\ pos[listed[n]] = n - 1
    BY <1>7
  <2>2. listed[m] # listed[n]
    BY <1>1, <1>10, <2>1
  <2>3. ~(<<listed[n], listed[m]>> \in order)
    <3>1. ASSUME <<listed[n], listed[m]>> \in order PROVE FALSE
      <4>1. pos[listed[n]] < pos[listed[m]]
        BY <1>3, <2>1, <3>1
      <4>. QED
        BY <1>1, <1>10, <2>1, <4>1
    <3>. QED
      BY <3>1
  <2>. QED
    BY <2>1, <2>2, <2>3 DEF Total
<1>. HIDE DEF N
<1>. QED
  BY <1>8, <1>9, <1>10 DEF N, listed

\* A candidate with the numbers that are compared.
Numbered(c) == c.total \in Int /\ Correct(c) \in Int /\ Efficient(c) \in Int

LEMMA TiedWithItself ==
  ASSUME NEW a, Numbered(a)
  PROVE  Tied(a, a)
<1>1. Margin \in Nat \ {0} /\ a.total \in Int
  BY MarginAssumption DEF Numbered
<1>2. a.total - a.total \in -Margin + 1..Margin - 1
  BY <1>1
<1>. QED
  BY <1>2 DEF Tied

LEMMA TiedBothWays ==
  ASSUME NEW a, NEW b, Numbered(a), Numbered(b), Tied(a, b)
  PROVE  Tied(b, a)
<1>1. Margin \in Nat /\ a.total \in Int /\ b.total \in Int
  BY MarginAssumption DEF Numbered
<1>2. (a.total - b.total \in -Margin + 1..Margin - 1) => (b.total - a.total \in -Margin + 1..Margin - 1)
  BY <1>1
<1>3. Overlap(a, b) => Overlap(b, a)
  BY DEF Overlap
<1>. QED
  BY <1>2, <1>3 DEF Tied

LEMMA UntiedTotals ==
  ASSUME NEW a, NEW b, Numbered(a), Numbered(b), ~Tied(a, b)
  PROVE  a.total # b.total
<1>1. Margin \in Nat \ {0} /\ a.total \in Int /\ b.total \in Int
  BY MarginAssumption DEF Numbered
<1>2. a.total - b.total \notin -Margin + 1..Margin - 1
  BY DEF Tied
<1>. QED
  BY <1>1, <1>2

\* The first of a tie wins against all, if nobody tied is more correct.
LEMMA TieIsWon ==
  ASSUME NEW E, \A c \in E : Numbered(c), Divides(E),
         NEW a \in E, \A c \in E : a.total >= c.total,
         NEW w \in E, Tied(a, w), \A c \in E : Tied(a, c) => ~MoreCorrect(c, w) \/ c = w,
         NEW c \in E
  PROVE  Beats(w, c)
<1>1. Numbered(a) /\ Numbered(w) /\ Numbered(c)
  OBVIOUS
<1>2. Tied(w, a)
  BY <1>1, TiedBothWays
<1>3. CASE Tied(a, c)
  <2>1. Tied(w, c)
    BY <1>2, <1>3 DEF Divides
  <2>2. ~MoreCorrect(c, w)
    <3>1. ~MoreCorrect(w, w)
      BY <1>1 DEF MoreCorrect, Numbered
    <3>. QED
      BY <1>3, <3>1
  <2>. QED
    BY <1>1, <2>1, <2>2 DEF Beats, MoreCorrect, Numbered
<1>4. CASE ~Tied(a, c)
  <2>1. ~Tied(w, c)
    BY <1>4 DEF Divides
  <2>2. ASSUME ~(w.total > c.total) PROVE FALSE
    <3>1. c.total >= w.total
      BY <1>1, <2>2 DEF Numbered
    <3>2. a.total >= c.total
      OBVIOUS
    <3>. QED
      BY <1>4, <3>1, <3>2 DEF Divides
  <2>. QED
    BY <2>1, <2>2 DEF Beats
<1>. QED
  BY <1>3, <1>4

\* Who leads the second without being tied wins against all.
LEMMA LeadIsWon ==
  ASSUME NEW E, \A c \in E : Numbered(c), Divides(E),
         NEW a \in E, \A c \in E : a.total >= c.total,
         NEW b \in E, ~Tied(a, b), \A c \in E : c = a \/ b.total >= c.total,
         NEW c \in E
  PROVE  Beats(a, c)
<1>1. Numbered(a) /\ Numbered(b) /\ Numbered(c)
  OBVIOUS
<1>2. CASE c = a
  <2>1. Tied(a, c)
    BY <1>1, <1>2, TiedWithItself
  <2>. QED
    BY <1>1, <1>2, <2>1 DEF Beats, Numbered
<1>3. CASE c # a
  <2>1. a.total >= b.total /\ b.total >= c.total
    BY <1>3
  <2>2. ~Tied(a, c)
    BY <2>1 DEF Divides
  <2>3. a.total # c.total
    BY <1>1, <2>2, UntiedTotals
  <2>4. a.total > c.total
    BY <1>1, <2>1, <2>3 DEF Numbered
  <2>. QED
    BY <2>2, <2>4 DEF Beats
<1>. QED
  BY <1>2, <1>3

-----------------------------------------------------------------------------
(* The orders that candidates are sorted by.                               *)

\* Sorting by two numbers, the second where the first are equal, and equals left as they were.
ByTwo(S, first, second, order) ==
  {p \in S \X S :
     \/ first[p[1]] > first[p[2]]
     \/ first[p[1]] = first[p[2]] /\ second[p[1]] > second[p[2]]
     \/ first[p[1]] = first[p[2]] /\ second[p[1]] = second[p[2]] /\ p \in order}

LEMMA ByTwoIsTotal ==
  ASSUME NEW S, NEW first \in [S -> Int], NEW second \in [S -> Int], NEW order, Total(S, order)
  PROVE  Total(S, ByTwo(S, first, second, order))
<1>. DEFINE sorted == ByTwo(S, first, second, order)
<1>1. \A i, j \in S :
        <<i, j>> \in sorted <=>
          \/ first[i] > first[j]
          \/ first[i] = first[j] /\ second[i] > second[j]
          \/ first[i] = first[j] /\ second[i] = second[j] /\ <<i, j>> \in order
  BY DEF ByTwo
<1>. HIDE DEF sorted
<1>2. ASSUME NEW i \in S PROVE <<i, i>> \notin sorted
  <2>1. <<i, i>> \notin order /\ first[i] \in Int /\ second[i] \in Int
    BY DEF Total
  <2>. QED
    BY <1>1, <2>1
<1>3. ASSUME NEW i \in S, NEW j \in S, i # j
      PROVE  <<i, j>> \in sorted \/ <<j, i>> \in sorted
  <2>1. <<i, j>> \in order \/ <<j, i>> \in order
    BY <1>3 DEF Total
  <2>2. first[i] \in Int /\ first[j] \in Int /\ second[i] \in Int /\ second[j] \in Int
    OBVIOUS
  <2>. QED
    BY <1>1, <2>1, <2>2
<1>4. ASSUME NEW i \in S, NEW j \in S, NEW k \in S, <<i, j>> \in sorted, <<j, k>> \in sorted
      PROVE  <<i, k>> \in sorted
  <2>1. <<i, j>> \in order /\ <<j, k>> \in order => <<i, k>> \in order
    BY DEF Total
  <2>2. /\ first[i] \in Int /\ first[j] \in Int /\ first[k] \in Int
        /\ second[i] \in Int /\ second[j] \in Int /\ second[k] \in Int
    OBVIOUS
  <2>. QED
    BY <1>1, <1>4, <2>1, <2>2
<1>. QED
  BY <1>2, <1>3, <1>4 DEF Total, sorted

\* Candidates that can be ranked.
Ballot(candidates) ==
  /\ candidates \in Seq(Range(candidates))
  /\ \A i \in DOMAIN candidates : Numbered(candidates[i])

\* The orders of the places that the ranking goes by.
AsListed(candidates) == {p \in (DOMAIN candidates) \X (DOMAIN candidates) : p[1] < p[2]}

ByTotal(candidates) ==
  {p \in (DOMAIN candidates) \X (DOMAIN candidates) :
     \/ HigherTotal(candidates[p[1]], candidates[p[2]])
     \/ ~HigherTotal(candidates[p[2]], candidates[p[1]]) /\ p \in AsListed(candidates)}

ByCorrect(candidates) ==
  {p \in (DOMAIN candidates) \X (DOMAIN candidates) :
     \/ MoreCorrect(candidates[p[1]], candidates[p[2]])
     \/ ~MoreCorrect(candidates[p[2]], candidates[p[1]]) /\ p \in ByTotal(candidates)}

LEMMA AsListedIsTotal ==
  ASSUME NEW candidates, Ballot(candidates)
  PROVE  Total(DOMAIN candidates, AsListed(candidates))
<1>. DEFINE S == DOMAIN candidates
            listed == AsListed(candidates)
<1>1. \A i \in S : i \in Int
  BY PlacesFinite DEF Ballot
<1>2. listed = {p \in S \X S : p[1] < p[2]}
  BY DEF AsListed
<1>. HIDE DEF S, listed
<1>3. \A i, j \in S : <<i, j>> \in listed <=> i < j
  BY <1>2
<1>4. Total(S, listed)
  BY <1>1, <1>3 DEF Total
<1>. QED
  BY <1>4 DEF S, listed

LEMMA ByTotalIsTotal ==
  ASSUME NEW candidates, Ballot(candidates)
  PROVE  Total(DOMAIN candidates, ByTotal(candidates))
<1>. DEFINE S == DOMAIN candidates
            first == [i \in S |-> candidates[i].total]
            none == [i \in S |-> 0]
<1>1. first \in [S -> Int] /\ none \in [S -> Int]
  BY DEF Ballot, Numbered
<1>2. \A i, j \in S : HigherTotal(candidates[i], candidates[j]) <=> first[i] > first[j]
  BY DEF HigherTotal
<1>3. \A p \in S \X S :
        (\/ HigherTotal(candidates[p[1]], candidates[p[2]])
         \/ ~HigherTotal(candidates[p[2]], candidates[p[1]]) /\ p \in AsListed(candidates))
        <=> (\/ first[p[1]] > first[p[2]]
             \/ first[p[1]] = first[p[2]] /\ none[p[1]] > none[p[2]]
             \/ first[p[1]] = first[p[2]] /\ none[p[1]] = none[p[2]] /\ p \in AsListed(candidates))
  <2>. SUFFICES ASSUME NEW p \in S \X S
                PROVE  (\/ HigherTotal(candidates[p[1]], candidates[p[2]])
                        \/ ~HigherTotal(candidates[p[2]], candidates[p[1]]) /\ p \in AsListed(candidates))
                       <=> (\/ first[p[1]] > first[p[2]]
                            \/ first[p[1]] = first[p[2]] /\ none[p[1]] > none[p[2]]
                            \/ first[p[1]] = first[p[2]] /\ none[p[1]] = none[p[2]]
                               /\ p \in AsListed(candidates))
    OBVIOUS
  <2>1. p[1] \in S /\ p[2] \in S /\ none[p[1]] = 0 /\ none[p[2]] = 0
    OBVIOUS
  <2>2. first[p[1]] \in Int /\ first[p[2]] \in Int
    BY <1>1, <2>1
  <2>. HIDE DEF first, none
  <2>. QED
    BY <1>2, <2>1, <2>2
<1>4. ByTotal(candidates) = ByTwo(S, first, none, AsListed(candidates))
  <2>1. \A p : p \in ByTotal(candidates) <=> p \in ByTwo(S, first, none, AsListed(candidates))
    <3>. HIDE DEF first, none
    <3>. QED
      BY <1>3 DEF ByTotal, ByTwo
  <2>. HIDE DEF first, none
  <2>. QED
    BY <2>1 DEF ByTotal, ByTwo
<1>. HIDE DEF first, none
<1>. QED
  BY <1>1, <1>4, AsListedIsTotal, ByTwoIsTotal

LEMMA ByCorrectIsTotal ==
  ASSUME NEW candidates, Ballot(candidates)
  PROVE  Total(DOMAIN candidates, ByCorrect(candidates))
<1>. DEFINE S == DOMAIN candidates
            first == [i \in S |-> Correct(candidates[i])]
            second == [i \in S |-> Efficient(candidates[i])]
<1>1. first \in [S -> Int] /\ second \in [S -> Int]
  BY DEF Ballot, Numbered
<1>2. \A i, j \in S : MoreCorrect(candidates[i], candidates[j])
        <=> first[i] > first[j] \/ (first[i] = first[j] /\ second[i] > second[j])
  BY DEF MoreCorrect
<1>3. \A p \in S \X S :
        (\/ MoreCorrect(candidates[p[1]], candidates[p[2]])
         \/ ~MoreCorrect(candidates[p[2]], candidates[p[1]]) /\ p \in ByTotal(candidates))
        <=> (\/ first[p[1]] > first[p[2]]
             \/ first[p[1]] = first[p[2]] /\ second[p[1]] > second[p[2]]
             \/ first[p[1]] = first[p[2]] /\ second[p[1]] = second[p[2]] /\ p \in ByTotal(candidates))
  <2>. SUFFICES ASSUME NEW p \in S \X S
                PROVE  (\/ MoreCorrect(candidates[p[1]], candidates[p[2]])
                        \/ ~MoreCorrect(candidates[p[2]], candidates[p[1]]) /\ p \in ByTotal(candidates))
                       <=> (\/ first[p[1]] > first[p[2]]
                            \/ first[p[1]] = first[p[2]] /\ second[p[1]] > second[p[2]]
                            \/ first[p[1]] = first[p[2]] /\ second[p[1]] = second[p[2]]
                               /\ p \in ByTotal(candidates))
    OBVIOUS
  <2>1. p[1] \in S /\ p[2] \in S
    OBVIOUS
  <2>2. first[p[1]] \in Int /\ first[p[2]] \in Int /\ second[p[1]] \in Int /\ second[p[2]] \in Int
    BY <1>1, <2>1
  <2>. HIDE DEF first, second
  <2>. QED
    BY <1>2, <2>1, <2>2
<1>4. ByCorrect(candidates) = ByTwo(S, first, second, ByTotal(candidates))
  <2>1. \A p : p \in ByCorrect(candidates) <=> p \in ByTwo(S, first, second, ByTotal(candidates))
    <3>. HIDE DEF first, second
    <3>. QED
      BY <1>3 DEF ByCorrect, ByTwo
  <2>. HIDE DEF first, second
  <2>. QED
    BY <2>1 DEF ByCorrect, ByTwo
<1>. HIDE DEF first, second
<1>. QED
  BY <1>1, <1>4, ByTotalIsTotal, ByTwoIsTotal

\* The eligible places, as the ranking has them.
Leading(candidates) ==
  LET eligible == Where(candidates, Eligible)
      ordered == InOrder(eligible, ByTotal(candidates))
      top == {i \in eligible : Tied(candidates[ordered[1]], candidates[i])}
  IN IF Len(ordered) >= 2 /\ Tied(candidates[ordered[1]], candidates[ordered[2]])
     THEN InOrder(top, ByCorrect(candidates)) \o InOrder(eligible \ top, ByTotal(candidates))
     ELSE ordered

\* scoring.py:269
LEMMA RankIs ==
  ASSUME NEW candidates
  PROVE  LET eligible == Where(candidates, Eligible)
             ranked == Leading(candidates)
                         \o InOrder((DOMAIN candidates) \ eligible, AsListed(candidates))
         IN Rank(candidates) = [n \in DOMAIN ranked |-> candidates[ranked[n]]]
BY DEF Rank, Leading, ByTotal, ByCorrect, AsListed, Where

\* Each eligible place is listed, whether or not a tie was decided.
LEMMA LeadingLists ==
  ASSUME NEW candidates, Ballot(candidates)
  PROVE  LET eligible == Where(candidates, Eligible)
             leading == Leading(candidates)
         IN /\ leading \in Seq(eligible)
            /\ \A i \in eligible : \E n \in 1..Len(leading) : leading[n] = i
<1>. DEFINE places == DOMAIN candidates
            eligible == {i \in places : Eligible(candidates[i])}
            order == ByTotal(candidates)
            ordered == InOrder(eligible, order)
            top == {i \in eligible : Tied(candidates[ordered[1]], candidates[i])}
            first == InOrder(top, ByCorrect(candidates))
            rest == InOrder(eligible \ top, order)
            leading == Leading(candidates)
            Lists(seq, S) == seq \in Seq(S) /\ \A i \in S : \E n \in 1..Len(seq) : seq[n] = i
<1>1. IsFiniteSet(places)
  BY PlacesFinite DEF Ballot
<1>2. Total(places, order) /\ Total(places, ByCorrect(candidates))
  BY ByTotalIsTotal, ByCorrectIsTotal
<1>3. Where(candidates, Eligible) = eligible
  BY DEF Where
<1>4. leading = ordered \/ leading = first \o rest
  BY DEF Leading, Where
<1>5. eligible \in SUBSET places /\ top \in SUBSET eligible
  OBVIOUS
<1>. HIDE DEF places, eligible, order, ordered, top, first, rest, leading
<1>6. IsFiniteSet(eligible) /\ IsFiniteSet(top) /\ IsFiniteSet(eligible \ top)
  BY <1>1, <1>5, FS_Subset
<1>7. Total(eligible, order) /\ Total(eligible \ top, order) /\ Total(top, ByCorrect(candidates))
  BY <1>2, <1>5, TotalOfFewer
<1>8. Lists(ordered, eligible)
  BY <1>6, <1>7, InOrderLists DEF ordered
<1>9. Lists(first, top)
  BY <1>6, <1>7, InOrderLists DEF first
<1>10. Lists(rest, eligible \ top)
  BY <1>6, <1>7, InOrderLists DEF rest
<1>11. Lists(first \o rest, eligible)
  <2>1. first \in Seq(eligible) /\ rest \in Seq(eligible)
    BY <1>5, <1>9, <1>10
  <2>2. first \o rest \in Seq(eligible) /\ Len(first \o rest) = Len(first) + Len(rest)
    BY <2>1
  <2>3. ASSUME NEW i \in eligible
        PROVE  \E n \in 1..Len(first \o rest) : (first \o rest)[n] = i
    <3>1. CASE i \in top
      <4>1. PICK n \in 1..Len(first) : first[n] = i
        BY <1>9, <3>1
      <4>2. n \in 1..Len(first \o rest) /\ (first \o rest)[n] = i
        BY <2>1, <2>2, <4>1
      <4>. QED
        BY <4>2
    <3>2. CASE i \notin top
      <4>1. PICK n \in 1..Len(rest) : rest[n] = i
        BY <1>10, <3>2
      <4>2. Len(first) + n \in 1..Len(first \o rest) /\ (first \o rest)[Len(first) + n] = i
        BY <2>1, <2>2, <4>1
      <4>. QED
        BY <4>2
    <3>. QED
      BY <3>1, <3>2
  <2>. QED
    BY <2>2, <2>3
<1>. QED
  BY <1>3, <1>4, <1>8, <1>11 DEF leading

\* Who leads, if being tied divides the eligible, beats each of them.
LEMMA LeaderBeatsAll ==
  ASSUME NEW candidates, Ballot(candidates), NEW E,
         E = {candidates[i] : i \in Where(candidates, Eligible)}, Divides(E),
         NEW c \in E
  PROVE  LET leading == Leading(candidates)
         IN Len(leading) >= 1 /\ Beats(candidates[leading[1]], c)
<1>. DEFINE places == DOMAIN candidates
            eligible == {i \in places : Eligible(candidates[i])}
            order == ByTotal(candidates)
            ordered == InOrder(eligible, order)
            top == {i \in eligible : Tied(candidates[ordered[1]], candidates[i])}
            first == InOrder(top, ByCorrect(candidates))
            rest == InOrder(eligible \ top, order)
            leading == Leading(candidates)
            close == Len(ordered) >= 2 /\ Tied(candidates[ordered[1]], candidates[ordered[2]])
            N == Cardinality(eligible)
            a == candidates[ordered[1]]
<1>1. IsFiniteSet(places)
  BY PlacesFinite DEF Ballot
<1>2. Total(places, order) /\ Total(places, ByCorrect(candidates))
  BY ByTotalIsTotal, ByCorrectIsTotal
<1>3. E = {candidates[i] : i \in eligible}
  BY DEF Where
<1>4. leading = IF close THEN first \o rest ELSE ordered
  BY DEF Leading, Where
<1>5. /\ eligible \in SUBSET places /\ top \in SUBSET eligible
      /\ \A i \in eligible : Numbered(candidates[i])
      /\ \A i \in eligible : i \in top <=> Tied(a, candidates[i])
      /\ \A i, j \in eligible :
           <<i, j>> \in order => candidates[i].total >= candidates[j].total
  <2>1. \A i \in places : Numbered(candidates[i])
    BY DEF Ballot
  <2>2. ASSUME NEW i \in eligible, NEW j \in eligible, <<i, j>> \in order
        PROVE  candidates[i].total >= candidates[j].total
    BY <2>1, <2>2 DEF ByTotal, HigherTotal, Numbered
  <2>. QED
    BY <2>1, <2>2
<1>6. \A i, j \in eligible :
        <<i, j>> \in ByCorrect(candidates) => ~MoreCorrect(candidates[j], candidates[i])
  <2>. SUFFICES ASSUME NEW i \in eligible, NEW j \in eligible, <<i, j>> \in ByCorrect(candidates),
                       MoreCorrect(candidates[j], candidates[i])
                PROVE  FALSE
    OBVIOUS
  <2>1. MoreCorrect(candidates[i], candidates[j])
    BY DEF ByCorrect
  <2>2. Numbered(candidates[i]) /\ Numbered(candidates[j])
    BY <1>5
  <2>. QED
    BY <2>1, <2>2 DEF MoreCorrect, Numbered
<1>. HIDE DEF places, eligible, order, top, first, rest, leading, ordered
<1>7. IsFiniteSet(eligible) /\ IsFiniteSet(top) /\ IsFiniteSet(eligible \ top) /\ N \in Nat
  BY <1>1, <1>5, FS_Subset, FS_CardinalityType
<1>8. Total(eligible, order) /\ Total(eligible \ top, order) /\ Total(top, ByCorrect(candidates))
  BY <1>2, <1>5, TotalOfFewer
<1>9. /\ ordered \in Seq(eligible) /\ Len(ordered) = N
      /\ \A i \in eligible : \E n \in 1..Len(ordered) : ordered[n] = i
      /\ \A m, n \in 1..Len(ordered) : m < n => <<ordered[m], ordered[n]>> \in order
  BY <1>7, <1>8, InOrderLists DEF ordered
<1>10. /\ first \in Seq(top)
       /\ \A i \in top : \E n \in 1..Len(first) : first[n] = i
       /\ \A m, n \in 1..Len(first) : m < n => <<first[m], first[n]>> \in ByCorrect(candidates)
  BY <1>7, <1>8, InOrderLists DEF first
<1>11. rest \in Seq(eligible \ top)
  BY <1>7, <1>8, InOrderLists DEF rest
<1>12. \A e \in E : Numbered(e)
  BY <1>3, <1>5
<1>13. Len(ordered) >= 1 /\ ordered[1] \in eligible /\ a \in E /\ Numbered(a)
  <2>1. PICK i \in eligible : c = candidates[i]
    BY <1>3
  <2>2. PICK n \in 1..Len(ordered) : ordered[n] = i
    BY <1>9
  <2>3. Len(ordered) >= 1 /\ ordered[1] \in eligible
    BY <1>9, <2>2
  <2>. QED
    BY <1>3, <1>12, <2>3
<1>14. ASSUME NEW m \in 1..Len(ordered), NEW n \in 1..Len(ordered), m <= n
       PROVE  candidates[ordered[m]].total >= candidates[ordered[n]].total
  <2>1. ordered[m] \in eligible /\ ordered[n] \in eligible
    BY <1>9
  <2>2. Numbered(candidates[ordered[m]])
    BY <1>5, <2>1
  <2>3. CASE m = n
    BY <2>2, <2>3 DEF Numbered
  <2>4. CASE m # n
    <3>1. m < n
      BY <1>7, <1>9, <1>14, <2>4
    <3>2. <<ordered[m], ordered[n]>> \in order
      BY <1>9, <3>1
    <3>. QED
      BY <1>5, <2>1, <3>2
  <2>. QED
    BY <2>3, <2>4
<1>15. \A e \in E : \E n \in 1..Len(ordered) : e = candidates[ordered[n]]
  <2>. SUFFICES ASSUME NEW e \in E PROVE \E n \in 1..Len(ordered) : e = candidates[ordered[n]]
    OBVIOUS
  <2>1. PICK i \in eligible : e = candidates[i]
    BY <1>3
  <2>2. PICK n \in 1..Len(ordered) : ordered[n] = i
    BY <1>9
  <2>. QED
    BY <2>1, <2>2
<1>16. \A e \in E : a.total >= e.total
  <2>. SUFFICES ASSUME NEW e \in E PROVE a.total >= e.total
    OBVIOUS
  <2>1. PICK n \in 1..Len(ordered) : e = candidates[ordered[n]]
    BY <1>15
  <2>2. 1 \in 1..Len(ordered) /\ 1 <= n
    BY <1>13
  <2>. QED
    BY <1>14, <2>1, <2>2
<1>17. CASE close
  <2>. DEFINE w == candidates[first[1]]
  <2>1. Tied(a, a)
    BY <1>13, TiedWithItself
  <2>2. ordered[1] \in top
    BY <1>5, <1>13, <2>1
  <2>3. Len(first) >= 1 /\ first[1] \in top
    <3>1. PICK n \in 1..Len(first) : first[n] = ordered[1]
      BY <1>10, <2>2
    <3>. QED
      BY <1>10, <3>1
  <2>4. w \in E /\ Tied(a, w)
    BY <1>3, <1>5, <2>3
  <2>5. ASSUME NEW e \in E, Tied(a, e), e # w
        PROVE  ~MoreCorrect(e, w)
    <3>1. PICK i \in eligible : e = candidates[i]
      BY <1>3
    <3>2. i \in top
      BY <1>5, <2>5, <3>1
    <3>3. PICK n \in 1..Len(first) : first[n] = i
      BY <1>10, <3>2
    <3>4. n # 1
      BY <2>5, <3>1, <3>3
    <3>5. <<first[1], i>> \in ByCorrect(candidates)
      <4>1. 1 \in 1..Len(first) /\ 1 < n
        BY <2>3, <3>4
      <4>. QED
        BY <1>10, <3>3, <4>1
    <3>6. first[1] \in eligible
      BY <1>5, <2>3
    <3>. QED
      BY <1>6, <3>1, <3>5, <3>6
  <2>. HIDE DEF w, a
  <2>6. Beats(w, c)
    BY <1>12, <1>13, <1>16, <2>4, <2>5, TieIsWon
  <2>7. leading = first \o rest
    BY <1>4, <1>17
  <2>8. first \in Seq(eligible) /\ rest \in Seq(eligible)
    BY <1>5, <1>10, <1>11
  <2>9. Len(leading) >= 1 /\ leading[1] = first[1]
    BY <2>3, <2>7, <2>8
  <2>. QED
    BY <2>6, <2>9 DEF w, leading
<1>18. CASE ~close
  <2>1. leading = ordered
    BY <1>4, <1>18
  <2>2. CASE Len(ordered) = 1
    <3>1. PICK n \in 1..Len(ordered) : c = candidates[ordered[n]]
      BY <1>15
    <3>2. c = a
      BY <2>2, <3>1
    <3>3. Tied(a, c)
      BY <1>13, <3>2, TiedWithItself
    <3>4. Beats(a, c)
      BY <1>13, <3>2, <3>3 DEF Beats, Numbered
    <3>. QED
      BY <1>13, <2>1, <3>4 DEF leading
  <2>3. CASE Len(ordered) # 1
    <3>. DEFINE b == candidates[ordered[2]]
    <3>1. Len(ordered) \in Nat /\ Len(ordered) >= 2 /\ 2 \in 1..Len(ordered)
      BY <1>7, <1>9, <1>13, <2>3
    <3>2. b \in E /\ ~Tied(a, b)
      <4>1. ordered[2] \in eligible
        BY <1>9, <3>1
      <4>2. b \in E
        BY <1>3, <4>1
      <4>3. ~Tied(a, b)
        BY <1>18, <3>1
      <4>. QED
        BY <4>2, <4>3
    <3>3. ASSUME NEW e \in E, e # a
          PROVE  b.total >= e.total
      <4>1. PICK n \in 1..Len(ordered) : e = candidates[ordered[n]]
        BY <1>15
      <4>2. n # 1
        BY <3>3, <4>1
      <4>3. 2 <= n
        BY <4>2
      <4>. QED
        BY <1>14, <3>1, <4>1, <4>3
    <3>. HIDE DEF a, b
    <3>4. Beats(a, c)
      BY <1>12, <1>13, <1>16, <3>2, <3>3, LeadIsWon
    <3>. QED
      BY <1>13, <2>1, <3>4 DEF a, leading
  <2>. QED
    BY <2>2, <2>3
<1>. QED
  BY <1>17, <1>18

\* The ranking is of the same candidates, the eligible first, and led by one that beats them.
LEMMA RankGives ==
  ASSUME NEW candidates, Ballot(candidates), NEW seq, seq = Rank(candidates)
  PROVE  /\ ToSet(seq) = ToSet(candidates)
         /\ \A i, j \in DOMAIN seq : i < j /\ Eligible(seq[j]) => Eligible(seq[i])
         /\ LET eligible == {c \in ToSet(seq) : Eligible(c)} IN
              eligible # {} /\ Divides(eligible) => \A c \in eligible : Beats(seq[1], c)
<1>. DEFINE places == DOMAIN candidates
            eligible == {i \in places : Eligible(candidates[i])}
            leading == Leading(candidates)
            rest == InOrder(places \ eligible, AsListed(candidates))
            ranked == leading \o rest
            E == {c \in ToSet(seq) : Eligible(c)}
<1>1. /\ places \in SUBSET Nat /\ IsFiniteSet(places \ eligible)
      /\ Total(places \ eligible, AsListed(candidates))
  <2>1. places \in SUBSET Nat /\ IsFiniteSet(places)
    BY PlacesFinite DEF Ballot
  <2>2. (places \ eligible) \in SUBSET places
    OBVIOUS
  <2>. HIDE DEF eligible
  <2>3. IsFiniteSet(places \ eligible)
    BY <2>1, <2>2, FS_Subset
  <2>4. Total(places \ eligible, AsListed(candidates))
    BY <2>2, AsListedIsTotal, TotalOfFewer
  <2>. QED
    BY <2>1, <2>3, <2>4
<1>2. Where(candidates, Eligible) = eligible
  BY DEF Where
<1>3. leading \in Seq(eligible) /\ \A i \in eligible : \E n \in 1..Len(leading) : leading[n] = i
  BY <1>2, LeadingLists
<1>4. rest \in Seq(places \ eligible)
      /\ \A i \in places \ eligible : \E n \in 1..Len(rest) : rest[n] = i
  <2>. HIDE DEF eligible, places
  <2>. QED
    BY <1>1, InOrderLists
<1>5. seq = [n \in DOMAIN ranked |-> candidates[ranked[n]]]
  <2>1. LET e == Where(candidates, Eligible)
            r == Leading(candidates) \o InOrder((DOMAIN candidates) \ e, AsListed(candidates))
        IN Rank(candidates) = [n \in DOMAIN r |-> candidates[r[n]]]
    BY RankIs
  <2>. QED
    BY <1>2, <2>1
<1>6. /\ \A i \in eligible : i \in places /\ Eligible(candidates[i])
      /\ \A i \in places : i \in eligible <=> Eligible(candidates[i])
  OBVIOUS
<1>. HIDE DEF places, eligible, leading, rest
<1>7. /\ ranked \in Seq(places) /\ Len(ranked) = Len(leading) + Len(rest)
      /\ Len(leading) \in Nat /\ Len(rest) \in Nat /\ DOMAIN ranked = 1..Len(leading) + Len(rest)
      /\ \A n \in 1..Len(leading) : ranked[n] = leading[n] /\ leading[n] \in eligible
      /\ \A n \in 1..Len(rest) : ranked[Len(leading) + n] = rest[n] /\ rest[n] \in places \ eligible
  <2>1. leading \in Seq(places) /\ rest \in Seq(places)
    BY <1>3, <1>4, <1>6
  <2>2. /\ ranked \in Seq(places) /\ Len(ranked) = Len(leading) + Len(rest)
        /\ Len(leading) \in Nat /\ Len(rest) \in Nat /\ DOMAIN ranked = 1..Len(leading) + Len(rest)
    BY <2>1
  <2>3. \A n \in 1..Len(leading) : ranked[n] = leading[n] /\ leading[n] \in eligible
    BY <1>3, <2>1
  <2>4. \A n \in 1..Len(rest) : ranked[Len(leading) + n] = rest[n] /\ rest[n] \in places \ eligible
    BY <1>4, <2>1
  <2>. QED
    BY <2>2, <2>3, <2>4
<1>. HIDE DEF ranked
<1>8. DOMAIN seq = DOMAIN ranked /\ \A n \in DOMAIN ranked : seq[n] = candidates[ranked[n]]
  BY <1>5
<1>9. \A i \in places : \E n \in DOMAIN ranked : ranked[n] = i
  <2>. SUFFICES ASSUME NEW i \in places PROVE \E n \in DOMAIN ranked : ranked[n] = i
    OBVIOUS
  <2>1. CASE i \in eligible
    <3>1. PICK n \in 1..Len(leading) : leading[n] = i
      BY <1>3, <2>1
    <3>2. n \in DOMAIN ranked /\ ranked[n] = i
      BY <1>7, <3>1
    <3>. QED
      BY <3>2
  <2>2. CASE i \notin eligible
    <3>1. PICK n \in 1..Len(rest) : rest[n] = i
      BY <1>4, <2>2
    <3>2. Len(leading) + n \in DOMAIN ranked /\ ranked[Len(leading) + n] = i
      BY <1>7, <3>1
    <3>. QED
      BY <3>2
  <2>. QED
    BY <2>1, <2>2
<1>10. \A n \in DOMAIN ranked : ranked[n] \in places
  BY <1>7
<1>11. ToSet(seq) = ToSet(candidates)
  <2>1. ToSet(seq) = {seq[n] : n \in DOMAIN seq} /\ ToSet(candidates) = {candidates[i] : i \in places}
    BY DEF ToSet, places
  <2>. QED
    BY <1>8, <1>9, <1>10, <2>1
<1>12. \A n \in DOMAIN ranked : Eligible(seq[n]) <=> n <= Len(leading)
  <2>. SUFFICES ASSUME NEW n \in DOMAIN ranked PROVE Eligible(seq[n]) <=> n <= Len(leading)
    OBVIOUS
  <2>1. CASE n <= Len(leading)
    BY <1>6, <1>7, <1>8, <2>1
  <2>2. CASE ~(n <= Len(leading))
    <3>1. n - Len(leading) \in 1..Len(rest) /\ Len(leading) + (n - Len(leading)) = n
      BY <1>7, <2>2
    <3>2. ranked[n] \in places \ eligible
      BY <1>7, <3>1
    <3>3. ~Eligible(seq[n])
      BY <1>6, <1>8, <3>2
    <3>. QED
      BY <2>2, <3>3
  <2>. QED
    BY <2>1, <2>2
<1>13. ASSUME NEW i \in DOMAIN seq, NEW j \in DOMAIN seq, i < j, Eligible(seq[j])
       PROVE  Eligible(seq[i])
  <2>1. i \in DOMAIN ranked /\ j \in DOMAIN ranked /\ i \in Int /\ j \in Int
    BY <1>7, <1>8
  <2>. QED
    BY <1>7, <1>12, <1>13, <2>1
<1>14. ASSUME Divides(E), NEW c \in E
       PROVE  Beats(seq[1], c)
  <2>1. E = {candidates[i] : i \in Where(candidates, Eligible)}
    <3>1. ToSet(candidates) = {candidates[i] : i \in places}
      BY DEF ToSet, places
    <3>2. eligible \in SUBSET places
      BY <1>6
    <3>3. E = {candidates[i] : i \in eligible}
      BY <1>6, <1>11, <3>1, <3>2
    <3>. QED
      BY <1>2, <3>3
  <2>. HIDE DEF E
  <2>2. Len(leading) >= 1 /\ Beats(candidates[leading[1]], c)
    BY <1>14, <2>1, LeaderBeatsAll DEF leading
  <2>3. seq[1] = candidates[leading[1]]
    BY <1>7, <1>8, <2>2
  <2>. QED
    BY <2>2, <2>3
<1>. QED
  BY <1>11, <1>13, <1>14

\* Only the last step ranks, so no report is written after it.
Ranked == Scored /\ RankIsTheRule

\* The report, and the boards it may join, can be ranked.
LEMMA BallotOf ==
  ASSUME Scored, reported # Unset, NEW others \in Boards[run.role]
  PROVE  Ballot(Append(others, reported)) /\ reported \in ToSet(Append(others, reported))
<1>. DEFINE candidates == Append(others, reported)
<1>1. run.role \in DOMAIN Weights /\ reported.role = run.role /\ FactorsInRange
  BY RunsAssumption DEF Scored
<1>2. /\ others \in Seq(Range(others))
      /\ \A c \in Range(others) : c.total \in Int /\ Correct(c) \in Int /\ Efficient(c) \in Int
  BY <1>1, BoardsAssumption
<1>3. Numbered(reported)
  <2>1. Unit \in Nat
    BY UnitAssumption
  <2>2. \A name \in DOMAIN Weights[run.role] : reported.factors[name] \in 0..Unit
    BY <1>1 DEF FactorsInRange
  <2>3. run.role \in {"sql_generator", "sql_repair", "synthesizer"}
    BY <1>1 DEF Weights
  <2>4. {Correctness[run.role], "latency", "quota_headroom"} \in SUBSET DOMAIN Weights[run.role]
    <3>1. CASE run.role = "sql_generator"
      BY <3>1 DEF Weights, Correctness
    <3>2. CASE run.role = "sql_repair"
      BY <3>2 DEF Weights, Correctness
    <3>3. CASE run.role = "synthesizer"
      BY <3>3 DEF Weights, Correctness
    <3>. QED
      BY <2>3, <3>1, <3>2, <3>3
  <2>5. /\ reported.factors[Correctness[run.role]] \in 0..Unit
        /\ reported.factors["latency"] \in 0..Unit /\ reported.factors["quota_headroom"] \in 0..Unit
    BY <2>2, <2>4
  <2>6. Correct(reported) \in Int
    BY <1>1, <2>1, <2>5 DEF Correct
  <2>7. Efficient(reported) \in Int
    BY <2>1, <2>5 DEF Efficient
  <2>8. reported.total \in Int
    BY <1>1, <2>1 DEF FactorsInRange
  <2>. QED
    BY <2>6, <2>7, <2>8 DEF Numbered
<1>. DEFINE all == Range(others) \cup {reported}
<1>4. \A c \in all : Numbered(c)
  BY <1>2, <1>3 DEF Numbered
<1>5. others \in Seq(all) /\ reported \in all
  BY <1>2
<1>. HIDE DEF all
<1>6. /\ candidates \in Seq(all) /\ Len(candidates) = Len(others) + 1 /\ Len(others) \in Nat
      /\ candidates[Len(others) + 1] = reported
  BY <1>5
<1>. HIDE DEF candidates
<1>7. DOMAIN candidates = 1..Len(others) + 1 /\ \A i \in DOMAIN candidates : candidates[i] \in all
  BY <1>6
<1>8. candidates \in Seq(Range(candidates))
  <2>1. \A i \in DOMAIN candidates : candidates[i] \in Range(candidates)
    BY DEF Range
  <2>2. DOMAIN candidates = 1..Len(candidates)
    BY <1>6
  <2>. QED
    BY <1>6, <2>1, <2>2
<1>9. reported \in ToSet(candidates)
  <2>1. Len(others) + 1 \in DOMAIN candidates
    BY <1>6, <1>7
  <2>. QED
    BY <1>6, <2>1 DEF ToSet
<1>. QED
  BY <1>4, <1>7, <1>8, <1>9 DEF Ballot, candidates

LEMMA RankedHolds == Ranked /\ [SelNext]_selvars => Ranked'
<1>. SUFFICES ASSUME Ranked, [SelNext]_selvars PROVE Ranked'
  OBVIOUS
<1>1. Scored /\ Scored' /\ RankIsTheRule
  BY ScoredHolds DEF Ranked
<1>2. CASE RankReported
  <2>1. reported # Unset /\ reported' = reported
    BY <1>2 DEF RankReported
  <2>2. PICK others \in Boards[run.role] : ranking' = Rank(Append(others, reported))
    BY <1>2 DEF RankReported
  <2>. DEFINE candidates == Append(others, reported)
  <2>3. Ballot(candidates) /\ reported \in ToSet(candidates)
    BY <1>1, <2>1, BallotOf
  <2>4. ranking' = Rank(candidates)
    BY <2>2
  <2>. HIDE DEF candidates
  <2>5. /\ ToSet(ranking') = ToSet(candidates)
        /\ \A i, j \in DOMAIN ranking' : i < j /\ Eligible(ranking'[j]) => Eligible(ranking'[i])
        /\ LET eligible == {c \in ToSet(ranking') : Eligible(c)} IN
             eligible # {} /\ Divides(eligible) => \A c \in eligible : Beats(ranking'[1], c)
    BY <2>3, <2>4, RankGives
  <2>6. RankIsTheRule'
    BY <2>1, <2>3, <2>5 DEF RankIsTheRule
  <2>. QED
    BY <1>1, <2>6 DEF Ranked
<1>3. CASE WriteReport
  <2>1. ranking = <<>> /\ ranking' = ranking
    BY <1>3 DEF WriteReport
  <2>2. RankIsTheRule'
    BY <2>1 DEF RankIsTheRule
  <2>. QED
    BY <1>1, <2>2 DEF Ranked
<1>4. CASE UNCHANGED <<reported, ranking>>
  <2>1. RankIsTheRule'
    BY <1>1, <1>4 DEF RankIsTheRule
  <2>. QED
    BY <1>1, <2>1 DEF Ranked
<1>. QED
  BY <1>2, <1>3, <1>4
     DEF SelNext, NextDay, TakeSnapshot, Begin, AnswerRecorded, CallFails, SelOver, selvars

\* MODEL_SELECTION.md:69, scoring.py:269-279: for any boards and reports, of any length: the
\* eligible are ranked first, and where being tied divides them into classes, the one that is
\* ranked first beats each of them by the rule.
THEOREM RankingIsTheRule == SelSpec => []RankIsTheRule
<1>1. SelInit => Ranked
  BY RunsAssumption DEF SelInit, Scored, FactorsInRange, Ranked, RankIsTheRule
<1>2. Ranked => RankIsTheRule
  BY DEF Ranked
<1>. QED
  BY <1>1, <1>2, RankedHolds, PTL DEF SelSpec
=============================================================================
