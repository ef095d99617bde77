----------------------------- MODULE ChatProofs -----------------------------
(***************************************************************************)
(* Proofs about the session store (ChatSessions) and the page in front of  *)
(* it (ChatPage) for any number of requests, sessions and pages, any       *)
(* capacity and any length of history.                                     *)
(***************************************************************************)
EXTENDS ChatPage, FiniteSetTheorems, TLAPS

-----------------------------------------------------------------------------
(* The slice [-max_turns:] of a list. *)

\* It has the last MaxTurns of the list's turns, or all of them.
LEMMA SliceIs ==
  ASSUME NEW seq \in Seq(Requests)
  PROVE  /\ LastTurns(seq) \in Seq(Requests) /\ Len(LastTurns(seq)) \in Nat
         /\ Len(seq) > MaxTurns => Len(LastTurns(seq)) = MaxTurns
         /\ Len(seq) <= MaxTurns => Len(LastTurns(seq)) = Len(seq)
         /\ \A i \in 1..Len(LastTurns(seq)) :
              LastTurns(seq)[i] = seq[Len(seq) - Len(LastTurns(seq)) + i]
<1>1. CASE Len(seq) > MaxTurns
  <2>. DEFINE m == 1 + (Len(seq) - MaxTurns)
  <2>1. LastTurns(seq) = SubSeq(seq, m, Len(seq))
    BY <1>1 DEF LastTurns
  <2>2. m \in 1..Len(seq) /\ Len(seq) - m + 1 = MaxTurns
    BY <1>1, SizesAssumption
  <2>. HIDE DEF m
  <2>3. /\ SubSeq(seq, m, Len(seq)) \in Seq(Requests)
        /\ Len(SubSeq(seq, m, Len(seq))) = MaxTurns
        /\ \A i \in 1..MaxTurns : SubSeq(seq, m, Len(seq))[i] = seq[m + i - 1]
    BY <2>2
  <2>4. \A i \in 1..MaxTurns : m + i - 1 = Len(seq) - MaxTurns + i
    BY SizesAssumption DEF m
  <2>. QED BY <1>1, <2>1, <2>3, <2>4, SizesAssumption
<1>2. CASE Len(seq) <= MaxTurns
  <2>1. ~ Len(seq) > MaxTurns /\ 1 + 0 = 1
    BY <1>2, SizesAssumption
  <2>2. LastTurns(seq) = SubSeq(seq, 1, Len(seq))
    BY <2>1 DEF LastTurns
  <2>3. SubSeq(seq, 1, Len(seq)) = seq
    OBVIOUS
  <2>4. \A i \in 1..Len(seq) : Len(seq) - Len(seq) + i = i
    OBVIOUS
  <2>5. LastTurns(seq) = seq
    BY <2>2, <2>3
  <2>. QED BY <2>1, <2>4, <2>5
<1>. QED BY <1>1, <1>2, SizesAssumption

\* It is a list of at most MaxTurns turns, empty only when the list is.
LEMMA LastTurnsIsTurns ==
  ASSUME NEW seq \in Seq(Requests)
  PROVE  /\ LastTurns(seq) \in Turns /\ LastTurns(seq) \in Seq(Requests)
         /\ LastTurns(seq) = <<>> <=> seq = <<>>
<1>. DEFINE short == LastTurns(seq)
<1>1. /\ short \in Seq(Requests) /\ Len(short) \in Nat
      /\ Len(seq) > MaxTurns => Len(short) = MaxTurns
      /\ Len(seq) <= MaxTurns => Len(short) = Len(seq)
  BY SliceIs
<1>. HIDE DEF short
<1>2. Len(short) \in 0..MaxTurns /\ (Len(short) = 0 <=> Len(seq) = 0)
  BY <1>1, SizesAssumption
<1>3. short \in [1..Len(short) -> Requests]
  BY <1>1
<1>4. short \in Turns
  BY <1>2, <1>3 DEF Turns
<1>5. short = <<>> <=> seq = <<>>
  BY <1>1, <1>2
<1>. QED BY <1>1, <1>4, <1>5 DEF short

\* No turns: no slice.
LEMMA EmptySlice ==
  <<>> \in Seq(Requests) /\ <<>> \in Turns /\ LastTurns(<<>>) = <<>>
<1>1. <<>> \in Seq(Requests)
  OBVIOUS
<1>2. LastTurns(<<>>) = <<>> /\ LastTurns(<<>>) \in Turns
  BY <1>1, LastTurnsIsTurns
<1>. QED BY <1>1, <1>2

\* Slicing after every append, or once after them all, keeps the same turns.
LEMMA SliceOfSlice ==
  ASSUME NEW seq \in Seq(Requests), NEW r \in Requests
  PROVE  LastTurns(Append(LastTurns(seq), r)) = LastTurns(Append(seq, r))
<1>. DEFINE short == LastTurns(seq)
            left == LastTurns(Append(short, r))
            right == LastTurns(Append(seq, r))
<1>1. /\ short \in Seq(Requests) /\ Len(short) \in Nat
      /\ Len(seq) > MaxTurns => Len(short) = MaxTurns
      /\ Len(seq) <= MaxTurns => Len(short) = Len(seq)
      /\ \A i \in 1..Len(short) : short[i] = seq[Len(seq) - Len(short) + i]
  BY SliceIs
<1>. HIDE DEF short
<1>2. /\ Append(short, r) \in Seq(Requests) /\ Len(Append(short, r)) = Len(short) + 1
      /\ \A i \in 1..Len(short) : Append(short, r)[i] = short[i]
      /\ Append(short, r)[Len(short) + 1] = r
  BY <1>1
<1>3. /\ Append(seq, r) \in Seq(Requests) /\ Len(Append(seq, r)) = Len(seq) + 1
      /\ \A i \in 1..Len(seq) : Append(seq, r)[i] = seq[i]
      /\ Append(seq, r)[Len(seq) + 1] = r
      /\ Len(seq) \in Nat
  OBVIOUS
<1>4. /\ left \in Seq(Requests) /\ Len(left) \in Nat
      /\ Len(short) + 1 > MaxTurns => Len(left) = MaxTurns
      /\ Len(short) + 1 <= MaxTurns => Len(left) = Len(short) + 1
      /\ \A i \in 1..Len(left) : left[i] = Append(short, r)[Len(short) + 1 - Len(left) + i]
  <2>. DEFINE longer == Append(short, r)
  <2>1. longer \in Seq(Requests) /\ Len(longer) = Len(short) + 1
    BY <1>2
  <2>. HIDE DEF longer
  <2>2. /\ LastTurns(longer) \in Seq(Requests) /\ Len(LastTurns(longer)) \in Nat
        /\ Len(longer) > MaxTurns => Len(LastTurns(longer)) = MaxTurns
        /\ Len(longer) <= MaxTurns => Len(LastTurns(longer)) = Len(longer)
        /\ \A i \in 1..Len(LastTurns(longer)) :
             LastTurns(longer)[i] = longer[Len(longer) - Len(LastTurns(longer)) + i]
    BY <2>1, SliceIs
  <2>3. /\ LastTurns(longer) \in Seq(Requests) /\ Len(LastTurns(longer)) \in Nat
        /\ Len(short) + 1 > MaxTurns => Len(LastTurns(longer)) = MaxTurns
        /\ Len(short) + 1 <= MaxTurns => Len(LastTurns(longer)) = Len(short) + 1
        /\ \A i \in 1..Len(LastTurns(longer)) :
             LastTurns(longer)[i] = longer[Len(short) + 1 - Len(LastTurns(longer)) + i]
    BY <2>1, <2>2
  <2>. QED BY <2>3 DEF longer
<1>5. /\ right \in Seq(Requests) /\ Len(right) \in Nat
      /\ Len(seq) + 1 > MaxTurns => Len(right) = MaxTurns
      /\ Len(seq) + 1 <= MaxTurns => Len(right) = Len(seq) + 1
      /\ \A i \in 1..Len(right) : right[i] = Append(seq, r)[Len(seq) + 1 - Len(right) + i]
  <2>. DEFINE longer == Append(seq, r)
  <2>1. longer \in Seq(Requests) /\ Len(longer) = Len(seq) + 1
    BY <1>3
  <2>. HIDE DEF longer
  <2>2. /\ LastTurns(longer) \in Seq(Requests) /\ Len(LastTurns(longer)) \in Nat
        /\ Len(longer) > MaxTurns => Len(LastTurns(longer)) = MaxTurns
        /\ Len(longer) <= MaxTurns => Len(LastTurns(longer)) = Len(longer)
        /\ \A i \in 1..Len(LastTurns(longer)) :
             LastTurns(longer)[i] = longer[Len(longer) - Len(LastTurns(longer)) + i]
    BY <2>1, SliceIs
  <2>3. /\ LastTurns(longer) \in Seq(Requests) /\ Len(LastTurns(longer)) \in Nat
        /\ Len(seq) + 1 > MaxTurns => Len(LastTurns(longer)) = MaxTurns
        /\ Len(seq) + 1 <= MaxTurns => Len(LastTurns(longer)) = Len(seq) + 1
        /\ \A i \in 1..Len(LastTurns(longer)) :
             LastTurns(longer)[i] = longer[Len(seq) + 1 - Len(LastTurns(longer)) + i]
    BY <2>1, <2>2
  <2>. QED BY <2>3 DEF longer
<1>. HIDE DEF left, right
<1>6. /\ Len(left) = Len(right) /\ Len(left) <= Len(short) + 1
      /\ Len(short) <= Len(seq)
  BY <1>1, <1>3, <1>4, <1>5, SizesAssumption
<1>7. ASSUME NEW i \in 1..Len(left) PROVE left[i] = right[i]
  <2>1. CASE i = Len(left)
    <3>1. left[i] = Append(short, r)[Len(short) + 1]
      BY <1>1, <1>4, <2>1
    <3>2. right[i] = Append(seq, r)[Len(seq) + 1]
      BY <1>3, <1>5, <1>6, <2>1
    <3>. QED BY <1>2, <1>3, <3>1, <3>2
  <2>2. CASE i < Len(left)
    <3>. DEFINE k == Len(short) + 1 - Len(left) + i
                m == Len(seq) + 1 - Len(right) + i
    <3>1. /\ k \in 1..Len(short) /\ m \in 1..Len(seq)
          /\ m = Len(seq) - Len(short) + k
      BY <1>1, <1>3, <1>4, <1>6, <2>2
    <3>2. left[i] = Append(short, r)[k] /\ right[i] = Append(seq, r)[m]
      BY <1>4, <1>5, <1>6
    <3>. HIDE DEF k, m
    <3>3. left[i] = short[k] /\ right[i] = seq[m]
      BY <1>2, <1>3, <3>1, <3>2
    <3>. QED BY <1>1, <3>1, <3>3
  <2>. QED BY <1>4, <2>1, <2>2
<1>8. left = right
  BY <1>4, <1>5, <1>6, <1>7
<1>. QED BY <1>8 DEF left, right, short

-----------------------------------------------------------------------------
(* The OrderedDict. *)

\* Assigning a key leaves every other key in its place, and no key twice.
LEMMA InsertKeeps ==
  ASSUME order \in Seq(Sessions), IsInjective(order), NEW s \in Sessions
  PROVE  /\ Inserted(s) \in Seq(Sessions) /\ IsInjective(Inserted(s))
         /\ ToSet(Inserted(s)) = ToSet(order) \cup {s}
         /\ Len(Inserted(s)) <= Len(order) + 1 /\ Len(Inserted(s)) > 0
<1>1. CASE s \in ToSet(order)
  BY <1>1 DEF Inserted, ToSet
<1>2. CASE s \notin ToSet(order)
  <2>1. Inserted(s) = Append(order, s)
    BY <1>2 DEF Inserted
  <2>2. /\ Append(order, s) \in Seq(Sessions) /\ Len(Append(order, s)) = Len(order) + 1
        /\ DOMAIN Append(order, s) = 1..(Len(order) + 1) /\ DOMAIN order = 1..Len(order)
        /\ \A i \in 1..Len(order) : Append(order, s)[i] = order[i]
        /\ Append(order, s)[Len(order) + 1] = s
    OBVIOUS
  <2>3. \A i \in 1..Len(order) : order[i] # s
    BY <1>2, <2>2 DEF ToSet
  <2>4. IsInjective(Append(order, s))
    BY <2>2, <2>3 DEF IsInjective
  <2>5. ToSet(Append(order, s)) = ToSet(order) \cup {s}
    BY <2>2 DEF ToSet
  <2>. QED BY <2>1, <2>2, <2>4, <2>5
<1>. QED BY <1>1, <1>2

\* Evicting takes the first key, and leaves the others in their order.
LEMMA EvictKeeps ==
  ASSUME NEW keys \in Seq(Sessions), IsInjective(keys), Len(keys) > 0
  PROVE  /\ Evict(keys) \in Seq(Sessions) /\ IsInjective(Evict(keys))
         /\ ToSet(Evict(keys)) = ToSet(keys) \ {keys[1]}
         /\ Len(Evict(keys)) = Len(keys) - 1
<1>1. /\ Tail(keys) \in Seq(Sessions) /\ Len(Tail(keys)) = Len(keys) - 1
      /\ DOMAIN Tail(keys) = 1..(Len(keys) - 1) /\ DOMAIN keys = 1..Len(keys)
      /\ \A i \in 1..(Len(keys) - 1) : Tail(keys)[i] = keys[i + 1]
  OBVIOUS
<1>2. IsInjective(Tail(keys))
  BY <1>1 DEF IsInjective
<1>3. ToSet(Tail(keys)) = ToSet(keys) \ {keys[1]}
  <2>1. ASSUME NEW i \in 1..(Len(keys) - 1)
        PROVE  Tail(keys)[i] \in ToSet(keys) /\ Tail(keys)[i] # keys[1]
    BY <1>1 DEF IsInjective, ToSet
  <2>2. ASSUME NEW x \in ToSet(keys), x # keys[1] PROVE x \in ToSet(Tail(keys))
    <3>1. PICK i \in 1..Len(keys) : keys[i] = x
      BY <1>1 DEF ToSet
    <3>2. i - 1 \in 1..(Len(keys) - 1)
      BY <2>2, <3>1
    <3>3. Tail(keys)[i - 1] = x
      BY <1>1, <3>1, <3>2
    <3>. QED BY <1>1, <3>2, <3>3 DEF ToSet
  <2>. QED BY <1>1, <2>1, <2>2 DEF ToSet
<1>. QED BY <1>1, <1>2, <1>3 DEF Evict

-----------------------------------------------------------------------------
(* The inductive invariant. *)

\* A request under way has a session.
Named == \A r \in Requests : pc[r] \in {"asking", "storing"} => session[r] \in Sessions

IInv == TypeOK /\ Named /\ NoTurnLost

\* The store is empty and no request was made.
LEMMA InitHolds == Init => IInv
<1>. SUFFICES ASSUME Init PROVE IInv
  OBVIOUS
<1>. USE DEF Init
<1>1. order \in Seq(Sessions) /\ IsInjective(order) /\ Len(order) <= MaxSessions
  BY SizesAssumption DEF IsInjective
<1>2. <<>> \in Seq(Requests) /\ LastTurns(<<>>) \in Turns /\ LastTurns(<<>>) = <<>>
  BY EmptySlice
<1>3. turns \in [Sessions -> Turns] /\ history \in [Requests -> Turns]
  BY <1>2
<1>4. \A s \in Sessions : turns[s] # <<>> <=> s \in ToSet(order)
  BY DEF ToSet
<1>5. /\ restarts \in 0..MaxRestarts /\ births \in Nat /\ birth \in [Sessions -> Nat]
      /\ log \in [Sessions -> Seq(Requests)]
  BY RestartsAssumption
<1>6. TypeOK
  BY <1>1, <1>3, <1>4, <1>5 DEF TypeOK
<1>7. NoTurnLost
  BY <1>2 DEF NoTurnLost
<1>. QED BY <1>6, <1>7 DEF IInv, Named

\* The critical section of SessionStore.append: it keeps a session's last turns, and the
\* sessions that have turns are those that have a key.
LEMMA StoreHolds ==
  ASSUME IInv, NEW r \in Requests, Store(r)
  PROVE  IInv'
<1>. DEFINE s == session[r]
            keys == Inserted(s)
            kept == IF Len(keys) > MaxSessions THEN Evict(keys) ELSE keys
<1>1. s \in Sessions
  BY DEF IInv, Named, Store
<1>2. /\ order' = kept
      /\ turns' = [t \in Sessions |-> IF t \notin ToSet(kept) THEN <<>>
                                      ELSE IF t = s THEN Appended(r) ELSE turns[t]]
      /\ log' = [t \in Sessions |-> IF t \notin ToSet(kept) THEN <<>>
                                    ELSE IF t = s THEN Append(log[t], r) ELSE log[t]]
      /\ pc' = [pc EXCEPT ![r] = "responding"]
      /\ UNCHANGED <<session, history, outcome, restarts>>
  BY DEF Store
<1>3. /\ order \in Seq(Sessions) /\ IsInjective(order) /\ Len(order) <= MaxSessions
      /\ turns \in [Sessions -> Turns] /\ log \in [Sessions -> Seq(Requests)]
      /\ \A t \in Sessions : turns[t] # <<>> <=> t \in ToSet(order)
      /\ \A t \in Sessions : turns[t] = LastTurns(log[t])
  BY DEF IInv, TypeOK, NoTurnLost
<1>4. /\ keys \in Seq(Sessions) /\ IsInjective(keys)
      /\ ToSet(keys) = ToSet(order) \cup {s}
      /\ Len(keys) <= Len(order) + 1 /\ Len(keys) > 0
  BY <1>1, <1>3, InsertKeeps
<1>. HIDE DEF keys
<1>5. /\ kept \in Seq(Sessions) /\ IsInjective(kept) /\ Len(kept) <= MaxSessions
      /\ ToSet(kept) \subseteq ToSet(keys)
  <2>1. CASE Len(keys) > MaxSessions
    BY <1>3, <1>4, <2>1, EvictKeeps, SizesAssumption
  <2>2. CASE ~ Len(keys) > MaxSessions
    BY <1>4, <2>2, SizesAssumption
  <2>. QED BY <2>1, <2>2
<1>. HIDE DEF kept, s
<1>6. /\ Appended(r) = LastTurns(Append(log[s], r))
      /\ Appended(r) \in Turns /\ Appended(r) # <<>>
  <2>1. log[s] \in Seq(Requests) /\ turns[s] = LastTurns(log[s])
    BY <1>1, <1>3
  <2>2. Append(log[s], r) \in Seq(Requests) /\ Append(log[s], r) # <<>>
    BY <2>1
  <2>3. Appended(r) = LastTurns(Append(LastTurns(log[s]), r))
    BY <2>1 DEF Appended, s
  <2>4. Appended(r) = LastTurns(Append(log[s], r))
    BY <2>1, <2>3, SliceOfSlice
  <2>. QED BY <2>2, <2>4, LastTurnsIsTurns
<1>7. <<>> \in Seq(Requests) /\ <<>> \in Turns /\ LastTurns(<<>>) = <<>>
  BY EmptySlice
<1>8. ASSUME NEW t \in Sessions
      PROVE  /\ turns'[t] \in Turns /\ log'[t] \in Seq(Requests)
             /\ turns'[t] # <<>> <=> t \in ToSet(kept)
             /\ turns'[t] = LastTurns(log'[t])
  <2>1. CASE t \notin ToSet(kept)
    BY <1>2, <1>7, <2>1
  <2>2. CASE t \in ToSet(kept) /\ t = s
    BY <1>1, <1>2, <1>3, <1>6, <2>2
  <2>3. CASE t \in ToSet(kept) /\ t # s
    BY <1>2, <1>3, <1>4, <1>5, <2>3
  <2>. QED BY <2>1, <2>2, <2>3
<1>9. turns' \in [Sessions -> Turns] /\ log' \in [Sessions -> Seq(Requests)]
  BY <1>2, <1>8
<1>10. births' \in Nat /\ birth' \in [Sessions -> Nat] /\ forgotten' \in SUBSET Requests
  <2>1. births \in Nat /\ birth \in [Sessions -> Nat] /\ forgotten \in SUBSET Requests
    BY DEF IInv, TypeOK
  <2>2. CASE s \in ToSet(order)
    <3>1. births' = births /\ birth' = birth
      BY <2>2 DEF Store, s
    <3>2. forgotten' \in SUBSET Requests
      BY <2>1 DEF Store
    <3>. QED BY <2>1, <3>1, <3>2
  <2>3. CASE s \notin ToSet(order)
    <3>1. births' = births + 1 /\ birth' = [birth EXCEPT ![s] = births + 1]
      BY <2>3 DEF Store, s
    <3>2. forgotten' \in SUBSET Requests
      BY <2>1 DEF Store
    <3>. QED BY <1>1, <2>1, <3>1, <3>2
  <2>. QED BY <2>2, <2>3
<1>11. /\ session' \in [Requests -> Sessions \cup {None}] /\ history' \in [Requests -> Turns]
       /\ outcome' \in [Requests -> Outcomes \cup {None}] /\ restarts' \in 0..MaxRestarts
       /\ pc' \in [Requests -> {"idle", "asking", "storing", "responding", "done"}]
  BY <1>2 DEF IInv, TypeOK
<1>12. TypeOK'
  BY <1>2, <1>5, <1>8, <1>9, <1>10, <1>11 DEF TypeOK
<1>13. NoTurnLost'
  BY <1>8 DEF NoTurnLost
<1>14. Named'
  BY <1>2 DEF IInv, TypeOK, Named
<1>. QED BY <1>12, <1>13, <1>14 DEF IInv

\* The other steps leave the store alone, or empty it.
LEMMA StepHolds == IInv /\ [Next]_vars => IInv'
<1>. SUFFICES ASSUME IInv, [Next]_vars PROVE IInv'
  OBVIOUS
<1>1. ASSUME NEW r \in Requests, Start(r) PROVE IInv'
  <2>1. PICK s \in Sessions : /\ session' = [session EXCEPT ![r] = s]
                              /\ history' = [history EXCEPT ![r] = LastTurns(turns[s])]
    BY <1>1 DEF Start
  <2>2. LastTurns(turns[s]) \in Turns
    <3>1. turns[s] = LastTurns(log[s]) /\ log[s] \in Seq(Requests)
      BY DEF IInv, TypeOK, NoTurnLost
    <3>. QED BY <3>1, LastTurnsIsTurns
  <2>3. /\ session' \in [Requests -> Sessions \cup {None}] /\ history' \in [Requests -> Turns]
        /\ pc' \in [Requests -> {"idle", "asking", "storing", "responding", "done"}]
    BY <1>1, <2>1, <2>2 DEF Start, IInv, TypeOK
  <2>4. TypeOK'
    BY <1>1, <2>3 DEF Start, IInv, TypeOK, store, ghost
  <2>5. Named'
    BY <1>1, <2>1 DEF Start, IInv, TypeOK, Named
  <2>6. NoTurnLost'
    BY <1>1 DEF Start, IInv, NoTurnLost, store, ghost
  <2>. QED BY <2>4, <2>5, <2>6 DEF IInv
<1>2. ASSUME NEW r \in Requests, AskReturns(r) PROVE IInv'
  <2>1. /\ outcome' \in [Requests -> Outcomes \cup {None}]
        /\ pc' \in [Requests -> {"idle", "asking", "storing", "responding", "done"}]
    BY <1>2 DEF AskReturns, IInv, TypeOK
  <2>2. TypeOK'
    BY <1>2, <2>1 DEF AskReturns, IInv, TypeOK, store, ghost
  <2>3. Named'
    BY <1>2 DEF AskReturns, IInv, TypeOK, Named
  <2>4. NoTurnLost'
    BY <1>2 DEF AskReturns, IInv, NoTurnLost, store, ghost
  <2>. QED BY <2>2, <2>3, <2>4 DEF IInv
<1>3. ASSUME NEW r \in Requests, Store(r) PROVE IInv'
  BY <1>3, StoreHolds
<1>4. ASSUME NEW r \in Requests, Respond(r) PROVE IInv'
  <2>1. pc' \in [Requests -> {"idle", "asking", "storing", "responding", "done"}]
    BY <1>4 DEF Respond, IInv, TypeOK
  <2>2. TypeOK'
    BY <1>4, <2>1 DEF Respond, IInv, TypeOK, store, ghost
  <2>3. Named'
    BY <1>4 DEF Respond, IInv, TypeOK, Named
  <2>4. NoTurnLost'
    BY <1>4 DEF Respond, IInv, NoTurnLost, store, ghost
  <2>. QED BY <2>2, <2>3, <2>4 DEF IInv
<1>5. CASE Restart
  <2>1. order' \in Seq(Sessions) /\ IsInjective(order') /\ Len(order') <= MaxSessions
    BY <1>5, SizesAssumption DEF Restart, IsInjective
  <2>2. <<>> \in Seq(Requests) /\ LastTurns(<<>>) \in Turns /\ LastTurns(<<>>) = <<>>
    BY EmptySlice
  <2>3. turns' \in [Sessions -> Turns] /\ log' \in [Sessions -> Seq(Requests)]
    BY <1>5, <2>2 DEF Restart
  <2>4. \A s \in Sessions : turns'[s] # <<>> <=> s \in ToSet(order')
    BY <1>5 DEF Restart, ToSet
  <2>5. restarts' \in 0..MaxRestarts
    BY <1>5, RestartsAssumption DEF Restart, IInv, TypeOK
  <2>6. pc' \in [Requests -> {"idle", "asking", "storing", "responding", "done"}]
    BY <1>5 DEF Restart
  <2>7. TypeOK'
    BY <1>5, <2>1, <2>3, <2>4, <2>5, <2>6 DEF Restart, IInv, TypeOK
  <2>8. Named'
    BY <1>5 DEF Restart, Named
  <2>9. NoTurnLost'
    BY <1>5, <2>2 DEF Restart, NoTurnLost
  <2>. QED BY <2>7, <2>8, <2>9 DEF IInv
<1>6. CASE UNCHANGED vars
  BY <1>6 DEF vars, store, handlers, ghost, IInv, TypeOK, Named, NoTurnLost
<1>. QED BY <1>1, <1>2, <1>3, <1>4, <1>5, <1>6 DEF Next, Over

-----------------------------------------------------------------------------
(* The theorems. *)

\* main.py:69-73: the store holds at most MAX_SESSIONS sessions of at most max_history_turns
\* turns, each session under one key, and every variable keeps its type.
THEOREM StoreIsBounded == Spec => []TypeOK
<1>1. IInv => TypeOK
  BY DEF IInv
<1>. QED BY <1>1, InitHolds, StepHolds, PTL DEF Spec

\* main.py:69-73: however many requests overlap, no turn of a session that is kept is lost
\* or reordered.
THEOREM NoTurnIsLost == Spec => []NoTurnLost
<1>1. IInv => NoTurnLost
  BY DEF IInv
<1>. QED BY <1>1, InitHolds, StepHolds, PTL DEF Spec

-----------------------------------------------------------------------------
(* Whose turns a request is shown. *)

\* A slice repeats a turn only if the list does, and has no turn the list has not.
LEMMA SliceOfDistinct ==
  ASSUME NEW seq \in Seq(Requests), IsInjective(seq)
  PROVE  IsInjective(LastTurns(seq)) /\ ToSet(LastTurns(seq)) \subseteq ToSet(seq)
<1>. DEFINE short == LastTurns(seq)
            d == Len(seq) - Len(short)
<1>1. /\ short \in Seq(Requests) /\ Len(short) \in Nat
      /\ Len(seq) > MaxTurns => Len(short) = MaxTurns
      /\ Len(seq) <= MaxTurns => Len(short) = Len(seq)
      /\ \A i \in 1..Len(short) : short[i] = seq[d + i]
  BY SliceIs
<1>. HIDE DEF short
<1>2. /\ DOMAIN short = 1..Len(short) /\ DOMAIN seq = 1..Len(seq)
      /\ d \in Nat /\ \A i \in 1..Len(short) : d + i \in 1..Len(seq)
  BY <1>1, SizesAssumption
<1>3. \A i \in 1..Len(short) : short[i] = seq[d + i]
  BY <1>1
<1>. HIDE DEF d
<1>4. ASSUME NEW i \in 1..Len(short), NEW j \in 1..Len(short), short[i] = short[j]
      PROVE  i = j
  <2>1. seq[d + i] = seq[d + j] /\ d + i \in DOMAIN seq /\ d + j \in DOMAIN seq
    BY <1>2, <1>3, <1>4
  <2>2. d + i = d + j
    BY <2>1 DEF IsInjective
  <2>. QED BY <1>2, <2>2
<1>5. IsInjective(short)
  BY <1>2, <1>4 DEF IsInjective
<1>6. ToSet(short) \subseteq ToSet(seq)
  BY <1>2, <1>3 DEF ToSet
<1>. QED BY <1>5, <1>6 DEF short

\* The turn of a request that is not in the list does not repeat one.
LEMMA AppendDistinct ==
  ASSUME NEW seq \in Seq(Requests), IsInjective(seq), NEW r \in Requests, r \notin ToSet(seq)
  PROVE  IsInjective(Append(seq, r)) /\ ToSet(Append(seq, r)) = ToSet(seq) \cup {r}
<1>1. /\ DOMAIN Append(seq, r) = 1..(Len(seq) + 1) /\ DOMAIN seq = 1..Len(seq)
      /\ \A i \in 1..Len(seq) : Append(seq, r)[i] = seq[i]
      /\ Append(seq, r)[Len(seq) + 1] = r /\ Len(seq) \in Nat
  OBVIOUS
<1>2. \A i \in 1..Len(seq) : seq[i] # r
  BY <1>1 DEF ToSet
<1>3. IsInjective(Append(seq, r))
  BY <1>1, <1>2 DEF IsInjective
<1>4. ToSet(Append(seq, r)) = ToSet(seq) \cup {r}
  BY <1>1 DEF ToSet
<1>. QED BY <1>3, <1>4

\* A request whose turn may be in a list: it got an answer or a question back, and its
\* handler does not write its session or its outcome any more.
Settled(q) == outcome[q] \in {"answered", "clarify"} /\ pc[q] \in {"responding", "done"}

OwnTurns ==
  \A s \in Sessions :
    /\ IsInjective(turns[s])
    /\ \A q \in ToSet(turns[s]) : q \in Requests /\ session[q] = s /\ Settled(q)

OwnHistory ==
  \A r \in Requests :
    /\ IsInjective(history[r])
    /\ \A q \in ToSet(history[r]) : q \in Requests /\ session[q] = session[r] /\ Settled(q)

\* A request at the store got an answer or a question back.
StoringIsKept == \A r \in Requests : pc[r] = "storing" => Keep(outcome[r])

OwnInv == IInv /\ OwnTurns /\ OwnHistory /\ StoringIsKept

LEMMA OwnInit == Init => OwnInv
<1>. SUFFICES ASSUME Init PROVE OwnInv
  OBVIOUS
<1>1. IInv
  BY InitHolds
<1>2. IsInjective(<<>>) /\ ToSet(<<>>) = {}
  BY DEF IsInjective, ToSet
<1>. QED BY <1>1, <1>2 DEF Init, OwnInv, OwnTurns, OwnHistory, StoringIsKept

\* A request that is settled stays so, in the same session.
LEMMA SettledStays ==
  ASSUME TypeOK, Next, NEW q \in Requests, Settled(q)
  PROVE  Settled(q)' /\ session'[q] = session[q]
<1>1. ASSUME NEW r \in Requests, Start(r) PROVE Settled(q)' /\ session'[q] = session[q]
  BY <1>1 DEF Start, Settled, TypeOK
<1>2. ASSUME NEW r \in Requests, AskReturns(r) PROVE Settled(q)' /\ session'[q] = session[q]
  BY <1>2 DEF AskReturns, Settled, TypeOK
<1>3. ASSUME NEW r \in Requests, Store(r) PROVE Settled(q)' /\ session'[q] = session[q]
  <2>1. pc' = [pc EXCEPT ![r] = "responding"] /\ UNCHANGED <<session, outcome>>
    BY <1>3 DEF Store
  <2>. QED BY <2>1 DEF Settled, TypeOK
<1>4. ASSUME NEW r \in Requests, Respond(r) PROVE Settled(q)' /\ session'[q] = session[q]
  BY <1>4 DEF Respond, Settled, TypeOK
<1>5. CASE Restart
  BY <1>5 DEF Restart, Settled, TypeOK
<1>6. CASE UNCHANGED vars
  BY <1>6 DEF vars, handlers, Settled
<1>. QED BY <1>1, <1>2, <1>3, <1>4, <1>5, <1>6 DEF Next, Over

\* What the write makes of the lists: a turn more, of a request that was in none.
LEMMA StoreOwn ==
  ASSUME OwnInv, NEW r \in Requests, Store(r)
  PROVE  OwnTurns'
<1>. DEFINE s == session[r]
            keys == Inserted(s)
            kept == IF Len(keys) > MaxSessions THEN Evict(keys) ELSE keys
            longer == Append(turns[s], r)
<1>1. /\ pc[r] = "storing" /\ pc' = [pc EXCEPT ![r] = "responding"]
      /\ turns' = [t \in Sessions |-> IF t \notin ToSet(kept) THEN <<>>
                                      ELSE IF t = s THEN Appended(r) ELSE turns[t]]
      /\ UNCHANGED <<session, outcome>>
  BY DEF Store
<1>. HIDE DEF kept, keys
<1>2. s \in Sessions /\ TypeOK /\ pc \in [Requests -> {"idle", "asking", "storing", "responding", "done"}]
  BY <1>1 DEF OwnInv, IInv, Named, TypeOK
<1>3. turns[s] \in Seq(Requests) /\ IsInjective(turns[s]) /\ r \notin ToSet(turns[s])
  <2>1. turns[s] = LastTurns(log[s]) /\ log[s] \in Seq(Requests)
    BY <1>2 DEF OwnInv, IInv, NoTurnLost, TypeOK
  <2>2. IsInjective(turns[s]) /\ r \notin ToSet(turns[s])
    BY <1>1, <1>2 DEF OwnInv, OwnTurns, Settled
  <2>. QED BY <2>1, <2>2, LastTurnsIsTurns
<1>4. longer \in Seq(Requests) /\ IsInjective(longer) /\ ToSet(longer) = ToSet(turns[s]) \cup {r}
  BY <1>3, AppendDistinct
<1>5. IsInjective(Appended(r)) /\ ToSet(Appended(r)) \subseteq ToSet(turns[s]) \cup {r}
  <2>. HIDE DEF longer
  <2>1. IsInjective(LastTurns(longer)) /\ ToSet(LastTurns(longer)) \subseteq ToSet(longer)
    BY <1>4, SliceOfDistinct
  <2>. QED BY <1>4, <2>1 DEF Appended, longer
<1>6. Next
  BY DEF Next
<1>7. Settled(r)'
  BY <1>1, <1>2 DEF OwnInv, StoringIsKept, Keep, Settled
<1>8. IsInjective(<<>>) /\ ToSet(<<>>) = {}
  BY DEF IsInjective, ToSet
<1>9. ASSUME NEW t \in Sessions
      PROVE  /\ IsInjective(turns'[t])
             /\ \A q \in ToSet(turns'[t]) : q \in Requests /\ session'[q] = t /\ Settled(q)'
  <2>1. CASE t \notin ToSet(kept)
    BY <1>1, <1>8, <2>1
  <2>2. \A q \in ToSet(turns[t]) : q \in Requests /\ session'[q] = t /\ Settled(q)'
    BY <1>2, <1>6, SettledStays DEF OwnInv, OwnTurns
  <2>3. CASE t \in ToSet(kept) /\ t = s
    BY <1>1, <1>5, <1>7, <2>2, <2>3
  <2>4. CASE t \in ToSet(kept) /\ t # s
    BY <1>1, <2>2, <2>4 DEF OwnInv, OwnTurns
  <2>. QED BY <2>1, <2>3, <2>4
<1>. QED BY <1>9 DEF OwnTurns

LEMMA OwnStep == OwnInv /\ [Next]_vars => OwnInv'
<1>. SUFFICES ASSUME OwnInv, [Next]_vars PROVE OwnInv'
  OBVIOUS
<1>1. IInv' /\ TypeOK
  BY StepHolds DEF OwnInv, IInv
<1>2. CASE UNCHANGED vars
  BY <1>1, <1>2 DEF vars, store, handlers, OwnInv, OwnTurns, OwnHistory, StoringIsKept, Settled
<1>3. ASSUME Next, turns' = turns PROVE OwnTurns'
  BY <1>1, <1>3, SettledStays DEF OwnInv, OwnTurns
<1>4. ASSUME Next, UNCHANGED <<session, history>> PROVE OwnHistory'
  BY <1>1, <1>4, SettledStays DEF OwnInv, OwnHistory
<1>5. ASSUME NEW r \in Requests, Start(r) PROVE OwnInv'
  <2>1. Next
    BY <1>5 DEF Next
  <2>2. PICK s \in Sessions : /\ session' = [session EXCEPT ![r] = s]
                              /\ history' = [history EXCEPT ![r] = LastTurns(turns[s])]
    BY <1>5 DEF Start
  <2>3. OwnTurns'
    BY <1>3, <1>5, <2>1 DEF Start, store
  <2>4. IsInjective(LastTurns(turns[s])) /\ ToSet(LastTurns(turns[s])) \subseteq ToSet(turns[s])
    <3>1. turns[s] = LastTurns(log[s]) /\ log[s] \in Seq(Requests)
      BY DEF OwnInv, IInv, NoTurnLost, TypeOK
    <3>2. turns[s] \in Seq(Requests) /\ IsInjective(turns[s])
      BY <3>1, LastTurnsIsTurns DEF OwnInv, OwnTurns
    <3>. QED BY <3>2, SliceOfDistinct
  <2>5. ASSUME NEW p \in Requests
        PROVE  /\ IsInjective(history'[p])
               /\ \A q \in ToSet(history'[p]) :
                    q \in Requests /\ session'[q] = session'[p] /\ Settled(q)'
    <3>1. CASE p = r
      <4>1. history'[p] = LastTurns(turns[s]) /\ session'[p] = s
        BY <1>1, <2>2, <3>1 DEF TypeOK
      <4>2. \A q \in ToSet(turns[s]) : q \in Requests /\ session'[q] = s /\ Settled(q)'
        BY <1>1, <2>1, SettledStays DEF OwnInv, OwnTurns
      <4>. QED BY <2>4, <4>1, <4>2
    <3>2. CASE p # r
      <4>1. history'[p] = history[p] /\ session'[p] = session[p]
        BY <1>1, <2>2, <3>2 DEF TypeOK
      <4>2. \A q \in ToSet(history[p]) : q \in Requests /\ session'[q] = session[p] /\ Settled(q)'
        BY <1>1, <2>1, SettledStays DEF OwnInv, OwnHistory
      <4>. QED BY <4>1, <4>2 DEF OwnInv, OwnHistory
    <3>. QED BY <3>1, <3>2
  <2>6. OwnHistory'
    BY <2>5 DEF OwnHistory
  <2>7. StoringIsKept'
    BY <1>1, <1>5 DEF Start, OwnInv, StoringIsKept, TypeOK
  <2>. QED BY <1>1, <2>3, <2>6, <2>7 DEF OwnInv
<1>6. ASSUME NEW r \in Requests, AskReturns(r) PROVE OwnInv'
  <2>1. Next
    BY <1>6 DEF Next
  <2>2. OwnTurns' /\ OwnHistory'
    BY <1>3, <1>4, <1>6, <2>1 DEF AskReturns, store
  <2>3. StoringIsKept'
    BY <1>1, <1>6 DEF AskReturns, OwnInv, StoringIsKept, TypeOK
  <2>. QED BY <1>1, <2>2, <2>3 DEF OwnInv
<1>7. ASSUME NEW r \in Requests, Store(r) PROVE OwnInv'
  <2>1. Next
    BY <1>7 DEF Next
  <2>2. OwnTurns'
    BY <1>7, StoreOwn
  <2>3. pc' = [pc EXCEPT ![r] = "responding"] /\ UNCHANGED <<session, history, outcome>>
    BY <1>7 DEF Store
  <2>4. OwnHistory'
    BY <1>4, <2>1, <2>3
  <2>5. StoringIsKept'
    BY <1>1, <2>3 DEF OwnInv, StoringIsKept, TypeOK
  <2>. QED BY <1>1, <2>2, <2>4, <2>5 DEF OwnInv
<1>8. ASSUME NEW r \in Requests, Respond(r) PROVE OwnInv'
  <2>1. Next
    BY <1>8 DEF Next
  <2>2. OwnTurns' /\ OwnHistory'
    BY <1>3, <1>4, <1>8, <2>1 DEF Respond, store
  <2>3. StoringIsKept'
    BY <1>1, <1>8 DEF Respond, OwnInv, StoringIsKept, TypeOK
  <2>. QED BY <1>1, <2>2, <2>3 DEF OwnInv
<1>9. CASE Restart
  <2>1. Next
    BY <1>9 DEF Next
  <2>2. OwnHistory'
    BY <1>4, <1>9, <2>1 DEF Restart
  <2>3. IsInjective(<<>>) /\ ToSet(<<>>) = {}
    BY DEF IsInjective, ToSet
  <2>4. OwnTurns' /\ StoringIsKept'
    BY <1>9, <2>3 DEF Restart, OwnTurns, StoringIsKept
  <2>. QED BY <1>1, <2>2, <2>4 DEF OwnInv
<1>. QED BY <1>2, <1>5, <1>6, <1>7, <1>8, <1>9 DEF Next, Over

\* main.py:148: what a request is shown is of its own session, of requests that got an
\* answer or a question back, each once.
THEOREM ContextIsAlwaysOwn == Spec => []ContextIsOwn
<1>1. OwnInv => ContextIsOwn
  BY DEF OwnInv, OwnHistory, ContextIsOwn, Settled
<1>. QED BY <1>1, OwnInit, OwnStep, PTL DEF Spec

-----------------------------------------------------------------------------
(* Which session an eviction takes. *)

\* The keys are in the order in which their sessions were created.
Aged(keys, ages) == \A i, j \in DOMAIN keys : i < j => ages[keys[i]] < ages[keys[j]]

Ages ==
  /\ Aged(order, birth)
  /\ \A s \in ToSet(order) : birth[s] <= births

AgeInv == IInv /\ Ages

\* What the write makes of the keys: the new one, if any, is last and the youngest.
LEMMA InsertAges ==
  ASSUME AgeInv, NEW r \in Requests, Store(r)
  PROVE  /\ Aged(Inserted(session[r]), birth')
         /\ \A t \in ToSet(Inserted(session[r])) : birth'[t] <= births'
<1>. DEFINE s == session[r]
<1>1. /\ s \in Sessions /\ order \in Seq(Sessions) /\ births \in Nat
      /\ birth \in [Sessions -> Nat]
  <2>1. pc[r] = "storing"
    BY DEF Store
  <2>. QED BY <2>1 DEF AgeInv, IInv, Named, TypeOK
<1>2. CASE s \in ToSet(order)
  <2>1. UNCHANGED <<births, birth>> /\ Inserted(s) = order
    BY <1>2 DEF Store, Inserted
  <2>. QED BY <2>1 DEF AgeInv, Ages
<1>3. CASE s \notin ToSet(order)
  <2>1. /\ births' = births + 1 /\ birth' = [birth EXCEPT ![s] = births + 1]
        /\ Inserted(s) = Append(order, s)
    BY <1>3 DEF Store, Inserted
  <2>. HIDE DEF s
  <2>2. /\ DOMAIN Append(order, s) = 1..(Len(order) + 1) /\ DOMAIN order = 1..Len(order)
        /\ \A i \in 1..Len(order) : Append(order, s)[i] = order[i] /\ order[i] \in Sessions
        /\ Append(order, s)[Len(order) + 1] = s /\ Len(order) \in Nat
    BY <1>1
  <2>3. \A i \in 1..Len(order) : order[i] # s /\ order[i] \in ToSet(order)
    BY <1>3, <2>2 DEF ToSet
  <2>4. birth'[s] = births + 1 /\ \A i \in 1..Len(order) : birth'[order[i]] = birth[order[i]]
    BY <1>1, <2>1, <2>2, <2>3
  <2>5. \A i \in 1..Len(order) : birth[order[i]] <= births /\ birth[order[i]] \in Nat
    BY <1>1, <2>2, <2>3 DEF AgeInv, Ages
  <2>6. ASSUME NEW i \in 1..(Len(order) + 1), NEW j \in 1..(Len(order) + 1), i < j
        PROVE  birth'[Append(order, s)[i]] < birth'[Append(order, s)[j]]
    <3>1. i \in 1..Len(order)
      BY <2>2, <2>6
    <3>2. CASE j = Len(order) + 1
      BY <1>1, <2>2, <2>4, <2>5, <3>1, <3>2
    <3>3. CASE j # Len(order) + 1
      <4>1. j \in 1..Len(order)
        BY <2>2, <3>3
      <4>2. birth[order[i]] < birth[order[j]]
        BY <2>2, <2>6, <3>1, <4>1 DEF AgeInv, Ages, Aged
      <4>. QED BY <2>2, <2>4, <3>1, <4>1, <4>2
    <3>. QED BY <3>2, <3>3
  <2>7. Aged(Inserted(s), birth')
    BY <2>1, <2>2, <2>6 DEF Aged
  <2>8. ASSUME NEW i \in 1..(Len(order) + 1)
        PROVE  birth'[Append(order, s)[i]] <= births'
    <3>1. CASE i = Len(order) + 1
      BY <1>1, <2>1, <2>2, <2>4, <3>1
    <3>2. CASE i # Len(order) + 1
      <4>1. i \in 1..Len(order)
        BY <2>2, <3>2
      <4>. QED BY <1>1, <2>1, <2>2, <2>4, <2>5, <4>1
    <3>. QED BY <3>1, <3>2
  <2>9. \A t \in ToSet(Inserted(s)) : birth'[t] <= births'
    BY <2>1, <2>2, <2>8 DEF ToSet
  <2>. QED BY <2>7, <2>9 DEF s
<1>. QED BY <1>2, <1>3

\* Evicting takes the oldest, and leaves the others in the order of their ages.
LEMMA EvictAges ==
  ASSUME NEW keys \in Seq(Sessions), IsInjective(keys), Len(keys) > 0, NEW ages, Aged(keys, ages)
  PROVE  /\ Aged(Evict(keys), ages)
         /\ \A t \in ToSet(Evict(keys)) : ages[keys[1]] < ages[t]
<1>1. /\ DOMAIN Tail(keys) = 1..(Len(keys) - 1) /\ DOMAIN keys = 1..Len(keys)
      /\ Len(keys) \in Nat
      /\ \A i \in 1..(Len(keys) - 1) : Tail(keys)[i] = keys[i + 1]
  OBVIOUS
<1>2. \A i \in 1..(Len(keys) - 1) : i + 1 \in DOMAIN keys /\ 1 < i + 1
  BY <1>1
<1>3. 1 \in DOMAIN keys
  BY <1>1
<1>4. Aged(Tail(keys), ages)
  <2>1. ASSUME NEW i \in DOMAIN Tail(keys), NEW j \in DOMAIN Tail(keys), i < j
        PROVE  ages[Tail(keys)[i]] < ages[Tail(keys)[j]]
    <3>1. /\ i + 1 \in DOMAIN keys /\ j + 1 \in DOMAIN keys /\ i + 1 < j + 1
          /\ Tail(keys)[i] = keys[i + 1] /\ Tail(keys)[j] = keys[j + 1]
      BY <1>1, <1>2, <2>1
    <3>. QED BY <3>1 DEF Aged
  <2>. QED BY <2>1 DEF Aged
<1>5. ASSUME NEW i \in DOMAIN Tail(keys) PROVE ages[keys[1]] < ages[Tail(keys)[i]]
  <2>1. i + 1 \in DOMAIN keys /\ 1 < i + 1 /\ Tail(keys)[i] = keys[i + 1]
    BY <1>1, <1>2
  <2>. QED BY <1>3, <2>1 DEF Aged
<1>. QED BY <1>4, <1>5 DEF Evict, ToSet

\* The write evicts nothing, or the oldest of more than MaxSessions sessions.
LEMMA StoreEvicts ==
  ASSUME AgeInv, NEW r \in Requests, Store(r)
  PROVE  LET gone == ToSet(order) \ ToSet(order') IN
           /\ Ages'
           /\ session[r] \in ToSet(order')
           /\ \/ gone = {}
              \/ /\ gone = {order[1]} /\ Len(order) = MaxSessions /\ Len(order') = MaxSessions
                 /\ \A t \in ToSet(order') : birth'[order[1]] < birth'[t]
<1>. DEFINE s == session[r]
            keys == Inserted(s)
<1>1. order' = IF Len(keys) > MaxSessions THEN Evict(keys) ELSE keys
  BY DEF Store
<1>2. /\ s \in Sessions /\ order \in Seq(Sessions) /\ IsInjective(order)
      /\ Len(order) <= MaxSessions /\ Len(order) \in Nat
  <2>1. pc[r] = "storing"
    BY DEF Store
  <2>. QED BY <2>1 DEF AgeInv, IInv, Named, TypeOK
<1>3. /\ keys \in Seq(Sessions) /\ IsInjective(keys) /\ ToSet(keys) = ToSet(order) \cup {s}
      /\ Len(keys) <= Len(order) + 1 /\ Len(keys) > 0
  BY <1>2, InsertKeeps
<1>4. Aged(keys, birth') /\ \A t \in ToSet(keys) : birth'[t] <= births'
  BY InsertAges
<1>5. CASE ~ Len(keys) > MaxSessions
  <2>. HIDE DEF keys
  <2>1. order' = keys
    BY <1>1, <1>5
  <2>. QED BY <1>3, <1>4, <2>1 DEF Ages
<1>6. CASE Len(keys) > MaxSessions
  <2>1. s \notin ToSet(order)
    BY <1>2, <1>6, SizesAssumption DEF Inserted
  <2>2. keys = Append(order, s)
    BY <2>1 DEF Inserted
  <2>3. Len(order) = MaxSessions /\ Len(keys) = MaxSessions + 1
    BY <1>2, <1>3, <1>6, <2>2, SizesAssumption
  <2>4. keys[1] = order[1] /\ order[1] \in ToSet(order)
    BY <1>2, <2>2, <2>3, SizesAssumption DEF ToSet
  <2>. HIDE DEF keys, s
  <2>5. order' = Evict(keys)
    BY <1>1, <1>6
  <2>6. ToSet(order') = ToSet(keys) \ {order[1]} /\ Len(order') = MaxSessions
    BY <1>3, <2>3, <2>4, <2>5, EvictKeeps, SizesAssumption
  <2>7. Aged(order', birth') /\ \A t \in ToSet(order') : birth'[order[1]] < birth'[t]
    BY <1>3, <1>4, <2>4, <2>5, EvictAges
  <2>8. Ages'
    BY <1>4, <2>6, <2>7 DEF Ages
  <2>9. s \in ToSet(order') /\ ToSet(order) \ ToSet(order') = {order[1]}
    BY <1>3, <2>1, <2>4, <2>6
  <2>. QED BY <2>3, <2>6, <2>7, <2>8, <2>9 DEF s
<1>. QED BY <1>5, <1>6

LEMMA AgeInit == Init => AgeInv
<1>. SUFFICES ASSUME Init PROVE AgeInv
  OBVIOUS
<1>1. IInv
  BY InitHolds
<1>2. Ages
  BY DEF Init, Ages, Aged, ToSet
<1>. QED BY <1>1, <1>2 DEF AgeInv

\* The steps that are not a write of the store nor a restart.
LEMMA OthersLeaveOrder ==
  ASSUME [Next]_vars, \A r \in Requests : ~ Store(r), ~ Restart
  PROVE  UNCHANGED <<order, birth, births>>
  BY DEF Next, Over, Start, AskReturns, Respond, vars, store, ghost

LEMMA AgeStep == AgeInv /\ [Next]_vars => AgeInv'
<1>. SUFFICES ASSUME AgeInv, [Next]_vars PROVE AgeInv'
  OBVIOUS
<1>1. IInv'
  BY StepHolds DEF AgeInv
<1>2. ASSUME NEW r \in Requests, Store(r) PROVE Ages'
  BY <1>2, StoreEvicts
<1>3. ASSUME Restart PROVE Ages'
  <2>1. order' = <<>> /\ DOMAIN <<>> = {}
    BY <1>3 DEF Restart
  <2>2. ToSet(order') = {}
    BY <2>1 DEF ToSet
  <2>3. Aged(order', birth')
    BY <2>1 DEF Aged
  <2>. QED BY <2>2, <2>3 DEF Ages
<1>4. ASSUME UNCHANGED <<order, birth, births>> PROVE Ages'
  <2>1. order' = order /\ birth' = birth /\ births' = births
    BY <1>4
  <2>2. Aged(order, birth) /\ \A s \in ToSet(order) : birth[s] <= births
    BY DEF AgeInv, Ages
  <2>. QED BY <2>1, <2>2 DEF Ages
<1>. QED BY <1>1, <1>2, <1>3, <1>4, OthersLeaveOrder DEF AgeInv

\* A handler comes from the store to its response by the write.
LEMMA OnlyStoreResponds ==
  ASSUME TypeOK, [Next]_vars, ~ Restart, NEW r \in Requests, pc[r] = "storing", pc'[r] = "responding"
  PROVE  Store(r)
<1>1. ASSUME NEW q \in Requests, Start(q) PROVE Store(r)
  BY <1>1 DEF Start, TypeOK
<1>2. ASSUME NEW q \in Requests, AskReturns(q) PROVE Store(r)
  BY <1>2 DEF AskReturns, TypeOK
<1>3. ASSUME NEW q \in Requests, Store(q) PROVE Store(r)
  <2>1. pc' = [pc EXCEPT ![q] = "responding"]
    BY <1>3 DEF Store
  <2>2. q = r
    BY <2>1 DEF TypeOK
  <2>. QED BY <1>3, <2>2
<1>4. ASSUME NEW q \in Requests, Respond(q) PROVE Store(r)
  BY <1>4 DEF Respond, TypeOK
<1>5. CASE UNCHANGED vars
  BY <1>5 DEF vars, handlers
<1>. QED BY <1>1, <1>2, <1>3, <1>4, <1>5 DEF Next, Over

\* main.py:72: sessions are evicted one at a time, only to make room for another, the oldest
\* first, and never the one just written.
THEOREM OldestIsEvicted == Spec => EvictsOldest
<1>. DEFINE gone == ToSet(order) \ ToSet(order')
            Evicts ==
              restarts' = restarts =>
                /\ Cardinality(gone) <= 1
                /\ gone # {} => Len(order) = MaxSessions /\ Len(order') = MaxSessions
                /\ \A s \in gone, t \in ToSet(order') : birth'[s] < birth'[t]
                /\ \A r \in Requests :
                     pc[r] = "storing" /\ pc'[r] = "responding" => session[r] \in ToSet(order')
<1>1. ASSUME AgeInv, [Next]_vars, restarts' = restarts
      PROVE  /\ Cardinality(gone) <= 1
             /\ gone # {} => Len(order) = MaxSessions /\ Len(order') = MaxSessions
             /\ \A s \in gone, t \in ToSet(order') : birth'[s] < birth'[t]
             /\ \A r \in Requests :
                  pc[r] = "storing" /\ pc'[r] = "responding" => session[r] \in ToSet(order')
  <2>1. ~ Restart
    BY <1>1 DEF AgeInv, IInv, TypeOK, Restart
  <2>2. Cardinality({}) = 0 /\ \A x : Cardinality({x}) = 1
    BY FS_EmptySet, FS_Singleton
  <2>3. \A r \in Requests :
          pc[r] = "storing" /\ pc'[r] = "responding" => session[r] \in ToSet(order')
    BY <1>1, <2>1, OnlyStoreResponds, StoreEvicts DEF AgeInv, IInv
  <2>4. CASE gone = {}
    BY <2>2, <2>3, <2>4
  <2>5. CASE gone # {}
    <3>1. PICK r \in Requests : Store(r)
      BY <1>1, <2>1, <2>5, OthersLeaveOrder
    <3>2. /\ gone = {order[1]} /\ Len(order) = MaxSessions /\ Len(order') = MaxSessions
          /\ \A t \in ToSet(order') : birth'[order[1]] < birth'[t]
      BY <1>1, <2>5, <3>1, StoreEvicts
    <3>3. Cardinality(gone) <= 1
      <4>1. Cardinality({order[1]}) = 1
        BY <2>2
      <4>2. gone = {order[1]}
        BY <3>2
      <4>3. Cardinality(gone) = 1
        BY <4>1, <4>2, Zenon
      <4>. QED BY <4>3
    <3>4. \A s \in gone, t \in ToSet(order') : birth'[s] < birth'[t]
      BY <3>2
    <3>. QED BY <2>3, <3>2, <3>3, <3>4
  <2>. QED BY <2>4, <2>5
<1>2. AgeInv /\ [Next]_vars => [Evicts]_vars
  BY <1>1
<1>3. Spec => [][Evicts]_vars
  BY <1>2, AgeInit, AgeStep, PTL DEF Spec
<1>. QED BY <1>3 DEF EvictsOldest

-----------------------------------------------------------------------------
(* What a follow-up question is shown. *)

\* A slice of a slice is the slice: agent.ask takes the last turns of a list of last turns.
LEMMA SliceTwice ==
  ASSUME NEW seq \in Seq(Requests)
  PROVE  LastTurns(LastTurns(seq)) = LastTurns(seq)
<1>. DEFINE short == LastTurns(seq)
            again == LastTurns(short)
<1>1. /\ short \in Seq(Requests) /\ Len(short) \in Nat /\ Len(short) <= MaxTurns
  <2>1. /\ short \in Seq(Requests) /\ Len(short) \in Nat
        /\ Len(seq) > MaxTurns => Len(short) = MaxTurns
        /\ Len(seq) <= MaxTurns => Len(short) = Len(seq)
    BY SliceIs
  <2>. HIDE DEF short
  <2>. QED BY <2>1, SizesAssumption
<1>. HIDE DEF short
<1>2. /\ again \in Seq(Requests) /\ Len(again) = Len(short)
      /\ \A i \in 1..Len(again) : again[i] = short[Len(short) - Len(again) + i]
  <2>1. /\ again \in Seq(Requests) /\ Len(again) \in Nat
        /\ Len(short) <= MaxTurns => Len(again) = Len(short)
        /\ \A i \in 1..Len(again) : again[i] = short[Len(short) - Len(again) + i]
    BY <1>1, SliceIs
  <2>. QED BY <1>1, <2>1
<1>. HIDE DEF again
<1>3. \A i \in 1..Len(again) : again[i] = short[i]
  BY <1>1, <1>2
<1>. QED BY <1>1, <1>2, <1>3 DEF again, short

\* The turns of a session's list since it was created are those of requests of that session,
\* each once, and every exchange that was not forgotten is among them.
Logged ==
  \A s \in Sessions :
    /\ IsInjective(log[s])
    /\ \A q \in ToSet(log[s]) : q \in Requests /\ session[q] = s /\ Settled(q)

Remembered == \A s \in Sessions : Exchanges(s) \ forgotten \subseteq ToSet(log[s])

\* Only finitely many requests were made.
Begun == {r \in Requests : pc[r] # "idle"}

LogInv == OwnInv /\ AgeInv /\ Logged /\ Remembered /\ IsFiniteSet(Begun)

LEMMA LogInit == Init => LogInv
<1>. SUFFICES ASSUME Init PROVE LogInv
  OBVIOUS
<1>1. OwnInv /\ AgeInv
  BY OwnInit, AgeInit
<1>2. IsInjective(<<>>) /\ ToSet(<<>>) = {}
  BY DEF IsInjective, ToSet
<1>3. Logged /\ Remembered
  BY <1>2 DEF Init, Logged, Remembered, Exchanges
<1>4. Begun = {}
  BY DEF Init, Begun
<1>. QED BY <1>1, <1>3, <1>4, FS_EmptySet DEF LogInv

\* A session with turns has a key.
LEMMA LogHasKey ==
  ASSUME IInv, NEW s \in Sessions, log[s] # <<>>
  PROVE  s \in ToSet(order)
<1>1. log[s] \in Seq(Requests) /\ turns[s] = LastTurns(log[s])
  BY DEF IInv, TypeOK, NoTurnLost
<1>2. turns[s] # <<>>
  BY <1>1, LastTurnsIsTurns
<1>. QED BY <1>2 DEF IInv, TypeOK

\* The write adds the request's turn to its session's list; the other lists stay, but for one
\* that is dropped with its session, and then every exchange in it is forgotten.
LEMMA StoreLogs ==
  ASSUME LogInv, NEW r \in Requests, Store(r)
  PROVE  /\ session[r] \in Sessions /\ session[r] \in ToSet(order')
         /\ r \notin ToSet(log[session[r]]) /\ log'[session[r]] = Append(log[session[r]], r)
         /\ \A t \in Sessions \ {session[r]} :
              \/ t \in ToSet(order') /\ log'[t] = log[t]
              \/ /\ t \notin ToSet(order') /\ log'[t] = <<>>
                 /\ ToSet(log[t]) \subseteq forgotten'
         /\ forgotten \subseteq forgotten'
         /\ r \in forgotten' => r \in forgotten
<1>. DEFINE s == session[r]
            keys == Inserted(s)
            kept == IF Len(keys) > MaxSessions THEN Evict(keys) ELSE keys
<1>1. /\ pc[r] = "storing" /\ order' = kept
      /\ log' = [t \in Sessions |-> IF t \notin ToSet(kept) THEN <<>>
                                    ELSE IF t = s THEN Append(log[t], r) ELSE log[t]]
      /\ forgotten' = forgotten \cup
           {q \in Requests : /\ pc[q] \in {"responding", "done"}
                             /\ session[q] \in ToSet(keys) \ ToSet(kept)}
  BY DEF Store
<1>2. s \in Sessions /\ s \in ToSet(kept)
  <2>1. s \in Sessions
    BY <1>1 DEF LogInv, OwnInv, IInv, Named
  <2>2. s \in ToSet(order')
    BY StoreEvicts DEF LogInv
  <2>. QED BY <1>1, <2>1, <2>2
<1>3. ToSet(keys) = ToSet(order) \cup {s}
  BY <1>2, InsertKeeps DEF LogInv, OwnInv, IInv, TypeOK
<1>4. r \notin ToSet(log[s])
  BY <1>1, <1>2 DEF LogInv, Logged, Settled
<1>. HIDE DEF kept, keys
<1>5. ASSUME NEW t \in Sessions \ {s}, t \notin ToSet(kept)
      PROVE  log'[t] = <<>> /\ ToSet(log[t]) \subseteq forgotten'
  <2>1. log'[t] = <<>>
    BY <1>1, <1>5
  <2>2. ASSUME NEW q \in ToSet(log[t]) PROVE q \in forgotten'
    <3>1. q \in Requests /\ session[q] = t /\ pc[q] \in {"responding", "done"}
      BY <2>2 DEF LogInv, Logged, Settled
    <3>2. log[t] # <<>>
      BY <2>2 DEF ToSet
    <3>3. t \in ToSet(keys)
      BY <1>3, <3>2, LogHasKey DEF LogInv, OwnInv
    <3>. QED BY <1>1, <1>5, <3>1, <3>3
  <2>. QED BY <2>1, <2>2
<1>6. r \in forgotten' => r \in forgotten
  BY <1>1
<1>. QED BY <1>1, <1>2, <1>4, <1>5, <1>6

LEMMA StoreRemembers ==
  ASSUME LogInv, NEW r \in Requests, Store(r)
  PROVE  Logged' /\ Remembered'
<1>. DEFINE s == session[r]
<1>1. /\ pc' = [pc EXCEPT ![r] = "responding"] /\ UNCHANGED <<session, outcome>>
      /\ TypeOK /\ Next
  BY DEF Store, Next, LogInv, OwnInv, IInv
<1>2. /\ s \in Sessions /\ r \notin ToSet(log[s]) /\ log'[s] = Append(log[s], r)
      /\ \A t \in Sessions \ {s} : \/ log'[t] = log[t]
                                   \/ log'[t] = <<>> /\ ToSet(log[t]) \subseteq forgotten'
      /\ forgotten \subseteq forgotten'
  <2>1. /\ session[r] \in Sessions /\ r \notin ToSet(log[session[r]])
        /\ log'[session[r]] = Append(log[session[r]], r) /\ forgotten \subseteq forgotten'
    BY StoreLogs, Zenon
  <2>2. \A t \in Sessions \ {session[r]} :
          \/ t \in ToSet(order') /\ log'[t] = log[t]
          \/ t \notin ToSet(order') /\ log'[t] = <<>> /\ ToSet(log[t]) \subseteq forgotten'
    BY StoreLogs, Zenon
  <2>. QED BY <2>1, <2>2, Zenon
<1>3. Settled(r)'
  BY <1>1 DEF LogInv, OwnInv, StoringIsKept, Keep, Settled, Store, TypeOK
<1>4. IsInjective(log'[s]) /\ ToSet(log'[s]) = ToSet(log[s]) \cup {r}
  <2>1. log[s] \in Seq(Requests) /\ IsInjective(log[s])
    BY <1>1, <1>2 DEF TypeOK, LogInv, Logged
  <2>. QED BY <1>2, <2>1, AppendDistinct
<1>5. IsInjective(<<>>) /\ ToSet(<<>>) = {}
  BY DEF IsInjective, ToSet
<1>. HIDE DEF s
<1>6. ASSUME NEW t \in Sessions
      PROVE  /\ IsInjective(log'[t])
             /\ \A q \in ToSet(log'[t]) : q \in Requests /\ session'[q] = t /\ Settled(q)'
  <2>1. /\ IsInjective(log[t])
        /\ \A q \in ToSet(log[t]) : q \in Requests /\ session'[q] = t /\ Settled(q)'
    BY <1>1, SettledStays DEF LogInv, Logged
  <2>2. CASE t = s
    BY <1>1, <1>3, <1>4, <2>1, <2>2 DEF s
  <2>3. CASE t # s
    BY <1>2, <1>5, <2>1, <2>3
  <2>. QED BY <2>2, <2>3
<1>7. ASSUME NEW t \in Sessions, NEW q \in Exchanges(t)', q \notin forgotten'
      PROVE  q \in ToSet(log'[t])
  <2>1. q \in Requests /\ session[q] = t /\ q \notin forgotten
    BY <1>1, <1>2, <1>7 DEF Exchanges
  <2>2. CASE q = r
    BY <1>4, <2>1, <2>2 DEF s
  <2>3. CASE q # r
    <3>1. q \in Exchanges(t)
      BY <1>1, <1>7, <2>1, <2>3 DEF Exchanges, TypeOK
    <3>2. q \in ToSet(log[t])
      BY <2>1, <3>1 DEF LogInv, Remembered
    <3>. QED BY <1>2, <1>4, <1>7, <3>2
  <2>. QED BY <2>2, <2>3
<1>. QED BY <1>6, <1>7 DEF Logged, Remembered

LEMMA BegunStays ==
  ASSUME TypeOK, [Next]_vars, IsFiniteSet(Begun)
  PROVE  IsFiniteSet(Begun')
<1>1. ASSUME NEW r \in Requests, Start(r) PROVE IsFiniteSet(Begun')
  <2>1. Begun' = Begun \cup {r}
    BY <1>1 DEF Begun, Start, TypeOK
  <2>. QED BY <2>1, FS_AddElement
<1>2. ASSUME NEW r \in Requests, Store(r) PROVE IsFiniteSet(Begun')
  <2>1. pc[r] = "storing" /\ pc' = [pc EXCEPT ![r] = "responding"]
    BY <1>2 DEF Store
  <2>2. Begun' = Begun
    BY <2>1 DEF Begun, TypeOK
  <2>. QED BY <2>2
<1>3. ASSUME NEW r \in Requests, AskReturns(r) \/ Respond(r) PROVE IsFiniteSet(Begun')
  <2>1. Begun' = Begun
    BY <1>3 DEF Begun, AskReturns, Respond, TypeOK
  <2>. QED BY <2>1
<1>4. CASE Restart
  <2>1. Begun' = Begun
    BY <1>4 DEF Begun, Restart, TypeOK
  <2>. QED BY <2>1
<1>5. CASE UNCHANGED vars
  <2>1. Begun' = Begun
    BY <1>5 DEF Begun, vars, handlers
  <2>. QED BY <2>1
<1>. QED BY <1>1, <1>2, <1>3, <1>4, <1>5 DEF Next, Over

LEMMA LogStep == LogInv /\ [Next]_vars => LogInv'
<1>. SUFFICES ASSUME LogInv, [Next]_vars PROVE LogInv'
  OBVIOUS
<1>1. OwnInv' /\ AgeInv' /\ IsFiniteSet(Begun') /\ TypeOK
  BY OwnStep, AgeStep, BegunStays DEF LogInv, OwnInv, IInv
<1>2. CASE UNCHANGED vars
  BY <1>1, <1>2 DEF vars, handlers, ghost, LogInv, Logged, Remembered, Settled, Exchanges
<1>3. ASSUME Next, UNCHANGED log PROVE Logged'
  BY <1>1, <1>3, SettledStays DEF LogInv, Logged
<1>4. ASSUME NEW r \in Requests, Start(r) PROVE LogInv'
  <2>1. UNCHANGED <<log, forgotten>> /\ Next
    BY <1>4 DEF Start, ghost, Next
  <2>2. \A s \in Sessions : Exchanges(s)' \subseteq Exchanges(s)
    BY <1>1, <1>4 DEF Start, Exchanges, TypeOK
  <2>. QED BY <1>1, <1>3, <2>1, <2>2 DEF LogInv, Remembered
<1>5. ASSUME NEW r \in Requests, AskReturns(r) PROVE LogInv'
  <2>1. UNCHANGED <<log, forgotten>> /\ Next
    BY <1>5 DEF AskReturns, ghost, Next
  <2>2. \A s \in Sessions : Exchanges(s)' \subseteq Exchanges(s)
    BY <1>1, <1>5 DEF AskReturns, Exchanges, Keep, TypeOK
  <2>. QED BY <1>1, <1>3, <2>1, <2>2 DEF LogInv, Remembered
<1>6. ASSUME NEW r \in Requests, Store(r) PROVE LogInv'
  BY <1>1, <1>6, StoreRemembers DEF LogInv
<1>7. ASSUME NEW r \in Requests, Respond(r) PROVE LogInv'
  <2>1. UNCHANGED <<log, forgotten>> /\ Next
    BY <1>7 DEF Respond, ghost, Next
  <2>2. \A s \in Sessions : Exchanges(s)' \subseteq Exchanges(s)
    BY <1>1, <1>7 DEF Respond, Exchanges, TypeOK
  <2>. QED BY <1>1, <1>3, <2>1, <2>2 DEF LogInv, Remembered
<1>8. CASE Restart
  <2>1. IsInjective(<<>>) /\ ToSet(<<>>) = {}
    BY DEF IsInjective, ToSet
  <2>2. Logged'
    BY <1>8, <2>1 DEF Restart, Logged
  <2>3. Remembered'
    BY <1>8 DEF Restart, Remembered, Exchanges
  <2>. QED BY <1>1, <2>2, <2>3 DEF LogInv
<1>. QED BY <1>2, <1>4, <1>5, <1>6, <1>7, <1>8 DEF Next, Over

\* A handler reads the history when its request begins.
LEMMA OnlyStartAsks ==
  ASSUME TypeOK, [Next]_vars, NEW r \in Requests, pc[r] = "idle", pc'[r] = "asking"
  PROVE  Start(r)
<1>1. ASSUME NEW q \in Requests, Start(q) PROVE Start(r)
  BY <1>1 DEF Start, TypeOK
<1>2. ASSUME NEW q \in Requests, AskReturns(q) PROVE Start(r)
  BY <1>2 DEF AskReturns, TypeOK
<1>3. ASSUME NEW q \in Requests, Store(q) PROVE Start(r)
  <2>1. pc' = [pc EXCEPT ![q] = "responding"]
    BY <1>3 DEF Store
  <2>. QED BY <2>1 DEF TypeOK
<1>4. ASSUME NEW q \in Requests, Respond(q) PROVE Start(r)
  BY <1>4 DEF Respond, TypeOK
<1>5. CASE Restart
  BY <1>5 DEF Restart
<1>6. CASE UNCHANGED vars
  BY <1>6 DEF vars, handlers
<1>. QED BY <1>1, <1>2, <1>3, <1>4, <1>5, <1>6 DEF Next, Over

\* A list without repetition has as many members as its length.
LEMMA DistinctCount ==
  ASSUME NEW seq \in Seq(Requests), IsInjective(seq)
  PROVE  IsFiniteSet(ToSet(seq)) /\ Cardinality(ToSet(seq)) = Len(seq)
<1>1. DOMAIN seq = 1..Len(seq) /\ Len(seq) \in Nat
  OBVIOUS
<1>2. seq \in Bijection(1..Len(seq), ToSet(seq))
  <2>1. seq \in [1..Len(seq) -> ToSet(seq)]
    BY <1>1 DEF ToSet
  <2>. QED BY <1>1, <2>1 DEF Bijection, Injection, Surjection, IsInjective, ToSet
<1>3. ExistsBijection(1..Len(seq), ToSet(seq))
  BY <1>2 DEF ExistsBijection
<1>. QED BY <1>1, <1>3, FS_NatBijection, FS_CountingElements

\* A request whose exchange is not in the context of a follow-up was pushed out of it.
LEMMA PushedOut ==
  ASSUME LogInv, NEW s \in Sessions, NEW q \in ToSet(log[s]), q \notin ToSet(LastTurns(log[s]))
  PROVE  Cardinality(Exchanges(s) \ {q}) >= MaxTurns
<1>. DEFINE short == LastTurns(log[s])
            others == Exchanges(s) \ {q}
<1>1. log[s] \in Seq(Requests) /\ IsInjective(log[s])
  BY DEF LogInv, OwnInv, IInv, TypeOK, Logged
<1>2. Len(short) = MaxTurns
  <2>1. /\ short \in Seq(Requests) /\ Len(short) \in Nat
        /\ Len(log[s]) > MaxTurns => Len(short) = MaxTurns
        /\ Len(log[s]) <= MaxTurns => Len(short) = Len(log[s])
        /\ \A i \in 1..Len(short) : short[i] = log[s][Len(log[s]) - Len(short) + i]
    BY <1>1, SliceIs
  <2>2. CASE Len(log[s]) <= MaxTurns
    <3>1. PICK i \in DOMAIN log[s] : log[s][i] = q
      BY DEF ToSet
    <3>2. i \in 1..Len(log[s])
      BY <1>1, <3>1
    <3>. HIDE DEF short
    <3>3. i \in 1..Len(short) /\ short[i] = q
      BY <1>1, <2>1, <2>2, <3>1, <3>2
    <3>4. q \in ToSet(short)
      BY <2>1, <3>3 DEF ToSet
    <3>. QED BY <3>4 DEF short
  <2>. QED BY <1>1, <2>1, <2>2, SizesAssumption
<1>3. short \in Seq(Requests) /\ IsInjective(short) /\ ToSet(short) \subseteq ToSet(log[s])
  BY <1>1, SliceOfDistinct, LastTurnsIsTurns
<1>4. Cardinality(ToSet(short)) = MaxTurns
  BY <1>2, <1>3, DistinctCount
<1>5. ToSet(short) \subseteq others
  <2>1. \A x \in ToSet(log[s]) : x \in Exchanges(s)
    BY DEF LogInv, Logged, Settled, Exchanges
  <2>. QED BY <1>3, <2>1
<1>6. IsFiniteSet(others)
  <2>1. others \subseteq Begun
    BY DEF Exchanges, Begun
  <2>2. IsFiniteSet(Begun)
    BY DEF LogInv
  <2>. QED BY <2>1, <2>2, FS_Subset
<1>. HIDE DEF short, others
<1>7. Cardinality(ToSet(short)) <= Cardinality(others)
  BY <1>5, <1>6, FS_Subset
<1>8. Cardinality(others) \in Nat
  BY <1>6, FS_CardinalityType
<1>9. Cardinality(others) >= MaxTurns
  BY <1>4, <1>7, <1>8, SizesAssumption
<1>. QED BY <1>9 DEF others

\* main.py:152: a question asked after the answer to another, or a question back, came is asked
\* with that exchange in its context, unless its session was dropped since, or MaxTurns others
\* of the session have pushed it out: a turn is stored before its response is sent.
THEOREM FollowUpsHaveContext == Spec => FollowUpHasContext
<1>. DEFINE Follows ==
              \A r, q \in Requests :
                /\ pc[r] = "idle" /\ pc'[r] = "asking"
                /\ pc[q] = "done" /\ q \in Exchanges(session'[r]) \ forgotten
                => \/ q \in ToSet(history'[r])
                   \/ Cardinality(Exchanges(session'[r]) \ {q}) >= MaxTurns
<1>1. ASSUME LogInv, [Next]_vars, NEW r \in Requests, NEW q \in Requests,
             pc[r] = "idle", pc'[r] = "asking",
             pc[q] = "done", q \in Exchanges(session'[r]) \ forgotten
      PROVE  \/ q \in ToSet(history'[r])
             \/ Cardinality(Exchanges(session'[r]) \ {q}) >= MaxTurns
  <2>1. TypeOK /\ NoTurnLost
    BY <1>1 DEF LogInv, OwnInv, IInv
  <2>2. Start(r)
    BY <1>1, <2>1, OnlyStartAsks
  <2>3. PICK s \in Sessions : session'[r] = s /\ history'[r] = LastTurns(turns[s])
    BY <2>1, <2>2 DEF Start, TypeOK
  <2>4. history'[r] = LastTurns(log[s])
    <3>1. log[s] \in Seq(Requests) /\ turns[s] = LastTurns(log[s])
      BY <2>1 DEF TypeOK, NoTurnLost
    <3>. QED BY <2>3, <3>1, SliceTwice
  <2>5. q \in ToSet(log[s])
    BY <1>1, <2>3 DEF LogInv, Remembered
  <2>6. CASE q \in ToSet(LastTurns(log[s]))
    BY <2>4, <2>6
  <2>7. CASE q \notin ToSet(LastTurns(log[s]))
    <3>1. Cardinality(Exchanges(s) \ {q}) >= MaxTurns
      BY <1>1, <2>5, <2>7, PushedOut
    <3>. QED BY <2>3, <3>1
  <2>. QED BY <2>6, <2>7
<1>2. LogInv /\ [Next]_vars => [Follows]_vars
  BY <1>1
<1>3. Spec => [][Follows]_vars
  BY <1>2, LogInit, LogStep, PTL DEF Spec
<1>. QED BY <1>3 DEF FollowUpHasContext

-----------------------------------------------------------------------------
(* The page: whose session a question goes to. *)

PageTypes ==
  /\ sessionId \in [Pages -> Sessions \cup {None}]
  /\ busy \in [Pages -> Requests \cup {None}]
  /\ dialog \in [Pages -> Seq(Requests)]
  /\ net \in [Requests -> {"unsent", "sent", "arrived", "answered", "rejected"}]
  /\ posted \in [Requests -> Sessions \cup {None}]
  /\ mine \in [Pages -> SUBSET Requests] /\ broken \in [Pages -> BOOLEAN]

\* A request has a handler, and the session it names or a new one, once its message arrived.
Delivered ==
  \A r \in Requests :
    /\ net[r] \in {"unsent", "sent", "rejected"} <=> pc[r] = "idle"
    /\ session[r] # None <=> pc[r] # "idle"
    /\ net[r] = "answered" => pc[r] = "done"
    /\ net[r] = "unsent" => posted[r] = None
    /\ session[r] # None /\ posted[r] # None => session[r] = posted[r]

\* A request is posted by one page, and a page waits for one of its own.
Owners ==
  \A p \in Pages :
    /\ \A q \in mine[p] : net[q] # "unsent"
    /\ \A o \in Pages \ {p} : mine[p] \cap mine[o] = {}
    /\ busy[p] # None => busy[p] \in mine[p] /\ posted[busy[p]] = sessionId[p]

\* The session id a page holds is that of a request of its own, and a request was posted with
\* the session id of an earlier one of the same page.
Held ==
  /\ \A p \in Pages : sessionId[p] # None => \E q \in mine[p] : session[q] = sessionId[p]
  /\ \A q \in Requests : posted[q] # None =>
       \E x \in Requests : session[x] = posted[q] /\ \A p \in Pages : q \in mine[p] => x \in mine[p]

\* No page's session is asked for by another page, nor by the same page before it was loaded.
OnePage ==
  \A p \in Pages : \A q \in mine[p], x \in Requests :
    session[q] # None /\ session[q] \in {session[x], posted[x]} => x \in mine[p]

PageInv == LogInv /\ PageTypes /\ Delivered /\ Owners /\ Held /\ OnePage

\* What the page shows is what its session was told, as long as nothing broke: the questions
\* it does not wait for are over, and its session's turns are the dialog it shows and, once
\* it is stored, the question it waits for.
Current(p) == IF sessionId[p] # None \/ busy[p] = None THEN sessionId[p] ELSE session[busy[p]]

Told(p) ==
  IF busy[p] # None /\ Settled(busy[p]) THEN Append(dialog[p], busy[p]) ELSE dialog[p]

Calm(p) == ~broken[p] /\ restarts = 0 /\ forgotten = {}

InStep(p) ==
  /\ \A q \in mine[p] \ {busy[p]} :
       \/ net[q] = "rejected"
       \/ net[q] = "answered" /\ session[q] = sessionId[p]
  /\ sessionId[p] = None => dialog[p] = <<>>
  /\ Current(p) # None => log[Current(p)] = Told(p)
  /\ busy[p] # None /\ session[busy[p]] # None => history[busy[p]] = LastTurns(dialog[p])

TalkInv == PageInv /\ \A p \in Pages : Calm(p) => InStep(p)

\* A step of the page, the network and the server is one of the server's, or none of it.
LEMMA PageStepsServer == [PNext]_pvars => [Next]_vars
<1>1. ASSUME NEW p \in Pages, Send(p) \/ Receive(p) \/ Rejected(p) \/ FetchFails(p) \/ Reload(p)
      PROVE  UNCHANGED vars
  BY <1>1 DEF Send, Receive, Rejected, FetchFails, Reload
<1>2. ASSUME NEW r \in Requests, Arrive(r) \/ Handle(r) \/ Answer(r) PROVE Next
  BY <1>2 DEF Arrive, Handle, Answer, Next
<1>3. ServerRestarts => Next
  BY DEF ServerRestarts, Next
<1>4. Quiet \/ UNCHANGED pvars => UNCHANGED vars
  BY DEF Quiet, pvars
<1>. QED BY <1>1, <1>2, <1>3, <1>4 DEF PNext

LEMMA PageInit == PInit => PageInv /\ \A p \in Pages : InStep(p)
<1>. SUFFICES ASSUME PInit PROVE PageInv /\ \A p \in Pages : InStep(p)
  OBVIOUS
<1>1. LogInv
  BY LogInit DEF PInit
<1>2. /\ sessionId = [p \in Pages |-> None] /\ busy = [p \in Pages |-> None]
      /\ dialog = [p \in Pages |-> <<>>] /\ net = [r \in Requests |-> "unsent"]
      /\ posted = [r \in Requests |-> None]
      /\ mine = [p \in Pages |-> {}] /\ broken = [p \in Pages |-> FALSE]
      /\ pc = [r \in Requests |-> "idle"] /\ session = [r \in Requests |-> None]
  BY DEF PInit, Init
<1>3. <<>> \in Seq(Requests)
  OBVIOUS
<1>4. PageTypes
  BY <1>2, <1>3 DEF PageTypes
<1>5. Delivered /\ Owners /\ Held /\ OnePage
  BY <1>2 DEF Delivered, Owners, Held, OnePage
<1>6. \A p \in Pages : InStep(p)
  BY <1>2 DEF InStep, Current
<1>. QED BY <1>1, <1>4, <1>5, <1>6 DEF PageInv

\* The page posts a question that was not asked before.
LEMMA SendPosts ==
  ASSUME PageTypes, NEW p \in Pages, Send(p)
  PROVE  \E r \in Requests :
           /\ busy[p] = None /\ net[r] = "unsent"
           /\ busy' = [busy EXCEPT ![p] = r] /\ net' = [net EXCEPT ![r] = "sent"]
           /\ posted' = [posted EXCEPT ![r] = sessionId[p]]
           /\ mine' = [mine EXCEPT ![p] = @ \cup {r}]
<1>. DEFINE r == CHOOSE x \in Unsent : TRUE
<1>1. r \in Unsent
  BY DEF Send
<1>2. r \in Requests /\ net[r] = "unsent"
  BY <1>1 DEF Unsent
<1>. QED BY <1>2 DEF Send, Ready

LEMMA SendKeepsPage ==
  ASSUME PageInv, NEW p \in Pages, Send(p)
  PROVE  PageTypes' /\ Delivered' /\ Owners' /\ Held' /\ OnePage'
<1>1. /\ PageTypes /\ Delivered /\ Owners /\ Held /\ OnePage
      /\ UNCHANGED <<pc, session, sessionId, dialog, broken>>
  BY DEF PageInv, Send, vars, handlers
<1>2. PICK r \in Requests :
           /\ busy[p] = None /\ net[r] = "unsent"
           /\ busy' = [busy EXCEPT ![p] = r] /\ net' = [net EXCEPT ![r] = "sent"]
           /\ posted' = [posted EXCEPT ![r] = sessionId[p]]
           /\ mine' = [mine EXCEPT ![p] = @ \cup {r}]
  BY <1>1, SendPosts, Zenon
<1>3. /\ session[r] = None /\ pc[r] = "idle" /\ posted[r] = None
      /\ \A o \in Pages : r \notin mine[o]
      /\ r # None
  BY <1>1, <1>2, NoRequestAssumption DEF Delivered, Owners
<1>4. /\ mine'[p] = mine[p] \cup {r} /\ \A o \in Pages \ {p} : mine'[o] = mine[o]
      /\ posted'[r] = sessionId[p] /\ \A x \in Requests \ {r} : posted'[x] = posted[x]
      /\ busy'[p] = r /\ \A o \in Pages \ {p} : busy'[o] = busy[o]
      /\ net'[r] = "sent" /\ \A x \in Requests \ {r} : net'[x] = net[x]
  BY <1>1, <1>2 DEF PageTypes
<1>5. PageTypes'
  BY <1>1, <1>2 DEF PageTypes
<1>6. Delivered'
  BY <1>1, <1>3, <1>4 DEF Delivered
<1>7. Owners'
  <2>1. ASSUME NEW o \in Pages, NEW q \in mine'[o] PROVE net'[q] # "unsent"
    BY <1>1, <1>2, <1>4, <2>1 DEF Owners, PageTypes
  <2>2. ASSUME NEW o \in Pages, NEW u \in Pages \ {o} PROVE mine'[o] \cap mine'[u] = {}
    BY <1>1, <1>3, <1>4 DEF Owners
  <2>3. ASSUME NEW o \in Pages, busy'[o] # None
        PROVE  busy'[o] \in mine'[o] /\ posted'[busy'[o]] = sessionId[o]
    <3>1. CASE o = p
      BY <1>4, <3>1
    <3>2. CASE o # p
      <4>1. busy[o] \in mine[o] /\ posted[busy[o]] = sessionId[o] /\ busy'[o] = busy[o]
        BY <1>1, <1>4, <2>3, <3>2 DEF Owners
      <4>2. busy[o] \in Requests \ {r}
        BY <1>1, <1>3, <4>1 DEF PageTypes
      <4>. QED BY <1>4, <3>2, <4>1, <4>2
    <3>. QED BY <3>1, <3>2
  <2>. QED BY <1>1, <2>1, <2>2, <2>3 DEF Owners
<1>8. Held'
  <2>1. ASSUME NEW o \in Pages, sessionId[o] # None
        PROVE  \E q \in mine'[o] : session[q] = sessionId[o]
    BY <1>1, <1>4, <2>1 DEF Held
  <2>2. ASSUME NEW q \in Requests, posted'[q] # None
        PROVE  \E x \in Requests : /\ session[x] = posted'[q]
                                   /\ \A o \in Pages : q \in mine'[o] => x \in mine'[o]
    <3>1. CASE q = r
      <4>1. PICK x \in mine[p] : session[x] = sessionId[p]
        BY <1>1, <1>4, <2>2, <3>1 DEF Held
      <4>2. x \in Requests
        BY <1>1 DEF PageTypes
      <4>. QED BY <1>3, <1>4, <3>1, <4>1, <4>2
    <3>2. CASE q # r
      <4>1. PICK x \in Requests : /\ session[x] = posted[q]
                                  /\ \A o \in Pages : q \in mine[o] => x \in mine[o]
        BY <1>1, <1>4, <2>2, <3>2 DEF Held
      <4>. QED BY <1>4, <3>2, <4>1
    <3>. QED BY <3>1, <3>2
  <2>. QED BY <1>1, <2>1, <2>2 DEF Held
<1>9. OnePage'
  <2>. SUFFICES ASSUME NEW o \in Pages, NEW q \in mine'[o], NEW x \in Requests,
                       session[q] # None, session[q] \in {session[x], posted'[x]}
                PROVE  x \in mine'[o]
    BY <1>1 DEF OnePage
  <2>1. q \in mine[o]
    BY <1>3, <1>4
  <2>2. CASE x # r
    <3>1. x \in mine[o]
      BY <1>1, <1>4, <2>1, <2>2 DEF OnePage
    <3>. QED BY <1>4, <3>1
  <2>3. CASE x = r
    <3>1. session[q] = sessionId[p]
      BY <1>3, <1>4, <2>3
    <3>2. PICK y \in mine[p] : session[y] = sessionId[p]
      BY <1>1, <3>1 DEF Held
    <3>3. y \in mine[o]
      BY <1>1, <2>1, <3>1, <3>2 DEF OnePage, PageTypes
    <3>4. o = p
      BY <1>1, <3>2, <3>3 DEF Owners
    <3>. QED BY <1>4, <2>3, <3>4
  <2>. QED BY <2>2, <2>3
<1>. QED BY <1>5, <1>6, <1>7, <1>8, <1>9

\* The page's own session id changes only to that of the question it waited for.
LEMMA ReceiveKeepsPage ==
  ASSUME PageInv, NEW p \in Pages, Receive(p)
  PROVE  PageTypes' /\ Delivered' /\ Owners' /\ Held' /\ OnePage'
<1>. DEFINE r == busy[p]
<1>1. /\ PageTypes /\ Delivered /\ Owners /\ Held /\ OnePage
      /\ UNCHANGED <<pc, session, net, posted, mine, broken>>
  BY DEF PageInv, Receive, vars, handlers
<1>2. /\ r # None /\ net[r] = "answered"
      /\ sessionId' = [sessionId EXCEPT ![p] = session[r]]
      /\ busy' = [busy EXCEPT ![p] = None]
  BY DEF Receive, IdReceived, BusyAfter, Ready
<1>3. r \in Requests /\ r \in mine[p]
  BY <1>1, <1>2 DEF Owners, PageTypes
<1>4. session[r] \in Sessions
  <2>1. session[r] # None
    BY <1>1, <1>2, <1>3 DEF Delivered
  <2>. QED BY <1>3, <2>1 DEF PageInv, LogInv, OwnInv, IInv, TypeOK
<1>5. dialog' \in [Pages -> Seq(Requests)]
  <2>1. dialog[p] \in Seq(Requests)
    BY <1>1 DEF PageTypes
  <2>2. Append(dialog[p], r) \in Seq(Requests)
    BY <1>3, <2>1
  <2>3. dialog' = [dialog EXCEPT ![p] = Append(dialog[p], r)] \/ dialog' = dialog
    BY DEF Receive, Show
  <2>. HIDE DEF r
  <2>. QED BY <1>1, <2>2, <2>3 DEF PageTypes
<1>. HIDE DEF r
<1>6. /\ sessionId'[p] = session[r] /\ \A o \in Pages \ {p} : sessionId'[o] = sessionId[o]
      /\ busy'[p] = None /\ \A o \in Pages \ {p} : busy'[o] = busy[o]
  BY <1>1, <1>2 DEF PageTypes
<1>7. PageTypes'
  BY <1>1, <1>2, <1>4, <1>5 DEF PageTypes
<1>8. Delivered' /\ OnePage'
  BY <1>1 DEF Delivered, OnePage
<1>9. Owners'
  BY <1>1, <1>6 DEF Owners
<1>10. Held'
  <2>1. ASSUME NEW o \in Pages, sessionId'[o] # None
        PROVE  \E q \in mine[o] : session[q] = sessionId'[o]
    BY <1>1, <1>3, <1>6, <2>1 DEF Held
  <2>. QED BY <1>1, <2>1 DEF Held
<1>. QED BY <1>7, <1>8, <1>9, <1>10

LEMMA RejectedKeepsPage ==
  ASSUME PageInv, NEW p \in Pages, Rejected(p)
  PROVE  PageTypes' /\ Delivered' /\ Owners' /\ Held' /\ OnePage'
<1>. DEFINE r == busy[p]
<1>1. /\ PageTypes /\ Delivered /\ Owners /\ Held /\ OnePage
      /\ UNCHANGED <<pc, session, sessionId, dialog, posted, mine, broken>>
  BY DEF PageInv, Rejected, vars, handlers
<1>2. /\ r # None /\ net[r] = "sent" /\ net' = [net EXCEPT ![r] = "rejected"]
      /\ busy' = [busy EXCEPT ![p] = None]
  BY DEF Rejected, BusyAfter, Ready
<1>3. r \in Requests
  BY <1>1, <1>2 DEF PageTypes
<1>. HIDE DEF r
<1>4. /\ net'[r] = "rejected" /\ \A x \in Requests \ {r} : net'[x] = net[x]
      /\ busy'[p] = None /\ \A o \in Pages \ {p} : busy'[o] = busy[o]
  BY <1>1, <1>2, <1>3 DEF PageTypes
<1>5. PageTypes'
  BY <1>1, <1>2, <1>3 DEF PageTypes
<1>6. Delivered' /\ OnePage' /\ Held'
  BY <1>1, <1>2, <1>3, <1>4 DEF Delivered, OnePage, Held
<1>7. Owners'
  BY <1>1, <1>4 DEF Owners, PageTypes
<1>. QED BY <1>5, <1>6, <1>7

LEMMA FetchFailsKeepsPage ==
  ASSUME PageInv, NEW p \in Pages, FetchFails(p)
  PROVE  PageTypes' /\ Delivered' /\ Owners' /\ Held' /\ OnePage'
<1>1. /\ PageTypes /\ Delivered /\ Owners /\ Held /\ OnePage
      /\ UNCHANGED <<pc, session, sessionId, dialog, net, posted, mine>>
      /\ busy' = [busy EXCEPT ![p] = None] /\ broken' = [broken EXCEPT ![p] = TRUE]
  BY DEF PageInv, FetchFails, BusyAfter, vars, handlers
<1>2. busy'[p] = None /\ \A o \in Pages \ {p} : busy'[o] = busy[o]
  BY <1>1 DEF PageTypes
<1>3. PageTypes'
  BY <1>1 DEF PageTypes
<1>4. Delivered' /\ OnePage' /\ Held'
  BY <1>1 DEF Delivered, OnePage, Held
<1>5. Owners'
  BY <1>1, <1>2 DEF Owners
<1>. QED BY <1>3, <1>4, <1>5

LEMMA ReloadKeepsPage ==
  ASSUME PageInv, NEW p \in Pages, Reload(p)
  PROVE  PageTypes' /\ Delivered' /\ Owners' /\ Held' /\ OnePage'
<1>1. /\ PageTypes /\ Delivered /\ Owners /\ Held /\ OnePage
      /\ UNCHANGED <<pc, session, net, posted>>
      /\ sessionId' = [sessionId EXCEPT ![p] = None] /\ busy' = [busy EXCEPT ![p] = None]
      /\ dialog' = [dialog EXCEPT ![p] = <<>>]
      /\ mine' = [mine EXCEPT ![p] = {}] /\ broken' = [broken EXCEPT ![p] = FALSE]
  BY DEF PageInv, Reload, vars, handlers
<1>2. <<>> \in Seq(Requests)
  OBVIOUS
<1>3. /\ busy'[p] = None /\ \A o \in Pages \ {p} : busy'[o] = busy[o]
      /\ sessionId'[p] = None /\ \A o \in Pages \ {p} : sessionId'[o] = sessionId[o]
      /\ mine'[p] = {} /\ \A o \in Pages \ {p} : mine'[o] = mine[o]
  BY <1>1 DEF PageTypes
<1>4. PageTypes'
  BY <1>1, <1>2 DEF PageTypes
<1>5. Delivered'
  BY <1>1 DEF Delivered
<1>6. Owners' /\ OnePage'
  BY <1>1, <1>3 DEF Owners, OnePage
<1>7. Held'
  BY <1>1, <1>3 DEF Held
<1>. QED BY <1>4, <1>5, <1>6, <1>7

\* A message that arrives goes to its session, or to one that no request has named.
LEMMA ArriveStarts ==
  ASSUME PageInv, NEW r \in Requests, Arrive(r)
  PROVE  \E s \in Sessions :
           /\ net[r] = "sent" /\ pc[r] = "idle" /\ session[r] = None
           /\ session' = [session EXCEPT ![r] = s] /\ pc' = [pc EXCEPT ![r] = "asking"]
           /\ history' = [history EXCEPT ![r] = LastTurns(turns[s])]
           /\ net' = [net EXCEPT ![r] = "arrived"]
           /\ posted[r] # None => s = posted[r]
           /\ posted[r] = None => \A q \in Requests : session[q] # s
<1>1. PICK s \in Sessions : /\ session' = [session EXCEPT ![r] = s]
                            /\ history' = [history EXCEPT ![r] = LastTurns(turns[s])]
  BY DEF Arrive, Start
<1>2. /\ net[r] = "sent" /\ pc[r] = "idle" /\ pc' = [pc EXCEPT ![r] = "asking"]
      /\ net' = [net EXCEPT ![r] = "arrived"]
      /\ session'[r] = IF posted[r] = None THEN FreshId ELSE posted[r]
      /\ posted[r] = None => Unused # {}
  BY DEF Arrive, Start
<1>3. session'[r] = s /\ session[r] = None
  BY <1>1, <1>2 DEF PageInv, LogInv, OwnInv, IInv, TypeOK, Delivered
<1>4. ASSUME posted[r] = None PROVE \A q \in Requests : session[q] # s
  <2>1. FreshId \in Unused
    BY <1>2, <1>4 DEF FreshId
  <2>. QED BY <1>2, <1>3, <1>4, <2>1 DEF Unused
<1>. QED BY <1>1, <1>2, <1>3, <1>4

LEMMA ArriveKeepsPage ==
  ASSUME PageInv, NEW r \in Requests, Arrive(r)
  PROVE  PageTypes' /\ Delivered' /\ Owners' /\ Held' /\ OnePage'
<1>1. /\ PageTypes /\ Delivered /\ Owners /\ Held /\ OnePage /\ TypeOK
      /\ UNCHANGED <<sessionId, busy, dialog, posted, mine, broken>>
  BY DEF PageInv, Arrive, page, LogInv, OwnInv, IInv
<1>2. PICK s \in Sessions :
           /\ net[r] = "sent" /\ pc[r] = "idle" /\ session[r] = None
           /\ session' = [session EXCEPT ![r] = s] /\ pc' = [pc EXCEPT ![r] = "asking"]
           /\ history' = [history EXCEPT ![r] = LastTurns(turns[s])]
           /\ net' = [net EXCEPT ![r] = "arrived"]
           /\ posted[r] # None => s = posted[r]
           /\ posted[r] = None => \A q \in Requests : session[q] # s
  BY ArriveStarts, Zenon
<1>3. /\ net'[r] = "arrived" /\ \A x \in Requests \ {r} : net'[x] = net[x]
      /\ pc'[r] = "asking" /\ \A x \in Requests \ {r} : pc'[x] = pc[x]
      /\ session'[r] = s /\ \A x \in Requests \ {r} : session'[x] = session[x]
      /\ s # None
  BY <1>1, <1>2, NoneAssumption DEF PageTypes, TypeOK
<1>4. PageTypes'
  BY <1>1, <1>2 DEF PageTypes
<1>5. Delivered'
  BY <1>1, <1>2, <1>3 DEF Delivered
<1>6. Owners'
  BY <1>1, <1>3 DEF Owners, PageTypes
<1>7. \A x \in Requests : session[x] # None => session'[x] = session[x]
  BY <1>2, <1>3
<1>8. Held'
  <2>1. ASSUME NEW o \in Pages, sessionId[o] # None
        PROVE  \E q \in mine[o] : session'[q] = sessionId[o]
    BY <1>1, <1>7, <2>1 DEF Held, PageTypes
  <2>2. ASSUME NEW q \in Requests, posted[q] # None
        PROVE  \E x \in Requests : /\ session'[x] = posted[q]
                                   /\ \A o \in Pages : q \in mine[o] => x \in mine[o]
    BY <1>1, <1>7, <2>2 DEF Held
  <2>. QED BY <1>1, <2>1, <2>2 DEF Held
\* A new session is nobody's.
<1>9. ASSUME posted[r] = None PROVE \A x \in Requests : session[x] # s /\ posted[x] # s
  BY <1>1, <1>2, <1>3, <1>9 DEF Held
\* One that was posted is that of the page's other requests.
<1>10. ASSUME posted[r] # None
       PROVE  \E y \in Requests : /\ session[y] = s
                                  /\ \A o \in Pages : r \in mine[o] => y \in mine[o]
  BY <1>1, <1>2, <1>10 DEF Held
<1>11. OnePage'
  <2>. SUFFICES ASSUME NEW o \in Pages, NEW q \in mine[o], NEW x \in Requests,
                       session'[q] # None, session'[q] \in {session'[x], posted[x]}
                PROVE  x \in mine[o]
    BY <1>1 DEF OnePage
  <2>0. q \in Requests
    BY <1>1 DEF PageTypes
  <2>1. CASE q = r /\ x # r
    <3>1. s \in {session[x], posted[x]}
      BY <1>3, <2>1
    <3>2. PICK y \in Requests : /\ session[y] = s
                                /\ \A u \in Pages : r \in mine[u] => y \in mine[u]
      BY <1>9, <1>10, <3>1
    <3>3. y \in mine[o] /\ session[y] # None /\ session[y] \in {session[x], posted[x]}
      BY <1>3, <2>1, <3>1, <3>2
    <3>. QED BY <1>1, <3>3 DEF OnePage
  <2>2. CASE q # r /\ x = r
    <3>1. session[q] # None /\ session[q] \in {s, posted[r]}
      BY <1>3, <2>0, <2>2
    <3>2. posted[r] # None
      BY <1>2, <2>0, <3>1
    <3>3. session[q] = posted[r]
      BY <1>2, <3>1, <3>2
    <3>. QED BY <1>1, <2>2, <3>1, <3>3 DEF OnePage
  <2>3. CASE q # r /\ x # r
    BY <1>1, <1>3, <2>0, <2>3 DEF OnePage
  <2>4. CASE q = r /\ x = r
    BY <2>4
  <2>. QED BY <2>1, <2>2, <2>3, <2>4
<1>. QED BY <1>4, <1>5, <1>6, <1>8, <1>11

\* The handler goes on, answers or is lost: the page and the sessions stay.
LEMMA ServerKeepsPage ==
  ASSUME PageInv,
         UNCHANGED <<sessionId, busy, dialog, posted, mine, broken, session>>,
         PageTypes' /\ Delivered', \A q \in Requests : net'[q] = "unsent" => net[q] = "unsent"
  PROVE  Owners' /\ Held' /\ OnePage'
<1>1. PageTypes /\ Owners /\ Held /\ OnePage
  BY DEF PageInv
<1>2. Owners'
  BY <1>1 DEF Owners, PageTypes
<1>3. Held' /\ OnePage'
  BY <1>1 DEF Held, OnePage
<1>. QED BY <1>2, <1>3

LEMMA HandleKeepsPage ==
  ASSUME PageInv, NEW r \in Requests, Handle(r)
  PROVE  PageTypes' /\ Delivered' /\ Owners' /\ Held' /\ OnePage'
<1>1. PageTypes /\ Delivered /\ TypeOK
  BY DEF PageInv, LogInv, OwnInv, IInv
<1>2. /\ UNCHANGED <<sessionId, busy, dialog, net, posted, mine, broken, session>>
      /\ pc[r] \in {"asking", "storing"}
      /\ \E l \in {"storing", "responding"} : pc' = [pc EXCEPT ![r] = l]
  BY DEF Handle, AskReturns, Store, page
<1>3. \A x \in Requests \ {r} : pc'[x] = pc[x]
  BY <1>1, <1>2 DEF TypeOK
<1>4. PageTypes' /\ pc'[r] \in {"storing", "responding"}
  BY <1>1, <1>2 DEF PageTypes, TypeOK
<1>5. Delivered'
  BY <1>1, <1>2, <1>3, <1>4 DEF Delivered
<1>. QED BY <1>2, <1>4, <1>5, ServerKeepsPage

LEMMA AnswerKeepsPage ==
  ASSUME PageInv, NEW r \in Requests, Answer(r)
  PROVE  PageTypes' /\ Delivered' /\ Owners' /\ Held' /\ OnePage'
<1>1. PageTypes /\ Delivered /\ TypeOK
  BY DEF PageInv, LogInv, OwnInv, IInv
<1>2. /\ UNCHANGED <<sessionId, busy, dialog, posted, mine, broken, session>>
      /\ pc[r] = "responding" /\ pc' = [pc EXCEPT ![r] = "done"]
      /\ net' = [net EXCEPT ![r] = "answered"]
  BY DEF Answer, Respond, page
<1>3. /\ pc'[r] = "done" /\ \A x \in Requests \ {r} : pc'[x] = pc[x]
      /\ net'[r] = "answered" /\ \A x \in Requests \ {r} : net'[x] = net[x]
  BY <1>1, <1>2 DEF TypeOK, PageTypes
<1>4. PageTypes'
  BY <1>1, <1>2 DEF PageTypes
<1>5. Delivered'
  BY <1>1, <1>2, <1>3 DEF Delivered
<1>6. \A q \in Requests : net'[q] = "unsent" => net[q] = "unsent"
  BY <1>3
<1>. QED BY <1>2, <1>4, <1>5, <1>6, ServerKeepsPage

LEMMA RestartKeepsPage ==
  ASSUME PageInv, ServerRestarts
  PROVE  PageTypes' /\ Delivered' /\ Owners' /\ Held' /\ OnePage'
<1>1. PageTypes /\ Delivered /\ TypeOK
  BY DEF PageInv, LogInv, OwnInv, IInv
<1>2. /\ UNCHANGED <<sessionId, busy, dialog, net, posted, mine, broken, session>>
      /\ pc' = [r \in Requests |-> IF pc[r] = "idle" THEN "idle" ELSE "done"]
  BY DEF ServerRestarts, Restart, page
<1>3. PageTypes'
  BY <1>1, <1>2 DEF PageTypes
<1>4. Delivered'
  BY <1>1, <1>2 DEF Delivered
<1>. QED BY <1>2, <1>3, <1>4, ServerKeepsPage

LEMMA PageStep == PageInv /\ [PNext]_pvars => PageInv'
<1>. SUFFICES ASSUME PageInv, [PNext]_pvars PROVE PageInv'
  OBVIOUS
<1>1. LogInv'
  BY PageStepsServer, LogStep DEF PageInv
<1>2. CASE Quiet \/ UNCHANGED pvars
  <2>1. UNCHANGED <<pc, session, sessionId, busy, dialog, net, posted, mine, broken>>
    BY <1>2 DEF Quiet, pvars, vars, handlers, page
  <2>2. PageTypes' /\ Delivered'
    BY <2>1 DEF PageInv, PageTypes, Delivered
  <2>. QED BY <1>1, <2>1, <2>2, ServerKeepsPage DEF PageInv
<1>3. ASSUME NEW p \in Pages, Send(p) \/ Receive(p) \/ Rejected(p) \/ FetchFails(p) \/ Reload(p)
      PROVE  PageInv'
  BY <1>1, <1>3, SendKeepsPage, ReceiveKeepsPage, RejectedKeepsPage, FetchFailsKeepsPage,
     ReloadKeepsPage DEF PageInv
<1>4. ASSUME NEW r \in Requests, Arrive(r) \/ Handle(r) \/ Answer(r) PROVE PageInv'
  BY <1>1, <1>4, ArriveKeepsPage, HandleKeepsPage, AnswerKeepsPage DEF PageInv
<1>5. CASE ServerRestarts
  BY <1>1, <1>5, RestartKeepsPage DEF PageInv
<1>. QED BY <1>2, <1>3, <1>4, <1>5 DEF PNext

-----------------------------------------------------------------------------
(* The page: that it shows what its session was told. *)

\* A session a page holds or waits for is that of a request of its own.
LEMMA CurrentIsOwn ==
  ASSUME PageInv, NEW p \in Pages, Current(p) # None
  PROVE  /\ \E q \in mine[p] : session[q] = Current(p)
         /\ Current(p) \in Sessions
         /\ busy[p] # None /\ session[busy[p]] # None => session[busy[p]] = Current(p)
<1>1. PageTypes /\ Delivered /\ Owners /\ Held /\ TypeOK
  BY DEF PageInv, LogInv, OwnInv, IInv
<1>2. PICK q \in mine[p] : session[q] = Current(p)
  <2>1. CASE sessionId[p] # None
    BY <1>1, <2>1 DEF Current, Held
  <2>2. CASE sessionId[p] = None
    BY <1>1, <2>2 DEF Current, Owners
  <2>. QED BY <2>1, <2>2
<1>3. Current(p) \in Sessions
  BY <1>1, <1>2 DEF PageTypes, TypeOK
<1>4. busy[p] # None /\ session[busy[p]] # None => session[busy[p]] = Current(p)
  BY <1>1 DEF Current, Owners, Delivered, PageTypes
<1>. QED BY <1>2, <1>3, <1>4

\* A request that is under way and not the one its page waits for is of another page.
LEMMA NotMine ==
  ASSUME PageInv, NEW p \in Pages, InStep(p), NEW r \in Requests, r # busy[p],
         pc[r] \in {"asking", "storing", "responding"} \/ net[r] \in {"unsent", "sent"}
  PROVE  r \notin mine[p]
BY DEF InStep, PageInv, Delivered

\* Nor is its session the page's.
LEMMA NotMySession ==
  ASSUME PageInv, NEW p \in Pages, InStep(p), NEW r \in Requests, r # busy[p],
         pc[r] \in {"asking", "storing", "responding"}, Current(p) # None
  PROVE  session[r] # Current(p)
<1>1. r \notin mine[p]
  BY NotMine
<1>2. PICK q \in mine[p] : session[q] = Current(p)
  BY CurrentIsOwn
<1>. QED BY <1>1, <1>2 DEF PageInv, OnePage

\* What InStep says of a page depends on these alone.
LEMMA SameInStep ==
  ASSUME PageInv, NEW p \in Pages, InStep(p),
         mine'[p] = mine[p], busy'[p] = busy[p], sessionId'[p] = sessionId[p],
         dialog'[p] = dialog[p],
         \A q \in mine[p] : session'[q] = session[q] /\ history'[q] = history[q],
         \A q \in mine[p] \ {busy[p]} : net'[q] = net[q],
         busy[p] # None => Settled(busy[p])' = Settled(busy[p]),
         Current(p) # None => log'[Current(p)] = log[Current(p)]
  PROVE  InStep(p)'
<1>1. Owners
  BY DEF PageInv
<1>2. busy[p] # None => busy[p] \in mine[p]
  BY <1>1 DEF Owners
<1>3. Current(p)' = Current(p)
  BY <1>2 DEF Current
<1>4. Told(p)' = Told(p)
  BY <1>2 DEF Told
<1>5. /\ \A q \in mine'[p] \ {busy'[p]} :
           \/ net'[q] = "rejected"
           \/ net'[q] = "answered" /\ session'[q] = sessionId'[p]
      /\ sessionId'[p] = None => dialog'[p] = <<>>
  BY DEF InStep
<1>6. Current(p)' # None => log'[Current(p)'] = Told(p)'
  BY <1>3, <1>4 DEF InStep
<1>7. busy'[p] # None /\ session'[busy'[p]] # None =>
        history'[busy'[p]] = LastTurns(dialog'[p])
  <2>. SUFFICES ASSUME busy'[p] # None, session'[busy'[p]] # None
                PROVE  history'[busy'[p]] = LastTurns(dialog'[p])
    OBVIOUS
  <2>1. /\ busy'[p] = busy[p] /\ session'[busy[p]] = session[busy[p]]
        /\ history'[busy[p]] = history[busy[p]] /\ dialog'[p] = dialog[p]
    BY <1>2
  <2>2. history[busy[p]] = LastTurns(dialog[p])
    BY <2>1 DEF InStep
  <2>. QED BY <2>1, <2>2
<1>. QED BY <1>5, <1>6, <1>7 DEF InStep

LEMMA SendInStep ==
  ASSUME PageInv, NEW o \in Pages, Send(o), NEW p \in Pages, InStep(p)
  PROVE  InStep(p)'
<1>1. /\ PageTypes /\ Delivered /\ Owners /\ Held
      /\ UNCHANGED <<pc, session, history, outcome, log, sessionId, dialog>>
  BY DEF PageInv, Send, vars, handlers, ghost
<1>2. PICK r \in Requests :
           /\ busy[o] = None /\ net[r] = "unsent"
           /\ busy' = [busy EXCEPT ![o] = r] /\ net' = [net EXCEPT ![r] = "sent"]
           /\ posted' = [posted EXCEPT ![r] = sessionId[o]]
           /\ mine' = [mine EXCEPT ![o] = @ \cup {r}]
  BY <1>1, SendPosts, Zenon
<1>3. /\ session[r] = None /\ pc[r] = "idle" /\ r # None
      /\ \A u \in Pages : r \notin mine[u]
  BY <1>1, <1>2, NoRequestAssumption DEF Delivered, Owners
<1>4. \A x \in Requests \ {r} : net'[x] = net[x]
  BY <1>1, <1>2 DEF PageTypes
<1>5. CASE p = o
  <2>1. mine'[p] = mine[p] \cup {r} /\ busy'[p] = r
    BY <1>1, <1>2, <1>5 DEF PageTypes
  <2>2. \A q \in mine'[p] \ {busy'[p]} :
           \/ net'[q] = "rejected"
           \/ net'[q] = "answered" /\ session[q] = sessionId[p]
    <3>1. \A q \in mine'[p] \ {busy'[p]} : q \in mine[p] \ {busy[p]} /\ net'[q] = net[q]
      BY <1>1, <1>2, <1>4, <1>5, <2>1, NoRequestAssumption DEF PageTypes
    <3>. QED BY <3>1 DEF InStep
  <2>3. ~Settled(r)' /\ Told(p)' = dialog[p] /\ Told(p) = dialog[p]
    BY <1>1, <1>2, <1>3, <1>5, <2>1 DEF Settled, Told
  <2>4. Current(p)' = Current(p)
    BY <1>1, <1>2, <1>3, <1>5, <2>1 DEF Current
  <2>5. sessionId'[p] = None => dialog'[p] = <<>>
    BY <1>1 DEF InStep
  <2>6. Current(p)' # None => log'[Current(p)'] = Told(p)'
    BY <1>1, <2>3, <2>4 DEF InStep
  <2>7. session'[busy'[p]] = None
    BY <1>1, <1>3, <2>1
  <2>. QED BY <1>1, <2>2, <2>5, <2>6, <2>7 DEF InStep
<1>6. CASE p # o
  <2>1. mine'[p] = mine[p] /\ busy'[p] = busy[p]
    BY <1>1, <1>2, <1>6 DEF PageTypes
  <2>2. \A q \in mine[p] : net'[q] = net[q]
    BY <1>1, <1>3, <1>4 DEF PageTypes
  <2>3. Settled(busy[p])' = Settled(busy[p])
    BY <1>1, <2>1 DEF Settled
  <2>. QED BY <1>1, <2>1, <2>2, <2>3, SameInStep
<1>. QED BY <1>5, <1>6

LEMMA ReceiveInStep ==
  ASSUME PageInv, NEW o \in Pages, Receive(o), NEW p \in Pages, InStep(p)
  PROVE  InStep(p)'
<1>. DEFINE r == busy[o]
<1>1. /\ PageTypes /\ Delivered /\ Owners /\ Held
      /\ UNCHANGED <<pc, session, history, outcome, log, net, posted, mine>>
  BY DEF PageInv, Receive, vars, handlers, ghost
<1>2. /\ r # None /\ net[r] = "answered"
      /\ sessionId' = [sessionId EXCEPT ![o] = session[r]]
      /\ busy' = [busy EXCEPT ![o] = None]
      /\ dialog' = IF outcome[r] \in {"answered", "clarify"}
                   THEN [dialog EXCEPT ![o] = Append(@, r)] ELSE dialog
  BY DEF Receive, IdReceived, BusyAfter, Ready, Show
<1>3. r \in Requests /\ r \in mine[o]
  BY <1>1, <1>2 DEF Owners, PageTypes
<1>4. pc[r] = "done" /\ session[r] # None /\ posted[r] = sessionId[o]
  BY <1>1, <1>2, <1>3 DEF Delivered, Owners
<1>5. sessionId[o] # None => session[r] = sessionId[o]
  BY <1>1, <1>3, <1>4 DEF Delivered
<1>6. CASE p = o
  <2>1. sessionId'[p] = session[r] /\ busy'[p] = None
    BY <1>1, <1>2, <1>6 DEF PageTypes
  <2>2. dialog'[p] = Told(p)
    BY <1>1, <1>2, <1>4, <1>6 DEF PageTypes, Told, Settled
  <2>3. Current(p) = session[r] /\ Current(p)' = session[r]
    BY <1>1, <1>2, <1>4, <1>5, <1>6, <2>1 DEF Current
  <2>4. Told(p)' = dialog'[p]
    BY <2>1 DEF Told
  <2>5. \A q \in mine'[p] \ {busy'[p]} :
          \/ net'[q] = "rejected"
          \/ net'[q] = "answered" /\ session'[q] = sessionId'[p]
    <3>. SUFFICES ASSUME NEW q \in mine[p], net[q] # "rejected"
                  PROVE  net[q] = "answered" /\ session[q] = session[r]
      BY <1>1, <2>1
    <3>1. CASE q = r
      BY <1>2, <3>1
    <3>2. CASE q # r
      <4>1. net[q] = "answered" /\ session[q] = sessionId[p]
        BY <1>6, <3>2 DEF InStep
      <4>2. session[q] # None
        BY <1>1, <4>1 DEF Delivered, PageTypes
      <4>. QED BY <1>5, <1>6, <4>1, <4>2
    <3>. QED BY <3>1, <3>2
  <2>6. Current(p)' # None => log'[Current(p)'] = Told(p)'
    BY <1>1, <1>4, <2>2, <2>3, <2>4 DEF InStep
  <2>. QED BY <1>4, <2>1, <2>5, <2>6 DEF InStep
<1>7. CASE p # o
  <2>1. sessionId'[p] = sessionId[p] /\ busy'[p] = busy[p] /\ dialog'[p] = dialog[p]
    BY <1>1, <1>2, <1>7 DEF PageTypes
  <2>2. Settled(busy[p])' = Settled(busy[p])
    BY <1>1, <2>1 DEF Settled
  <2>. QED BY <1>1, <2>1, <2>2, SameInStep
<1>. QED BY <1>6, <1>7

LEMMA RejectedInStep ==
  ASSUME PageInv, NEW o \in Pages, Rejected(o), NEW p \in Pages, InStep(p)
  PROVE  InStep(p)'
<1>. DEFINE r == busy[o]
<1>1. /\ PageTypes /\ Delivered /\ Owners
      /\ UNCHANGED <<pc, session, history, outcome, log, sessionId, dialog, mine>>
  BY DEF PageInv, Rejected, vars, handlers, ghost
<1>2. /\ r # None /\ net[r] = "sent" /\ net' = [net EXCEPT ![r] = "rejected"]
      /\ busy' = [busy EXCEPT ![o] = None]
  BY DEF Rejected, BusyAfter, Ready
<1>3. r \in Requests /\ r \in mine[o] /\ pc[r] = "idle" /\ session[r] = None
  BY <1>1, <1>2 DEF Owners, PageTypes, Delivered
<1>4. net'[r] = "rejected" /\ \A x \in Requests \ {r} : net'[x] = net[x]
  BY <1>1, <1>2, <1>3 DEF PageTypes
<1>5. CASE p = o
  <2>1. busy'[p] = None
    BY <1>1, <1>2, <1>5 DEF PageTypes
  <2>2. Told(p)' = dialog[p] /\ Told(p) = dialog[p]
    BY <1>1, <1>3, <1>5, <2>1 DEF Told, Settled
  <2>3. Current(p)' = Current(p)
    BY <1>1, <1>3, <1>5, <2>1 DEF Current
  <2>4. \A q \in mine'[p] \ {busy'[p]} :
          \/ net'[q] = "rejected"
          \/ net'[q] = "answered" /\ session'[q] = sessionId'[p]
    <3>. SUFFICES ASSUME NEW q \in mine[p], net'[q] # "rejected"
                  PROVE  net'[q] = "answered" /\ session[q] = sessionId[p]
      BY <1>1
    <3>1. q \in Requests \ {r}
      BY <1>1, <1>4 DEF PageTypes
    <3>. QED BY <1>4, <1>5, <3>1 DEF InStep
  <2>5. Current(p)' # None => log'[Current(p)'] = Told(p)'
    BY <1>1, <2>2, <2>3 DEF InStep
  <2>6. sessionId'[p] = None => dialog'[p] = <<>>
    BY <1>1 DEF InStep
  <2>. QED BY <2>1, <2>4, <2>5, <2>6 DEF InStep
<1>6. CASE p # o
  <2>1. busy'[p] = busy[p]
    BY <1>1, <1>2, <1>6 DEF PageTypes
  <2>2. \A q \in mine[p] : net'[q] = net[q]
    BY <1>1, <1>3, <1>4, <1>6 DEF PageTypes, Owners
  <2>3. Settled(busy[p])' = Settled(busy[p])
    BY <1>1, <2>1 DEF Settled
  <2>. QED BY <1>1, <2>1, <2>2, <2>3, SameInStep
<1>. QED BY <1>5, <1>6

LEMMA ReloadInStep ==
  ASSUME PageInv, NEW o \in Pages, Reload(o), NEW p \in Pages, p # o => InStep(p)
  PROVE  InStep(p)'
<1>1. /\ PageTypes
      /\ UNCHANGED <<pc, session, history, outcome, log, net>>
      /\ sessionId' = [sessionId EXCEPT ![o] = None] /\ busy' = [busy EXCEPT ![o] = None]
      /\ dialog' = [dialog EXCEPT ![o] = <<>>] /\ mine' = [mine EXCEPT ![o] = {}]
  BY DEF PageInv, Reload, vars, handlers, ghost
<1>2. CASE p = o
  <2>1. sessionId'[p] = None /\ busy'[p] = None /\ dialog'[p] = <<>> /\ mine'[p] = {}
    BY <1>1, <1>2 DEF PageTypes
  <2>. QED BY <2>1 DEF InStep, Current
<1>3. CASE p # o
  <2>1. /\ sessionId'[p] = sessionId[p] /\ busy'[p] = busy[p] /\ dialog'[p] = dialog[p]
        /\ mine'[p] = mine[p]
    BY <1>1, <1>3 DEF PageTypes
  <2>2. Settled(busy[p])' = Settled(busy[p])
    BY <1>1, <2>1 DEF Settled
  <2>. QED BY <1>1, <1>3, <2>1, <2>2, SameInStep
<1>. QED BY <1>2, <1>3

LEMMA FetchFailsInStep ==
  ASSUME PageInv, NEW o \in Pages, FetchFails(o), NEW p \in Pages, p # o, InStep(p)
  PROVE  InStep(p)'
<1>1. /\ PageTypes
      /\ UNCHANGED <<pc, session, history, outcome, log, net, sessionId, dialog, mine>>
      /\ busy' = [busy EXCEPT ![o] = None]
  BY DEF PageInv, FetchFails, BusyAfter, vars, handlers, ghost
<1>2. busy'[p] = busy[p]
  BY <1>1 DEF PageTypes
<1>3. Settled(busy[p])' = Settled(busy[p])
  BY <1>1, <1>2 DEF Settled
<1>. QED BY <1>1, <1>2, <1>3, SameInStep

\* A list without members is empty.
LEMMA NoMembers ==
  ASSUME NEW seq \in Seq(Requests), ToSet(seq) \subseteq {}
  PROVE  seq = <<>>
<1>1. Len(seq) \in Nat /\ DOMAIN seq = 1..Len(seq)
  OBVIOUS
<1>2. ~ Len(seq) > 0
  <2>1. Len(seq) > 0 => 1 \in DOMAIN seq
    BY <1>1
  <2>2. 1 \in DOMAIN seq => seq[1] \in ToSet(seq)
    BY DEF ToSet
  <2>. QED BY <2>1, <2>2
<1>3. Len(seq) = 0
  BY <1>1, <1>2
<1>. QED BY <1>3

\* A question that begins reads the turns the page shows: none if its session is new.
LEMMA ArriveInStep ==
  ASSUME PageInv, NEW r \in Requests, Arrive(r), NEW p \in Pages, InStep(p)
  PROVE  InStep(p)'
<1>1. /\ PageTypes /\ Delivered /\ Owners /\ TypeOK /\ NoTurnLost /\ LogInv
      /\ UNCHANGED <<sessionId, busy, dialog, mine, outcome, log>>
  BY DEF PageInv, Arrive, Start, page, ghost, LogInv, OwnInv, IInv
<1>2. PICK s \in Sessions :
           /\ net[r] = "sent" /\ pc[r] = "idle" /\ session[r] = None
           /\ session' = [session EXCEPT ![r] = s] /\ pc' = [pc EXCEPT ![r] = "asking"]
           /\ history' = [history EXCEPT ![r] = LastTurns(turns[s])]
           /\ net' = [net EXCEPT ![r] = "arrived"]
           /\ posted[r] # None => s = posted[r]
           /\ posted[r] = None => \A q \in Requests : session[q] # s
  BY ArriveStarts, Zenon
<1>3. /\ \A x \in Requests \ {r} : net'[x] = net[x] /\ session'[x] = session[x]
      /\ \A x \in Requests \ {r} : history'[x] = history[x] /\ pc'[x] = pc[x]
      /\ session'[r] = s /\ pc'[r] = "asking" /\ history'[r] = LastTurns(turns[s])
      /\ s # None
  BY <1>1, <1>2, NoneAssumption DEF PageTypes, TypeOK
<1>4. CASE busy[p] # r
  <2>1. r \notin mine[p]
    BY <1>2, <1>4, NotMine
  <2>2. \A q \in mine[p] : /\ session'[q] = session[q] /\ history'[q] = history[q]
                           /\ net'[q] = net[q]
    BY <1>1, <1>3, <2>1 DEF PageTypes
  <2>3. busy[p] # None => Settled(busy[p])' = Settled(busy[p])
    BY <1>1, <1>3, <1>4 DEF Settled, PageTypes
  <2>. QED BY <1>1, <2>2, <2>3, SameInStep
<1>5. CASE busy[p] = r
  <2>1. r # None /\ posted[r] = sessionId[p] /\ r \in mine[p]
    BY <1>1, <1>5, NoRequestAssumption DEF Owners
  <2>2. ~Settled(r) /\ ~Settled(r)' /\ Told(p) = dialog[p] /\ Told(p)' = dialog[p]
    BY <1>1, <1>2, <1>3, <1>5 DEF Settled, Told
  <2>3. Current(p)' = s
    BY <1>1, <1>2, <1>3, <1>5, <2>1 DEF Current
  <2>4. log[s] = dialog[p]
    <3>1. CASE sessionId[p] # None
      BY <1>2, <2>1, <2>2, <3>1 DEF Current, InStep
    <3>2. CASE sessionId[p] = None
      <4>1. dialog[p] = <<>>
        BY <3>2 DEF InStep
      <4>2. \A q \in ToSet(log[s]) : FALSE
        BY <1>1, <1>2, <2>1, <3>2 DEF LogInv, Logged
      <4>3. log[s] \in Seq(Requests)
        BY <1>1 DEF TypeOK
      <4>4. log[s] = <<>>
        BY <4>2, <4>3, NoMembers
      <4>. QED BY <4>1, <4>4
    <3>. QED BY <3>1, <3>2
  <2>5. history'[r] = LastTurns(dialog[p])
    <3>1. log[s] \in Seq(Requests) /\ turns[s] = LastTurns(log[s])
      BY <1>1 DEF TypeOK, NoTurnLost
    <3>. QED BY <1>3, <2>4, <3>1, SliceTwice
  <2>6. \A q \in mine'[p] \ {busy'[p]} :
          \/ net'[q] = "rejected"
          \/ net'[q] = "answered" /\ session'[q] = sessionId'[p]
    <3>1. \A q \in mine[p] \ {r} : net'[q] = net[q] /\ session'[q] = session[q]
      BY <1>1, <1>3 DEF PageTypes
    <3>. QED BY <1>1, <1>5, <3>1 DEF InStep
  <2>7. sessionId'[p] = None => dialog'[p] = <<>>
    BY <1>1 DEF InStep
  <2>8. Current(p)' # None => log'[Current(p)'] = Told(p)'
    BY <1>1, <2>2, <2>3, <2>4
  <2>9. history'[busy'[p]] = LastTurns(dialog'[p])
    BY <1>1, <1>5, <2>5
  <2>. QED BY <2>6, <2>7, <2>8, <2>9 DEF InStep
<1>. QED BY <1>4, <1>5

LEMMA AskReturnsInStep ==
  ASSUME PageInv, NEW r \in Requests, AskReturns(r), UNCHANGED <<page, net, posted>>,
         NEW p \in Pages, InStep(p)
  PROVE  InStep(p)'
<1>1. /\ TypeOK
      /\ UNCHANGED <<sessionId, busy, dialog, mine, net, session, history, log>>
  BY DEF PageInv, AskReturns, page, ghost, LogInv, OwnInv, IInv
<1>2. PICK result \in Outcomes :
           /\ pc[r] = "asking" /\ outcome' = [outcome EXCEPT ![r] = result]
           /\ pc' = [pc EXCEPT ![r] = IF Keep(result) THEN "storing" ELSE "responding"]
  BY DEF AskReturns
<1>3. Settled(busy[p])' = Settled(busy[p]) \/ busy[p] = None
  <2>1. CASE busy[p] = r
    BY <1>1, <1>2, <2>1 DEF Settled, TypeOK, Keep
  <2>2. CASE busy[p] \in Requests \ {r}
    BY <1>1, <1>2, <2>2 DEF Settled, TypeOK
  <2>. QED BY <2>1, <2>2 DEF PageInv, PageTypes
<1>. QED BY <1>1, <1>3, SameInStep

LEMMA StoreInStep ==
  ASSUME PageInv, NEW r \in Requests, Store(r), UNCHANGED <<page, net, posted>>,
         forgotten' = {}, NEW p \in Pages, InStep(p)
  PROVE  InStep(p)'
<1>1. /\ TypeOK /\ LogInv /\ PageTypes /\ Owners /\ Delivered
      /\ UNCHANGED <<sessionId, busy, dialog, mine, net, session, history, outcome>>
      /\ pc[r] = "storing" /\ pc' = [pc EXCEPT ![r] = "responding"]
  BY DEF PageInv, Store, page, LogInv, OwnInv, IInv
<1>2. session[r] \in Sessions /\ log'[session[r]] = Append(log[session[r]], r)
  BY <1>1, StoreLogs
<1>3. ASSUME NEW t \in Sessions \ {session[r]} PROVE log'[t] = log[t]
  <2>1. \/ log'[t] = log[t]
        \/ log'[t] = <<>> /\ ToSet(log[t]) \subseteq forgotten'
    BY <1>1, StoreLogs
  <2>2. ASSUME ToSet(log[t]) \subseteq {} PROVE log[t] = <<>>
    <3>1. log[t] \in Seq(Requests)
      BY <1>1 DEF TypeOK
    <3>. QED BY <2>2, <3>1, NoMembers
  <2>. QED BY <2>1, <2>2
<1>4. CASE busy[p] # r
  <2>1. Current(p) # None => log'[Current(p)] = log[Current(p)]
    <3>. SUFFICES ASSUME Current(p) # None PROVE log'[Current(p)] = log[Current(p)]
      OBVIOUS
    <3>1. session[r] # Current(p)
      BY <1>1, <1>4, NotMySession
    <3>2. Current(p) \in Sessions
      BY CurrentIsOwn
    <3>. QED BY <1>3, <3>1, <3>2
  <2>2. busy[p] # None => Settled(busy[p])' = Settled(busy[p])
    BY <1>1, <1>4 DEF Settled, TypeOK, PageTypes
  <2>. QED BY <1>1, <2>1, <2>2, SameInStep
<1>5. CASE busy[p] = r
  <2>1. r # None /\ Current(p) = session[r] /\ session[r] # None
    <3>1. r # None /\ session[r] # None
      BY <1>2, NoRequestAssumption, NoneAssumption
    <3>2. sessionId[p] # None => session[r] = sessionId[p]
      BY <1>1, <1>5, <3>1 DEF Owners, Delivered
    <3>. QED BY <1>5, <3>1, <3>2 DEF Current
  <2>2. ~Settled(r) /\ Settled(r)'
    BY <1>1 DEF Settled, LogInv, OwnInv, StoringIsKept, Keep, TypeOK
  <2>3. Told(p) = dialog[p] /\ Told(p)' = Append(dialog[p], r)
    BY <1>1, <1>5, <2>1, <2>2 DEF Told
  <2>4. log[session[r]] = dialog[p]
    BY <2>1, <2>3 DEF InStep
  <2>5. Current(p)' = session[r]
    BY <1>1, <2>1 DEF Current
  <2>6. log'[Current(p)'] = Told(p)'
    BY <1>2, <2>3, <2>4, <2>5
  <2>. QED BY <1>1, <2>6 DEF InStep
<1>. QED BY <1>4, <1>5

LEMMA AnswerInStep ==
  ASSUME PageInv, NEW r \in Requests, Answer(r), NEW p \in Pages, InStep(p)
  PROVE  InStep(p)'
<1>1. /\ TypeOK /\ PageTypes
      /\ UNCHANGED <<sessionId, busy, dialog, mine, session, history, outcome, log>>
      /\ pc[r] = "responding" /\ pc' = [pc EXCEPT ![r] = "done"]
      /\ net' = [net EXCEPT ![r] = "answered"]
  BY DEF PageInv, Answer, Respond, page, ghost, LogInv, OwnInv, IInv
<1>2. \A q \in mine[p] \ {busy[p]} : net'[q] = net[q]
  <2>1. busy[p] # r => r \notin mine[p]
    BY <1>1, NotMine
  <2>. QED BY <1>1, <2>1 DEF PageTypes
<1>3. busy[p] # None => Settled(busy[p])' = Settled(busy[p])
  BY <1>1 DEF Settled, TypeOK, PageTypes
<1>. QED BY <1>1, <1>2, <1>3, SameInStep

LEMMA TalkStep == TalkInv /\ [PNext]_pvars => TalkInv'
<1>. SUFFICES ASSUME TalkInv, [PNext]_pvars PROVE TalkInv'
  OBVIOUS
<1>1. PageInv /\ PageInv'
  BY PageStep DEF TalkInv
<1>2. PageTypes /\ TypeOK
  BY <1>1 DEF PageInv, LogInv, OwnInv, IInv
<1>. SUFFICES ASSUME NEW p \in Pages, Calm(p)' PROVE InStep(p)'
  BY <1>1 DEF TalkInv
<1>3. ASSUME NEW o \in Pages, Reload(o) PROVE InStep(p)'
  <2>1. p # o => Calm(p)
    BY <1>2, <1>3 DEF Calm, Reload, vars, ghost, PageTypes
  <2>. QED BY <1>1, <1>3, <2>1, ReloadInStep DEF TalkInv
<1>4. ASSUME NEW o \in Pages, FetchFails(o) PROVE InStep(p)'
  <2>1. p # o /\ Calm(p)
    BY <1>2, <1>4 DEF Calm, FetchFails, vars, ghost, PageTypes
  <2>. QED BY <1>1, <1>4, <2>1, FetchFailsInStep DEF TalkInv
<1>5. ASSUME NEW o \in Pages, Send(o) \/ Receive(o) \/ Rejected(o) PROVE InStep(p)'
  <2>1. Calm(p)
    BY <1>5 DEF Calm, Send, Receive, Rejected, vars, ghost
  <2>. QED BY <1>1, <1>5, <2>1, SendInStep, ReceiveInStep, RejectedInStep DEF TalkInv
<1>6. ASSUME NEW r \in Requests, Arrive(r) \/ Answer(r) PROVE InStep(p)'
  <2>1. Calm(p)
    BY <1>6 DEF Calm, Arrive, Answer, Start, Respond, page, ghost
  <2>. QED BY <1>1, <1>6, <2>1, ArriveInStep, AnswerInStep DEF TalkInv
<1>7. ASSUME NEW r \in Requests, Handle(r) PROVE InStep(p)'
  <2>1. CASE AskReturns(r)
    <3>1. Calm(p)
      BY <1>7, <2>1 DEF Calm, Handle, AskReturns, page, ghost
    <3>. QED BY <1>1, <1>7, <2>1, <3>1, AskReturnsInStep DEF TalkInv, Handle
  <2>2. CASE Store(r)
    <3>1. forgotten \subseteq forgotten'
      BY <1>1, <2>2, StoreLogs DEF PageInv
    <3>2. Calm(p) /\ forgotten' = {}
      BY <1>7, <2>2, <3>1 DEF Calm, Handle, Store, page
    <3>. QED BY <1>1, <1>7, <2>2, <3>2, StoreInStep DEF TalkInv, Handle
  <2>. QED BY <1>7, <2>1, <2>2 DEF Handle
<1>8. ~ServerRestarts
  <2>1. restarts \in Nat
    BY <1>2, RestartsAssumption DEF TypeOK
  <2>2. ServerRestarts => restarts' = restarts + 1
    BY DEF ServerRestarts, Restart
  <2>3. restarts' = 0
    BY DEF Calm
  <2>. QED BY <2>1, <2>2, <2>3
<1>9. CASE Quiet \/ UNCHANGED pvars
  <2>1. UNCHANGED <<pc, session, history, outcome, log, forgotten, restarts>>
        /\ UNCHANGED <<sessionId, busy, dialog, net, mine, broken>>
    BY <1>9 DEF Quiet, pvars, vars, handlers, ghost, page
  <2>2. Calm(p) /\ Settled(busy[p])' = Settled(busy[p])
    BY <2>1 DEF Calm, Settled
  <2>. QED BY <1>1, <2>1, <2>2, SameInStep DEF TalkInv
<1>. QED BY <1>3, <1>4, <1>5, <1>6, <1>7, <1>8, <1>9 DEF PNext

\* app.js:3 and main.py:124: whatever the network and the server do, the agent is shown only
\* questions asked on the page since it was loaded; and with no fetch failed, no restart and no
\* eviction, exactly the last ones the page shows.
THEOREM ContextIsConversation == PSpec => []ConversationIsContext
<1>1. PInit => TalkInv
  BY PageInit DEF TalkInv
<1>2. TalkInv => ConversationIsContext
  <2>. SUFFICES ASSUME TalkInv, NEW p \in Pages, busy[p] # None, session[busy[p]] # None
                PROVE  /\ ToSet(history[busy[p]]) \subseteq mine[p]
                       /\ ~broken[p] /\ restarts = 0 /\ forgotten = {} =>
                            history[busy[p]] = LastTurns(dialog[p])
    BY DEF ConversationIsContext
  <2>1. PageInv /\ PageTypes /\ Owners /\ OnePage /\ OwnHistory
    BY DEF TalkInv, PageInv, LogInv, OwnInv
  <2>2. busy[p] \in mine[p] /\ busy[p] \in Requests
    BY <2>1 DEF Owners, PageTypes
  <2>3. ASSUME NEW q \in ToSet(history[busy[p]]) PROVE q \in mine[p]
    <3>1. q \in Requests /\ session[q] = session[busy[p]]
      BY <2>1, <2>2, <2>3 DEF OwnHistory
    <3>. QED BY <2>1, <2>2, <3>1 DEF OnePage
  <2>4. Calm(p) => history[busy[p]] = LastTurns(dialog[p])
    BY DEF TalkInv, InStep
  <2>. QED BY <2>3, <2>4 DEF Calm
<1>. QED BY <1>1, <1>2, TalkStep, PTL DEF PSpec
=============================================================================
