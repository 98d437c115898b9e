----------------------------- MODULE SinkProofs -----------------------------
(***************************************************************************)
(* Proofs about Sink for every set of threads, every batch size, spool     *)
(* bound, collector limit and number of records.                           *)
(***************************************************************************)
EXTENDS Sink, SequenceTheorems, FiniteSetTheorems, TLAPS

-----------------------------------------------------------------------------
(* What dropping the oldest records beyond the bound does to a sequence. *)

LEMMA ExcessType ==
  ASSUME NEW s \in Seq(Records)
  PROVE  /\ Len(s) \in Nat /\ Excess(s) \in Nat
         /\ Excess(s) \in 0..Len(s)
         /\ Len(s) - Excess(s) <= MaxSpool
         /\ Len(s) <= MaxSpool => Excess(s) = 0
BY SinkAssumption, LenProperties DEF Excess

\* The trimmed sequence is a suffix within the bound.
LEMMA TrimmedType ==
  ASSUME NEW s \in Seq(Records)
  PROVE  /\ Trimmed(s) \in Seq(Records)
         /\ Len(Trimmed(s)) = Len(s) - Excess(s)
         /\ Len(Trimmed(s)) <= MaxSpool
         /\ \A i \in 1..Len(Trimmed(s)) : Trimmed(s)[i] = s[Excess(s) + i]
<1>1. Excess(s) \in 0..Len(s) /\ Len(s) - Excess(s) <= MaxSpool
  BY ExcessType
<1>2. Len(s) \in Nat /\ \A i \in 1..Len(s) : s[i] \in Records
  BY LenProperties, ElementOfSeq
<1>3. \A i \in (Excess(s) + 1)..Len(s) : s[i] \in Records
  BY <1>1, <1>2
<1>4. /\ Trimmed(s) \in Seq(Records)
      /\ Len(Trimmed(s)) = IF Excess(s) + 1 <= Len(s) THEN Len(s) - (Excess(s) + 1) + 1 ELSE 0
      /\ \A i \in 1..(Len(s) - (Excess(s) + 1) + 1) : Trimmed(s)[i] = s[Excess(s) + 1 + i - 1]
  BY <1>1, <1>2, <1>3, SubSeqProperties DEF Trimmed
<1> QED BY <1>1, <1>2, <1>4

LEMMA RangeIsItems ==
  ASSUME NEW s \in Seq(Records)
  PROVE  /\ Range(s) = {s[i] : i \in 1..Len(s)}
         /\ Range(s) \subseteq Records
BY RangeEquality, RangeOfSeq

\* Trimming splits the records of a sequence into those kept and those
\* dropped, and no record of an injective sequence is both.
LEMMA TrimmedSplits ==
  ASSUME NEW s \in Seq(Records)
  PROVE  /\ Range(s) = Range(Trimmed(s)) \cup Dropped(s)
         /\ IsInjective(s) => /\ IsInjective(Trimmed(s))
                              /\ Range(Trimmed(s)) \cap Dropped(s) = {}
<1> DEFINE k == Excess(s)
           n == Len(s)
           u == Trimmed(s)
<1>1. k \in 0..n /\ n \in Nat
  BY ExcessType, LenProperties
<1>2. u \in Seq(Records) /\ Len(u) = n - k /\ \A i \in 1..Len(u) : u[i] = s[k + i]
  BY TrimmedType
<1>3. Range(u) = {u[i] : i \in 1..Len(u)} /\ Range(s) = {s[i] : i \in 1..n}
  BY <1>2, RangeIsItems
<1>4. DOMAIN u = 1..Len(u) /\ DOMAIN s = 1..n
  BY <1>2, LenProperties
<1>5. Dropped(s) = {s[i] : i \in 1..k}
  BY DEF Dropped
<1> HIDE DEF k, n, u
<1>6. Range(s) \subseteq Range(u) \cup Dropped(s)
  <2> SUFFICES ASSUME NEW i \in 1..n PROVE s[i] \in Range(u) \cup Dropped(s)
    BY <1>3
  <2>1. CASE i <= k
    BY <2>1, <1>1, <1>5
  <2>2. CASE i > k
    <3>1. i - k \in 1..Len(u) /\ u[i - k] = s[i]
      BY <2>2, <1>1, <1>2
    <3> QED BY <3>1, <1>3
  <2> QED BY <2>1, <2>2, <1>1
<1>7. Range(u) \subseteq Range(s)
  <2>1. \A i \in 1..Len(u) : k + i \in 1..n /\ u[i] = s[k + i]
    BY <1>1, <1>2
  <2> QED BY <2>1, <1>3
<1>8. Dropped(s) \subseteq Range(s)
  BY <1>1, <1>3, <1>5
<1>9. ASSUME IsInjective(s) PROVE IsInjective(u)
  <2> SUFFICES ASSUME NEW i \in 1..Len(u), NEW j \in 1..Len(u), u[i] = u[j]
               PROVE  i = j
    BY <1>4 DEF IsInjective
  <2>1. k + i \in 1..n /\ k + j \in 1..n /\ s[k + i] = s[k + j]
    BY <1>1, <1>2
  <2>2. k + i = k + j
    BY <2>1, <1>4, <1>9 DEF IsInjective
  <2> QED BY <2>2, <1>1
<1>10. ASSUME IsInjective(s) PROVE Range(u) \cap Dropped(s) = {}
  <2> SUFFICES ASSUME NEW i \in 1..Len(u), NEW j \in 1..k, u[i] = s[j]
               PROVE  FALSE
    BY <1>3, <1>5
  <2>1. k + i \in 1..n /\ j \in 1..n /\ s[k + i] = s[j]
    BY <1>1, <1>2
  <2>2. k + i = j
    BY <2>1, <1>4, <1>10 DEF IsInjective
  <2> QED BY <2>2, <1>1
<1> QED BY <1>6, <1>7, <1>8, <1>9, <1>10 DEF k, n, u

\* A batch put back in front of the buffer shares no record with it.
LEMMA ConcatSplits ==
  ASSUME NEW a \in Seq(Records), NEW b \in Seq(Records),
         IsInjective(a), IsInjective(b), Range(a) \cap Range(b) = {}
  PROVE  /\ a \o b \in Seq(Records)
         /\ IsInjective(a \o b)
         /\ Range(a \o b) = Range(a) \cup Range(b)
<1>1. /\ a \o b \in Seq(Records)
      /\ Len(a \o b) = Len(a) + Len(b)
      /\ \A i \in 1..(Len(a) + Len(b)) :
           (a \o b)[i] = IF i <= Len(a) THEN a[i] ELSE b[i - Len(a)]
  BY ConcatProperties
<1>2. Range(a \o b) = Range(a) \cup Range(b)
  BY RangeConcatenation
<1>3. /\ Len(a) \in Nat /\ Len(b) \in Nat
      /\ DOMAIN a = 1..Len(a) /\ DOMAIN b = 1..Len(b)
      /\ DOMAIN (a \o b) = 1..(Len(a) + Len(b))
  BY <1>1, LenProperties
<1>4. ASSUME NEW i \in 1..Len(a), NEW j \in 1..Len(b), a[i] = b[j] PROVE FALSE
  BY <1>4, RangeIsItems
<1>5. IsInjective(a \o b)
  <2> SUFFICES ASSUME NEW i \in 1..(Len(a) + Len(b)), NEW j \in 1..(Len(a) + Len(b)),
                      (a \o b)[i] = (a \o b)[j]
               PROVE  i = j
    BY <1>3 DEF IsInjective
  <2>1. CASE i <= Len(a) /\ j <= Len(a)
    BY <2>1, <1>1, <1>3 DEF IsInjective
  <2>2. CASE i > Len(a) /\ j > Len(a)
    <3>1. i - Len(a) \in 1..Len(b) /\ j - Len(a) \in 1..Len(b)
      BY <2>2, <1>3
    <3>2. b[i - Len(a)] = b[j - Len(a)]
      BY <2>2, <1>1, <1>3
    <3>3. i - Len(a) = j - Len(a)
      BY <3>1, <3>2, <1>3 DEF IsInjective
    <3> QED BY <3>3, <1>3
  <2>3. CASE i <= Len(a) /\ j > Len(a)
    BY <2>3, <1>1, <1>3, <1>4
  <2>4. CASE i > Len(a) /\ j <= Len(a)
    BY <2>4, <1>1, <1>3, <1>4
  <2> QED BY <2>1, <2>2, <2>3, <2>4, <1>3
<1> QED BY <1>1, <1>2, <1>5

LEMMA AppendSplits ==
  ASSUME NEW s \in Seq(Records), NEW r \in Records, IsInjective(s), r \notin Range(s)
  PROVE  /\ Append(s, r) \in Seq(Records)
         /\ Len(Append(s, r)) = Len(s) + 1
         /\ IsInjective(Append(s, r))
         /\ Range(Append(s, r)) = Range(s) \cup {r}
<1>1. /\ Append(s, r) \in Seq(Records)
      /\ Len(Append(s, r)) = Len(s) + 1
      /\ \A i \in 1..Len(s) : Append(s, r)[i] = s[i]
      /\ Append(s, r)[Len(s) + 1] = r
  BY AppendProperties
<1>2. /\ Len(s) \in Nat
      /\ DOMAIN s = 1..Len(s) /\ DOMAIN Append(s, r) = 1..(Len(s) + 1)
      /\ Range(s) = {s[i] : i \in 1..Len(s)}
      /\ Range(Append(s, r)) = {Append(s, r)[i] : i \in 1..(Len(s) + 1)}
  BY <1>1, LenProperties, RangeIsItems
<1>3. IsInjective(Append(s, r))
  BY <1>1, <1>2 DEF IsInjective
<1>4. Range(Append(s, r)) = Range(s) \cup {r}
  <2>1. \A i \in 1..(Len(s) + 1) : i \in 1..Len(s) \/ i = Len(s) + 1
    BY <1>2
  <2>2. Range(Append(s, r)) \subseteq Range(s) \cup {r}
    BY <1>1, <1>2, <2>1
  <2>3. \A i \in 1..Len(s) : i \in 1..(Len(s) + 1)
    BY <1>2
  <2>4. Len(s) + 1 \in 1..(Len(s) + 1)
    BY <1>2
  <2> QED BY <1>1, <1>2, <2>2, <2>3, <2>4
<1> QED BY <1>1, <1>3, <1>4

-----------------------------------------------------------------------------
(* Type correctness. *)

LEMMA MarkedType ==
  ASSUME TypeOK, NEW S, NEW f \in Fates
  PROVE  Marked(S, f) \in [Records -> Fates]
BY DEF TypeOK, Marked

LEMMA NextIsRecord ==
  ASSUME TypeOK, next <= MaxRecords
  PROVE  next \in Records /\ next + 1 \in 1..(MaxRecords + 1)
BY SinkAssumption DEF TypeOK, Records

LEMMA InsertType ==
  ASSUME TypeOK, NEW t \in Capturers, Insert(t)
  PROVE  TypeOK'
<1> DEFINE filled == Append(buf, next)
<1>1. next \in Records /\ next + 1 \in 1..(MaxRecords + 1)
  BY NextIsRecord DEF Insert
<1>2. filled \in Seq(Records)
  BY <1>1, AppendProperties DEF TypeOK
<1>3. buf' \in Seq(Records) /\ Len(buf') <= MaxSpool
  BY <1>2, TrimmedType DEF Insert
<1>4. Excess(filled) \in Nat
  BY <1>2, ExcessType
<1>5. dropped' \in Nat
  BY <1>4 DEF TypeOK, Insert
<1>6. fate' \in [Records -> Fates]
  <2>1. Marked(Dropped(filled), "dropped") \in [Records -> Fates]
    BY MarkedType DEF Fates
  <2> QED BY <2>1 DEF Insert, Fates
<1>7. pc' \in [Threads -> {"idle", "flush", "post", "putback"}]
  BY DEF TypeOK, Insert
<1> QED BY <1>1, <1>3, <1>5, <1>6, <1>7 DEF TypeOK, Insert

LEMMA TakeBatchType ==
  ASSUME TypeOK, NEW t \in Threads, TakeBatch(t)
  PROVE  TypeOK'
<1>1. <<>> \in Seq(Records) /\ Len(<<>>) = 0 /\ 0 <= MaxSpool
  BY EmptySeq, SinkAssumption
<1>2. buf' \in Seq(Records) /\ Len(buf') <= MaxSpool
  BY <1>1 DEF TypeOK, TakeBatch, Cleared
<1>3. batch' \in [Threads -> Seq(Records)] /\ \A u \in Threads : Len(batch'[u]) <= MaxSpool
  BY DEF TypeOK, TakeBatch
<1>4. pc' \in [Threads -> {"idle", "flush", "post", "putback"}]
  BY DEF TypeOK, TakeBatch
<1> QED BY <1>2, <1>3, <1>4 DEF TypeOK, TakeBatch

LEMMA FinishType ==
  ASSUME TypeOK, NEW t \in Threads, NEW f \in Fates, Finish(t, f)
  PROVE  /\ pc' \in [Threads -> {"idle", "flush", "post", "putback"}]
         /\ batch' \in [Threads -> Seq(Records)]
         /\ \A u \in Threads : Len(batch'[u]) <= MaxSpool
         /\ fate' \in [Records -> Fates]
<1>1. <<>> \in Seq(Records) /\ Len(<<>>) = 0 /\ 0 <= MaxSpool
  BY EmptySeq, SinkAssumption
<1>2. fate' \in [Records -> Fates]
  BY MarkedType DEF Finish
<1> QED BY <1>1, <1>2 DEF TypeOK, Finish

LEMMA PostStepType ==
  ASSUME TypeOK, NEW t \in Threads, PostStep(t)
  PROVE  TypeOK'
<1>1. Range(batch[t]) \subseteq Records
  BY RangeIsItems DEF TypeOK
<1>2. CASE PostAccepted(t)
  BY <1>1, <1>2, FinishType DEF PostAccepted, TypeOK, Fates
<1>3. CASE PostRefused(t)
  BY <1>3, FinishType DEF PostRefused, TypeOK, Fates
<1>4. CASE PostTimedOut(t)
  BY <1>1, <1>4 DEF PostTimedOut, TypeOK
<1>5. CASE PostFailed(t)
  BY <1>5 DEF PostFailed, TypeOK
<1> QED BY <1>2, <1>3, <1>4, <1>5 DEF PostStep

LEMMA PutBackType ==
  ASSUME TypeOK, NEW t \in Threads, PutBack(t)
  PROVE  TypeOK'
<1> DEFINE filled == batch[t] \o buf
<1>1. filled \in Seq(Records)
  BY ConcatProperties DEF TypeOK
<1>2. buf' \in Seq(Records) /\ Len(buf') <= MaxSpool
  BY <1>1, TrimmedType DEF PutBack
<1>3. Excess(filled) \in Nat
  BY <1>1, ExcessType
<1>4. dropped' \in Nat
  BY <1>3 DEF TypeOK, PutBack
<1>5. fate' \in [Records -> Fates]
  BY MarkedType DEF PutBack, Fates
<1>6. <<>> \in Seq(Records) /\ Len(<<>>) = 0 /\ 0 <= MaxSpool
  BY EmptySeq, SinkAssumption
<1>7. batch' \in [Threads -> Seq(Records)] /\ \A u \in Threads : Len(batch'[u]) <= MaxSpool
  BY <1>6 DEF TypeOK, PutBack
<1>8. pc' \in [Threads -> {"idle", "flush", "post", "putback"}]
  BY DEF TypeOK, PutBack
<1> QED BY <1>2, <1>4, <1>5, <1>7, <1>8 DEF TypeOK, PutBack

LEMMA RestartType ==
  ASSUME TypeOK, Restart
  PROVE  TypeOK'
<1>1. <<>> \in Seq(Records) /\ Len(<<>>) = 0 /\ 0 <= MaxSpool
  BY EmptySeq, SinkAssumption
<1>2. fate' \in [Records -> Fates]
  BY DEF TypeOK, Restart, Fates
<1> QED BY <1>1, <1>2 DEF TypeOK, Restart

LEMMA InitType == Init => TypeOK
<1> SUFFICES ASSUME Init PROVE TypeOK
  OBVIOUS
<1>1. <<>> \in Seq(Records) /\ Len(<<>>) = 0 /\ 0 <= MaxSpool
  BY EmptySeq, SinkAssumption
<1>2. 1 \in 1..(MaxRecords + 1)
  BY SinkAssumption
<1> QED BY <1>1, <1>2 DEF Init, TypeOK, Fates

LEMMA NextType == TypeOK /\ [Next]_vars => TypeOK'
<1> SUFFICES ASSUME TypeOK, [Next]_vars PROVE TypeOK'
  OBVIOUS
<1>1. ASSUME NEW t \in Capturers, Insert(t) PROVE TypeOK'
  BY <1>1, InsertType
<1>2. CASE Tick
  BY <1>2 DEF Tick, TypeOK
<1>3. ASSUME NEW t \in Threads, FlushStep(t) PROVE TypeOK'
  BY <1>3, TakeBatchType, PostStepType, PutBackType DEF FlushStep
<1>4. CASE BeginExit
  BY <1>4 DEF BeginExit, TypeOK
<1>5. CASE EndExit \/ Crash
  BY <1>5, RestartType DEF EndExit, Crash
<1>6. CASE CollectorChanges
  BY <1>6 DEF CollectorChanges, TypeOK
<1>7. CASE UNCHANGED vars
  BY <1>7 DEF vars, TypeOK
<1> QED BY <1>1, <1>2, <1>3, <1>4, <1>5, <1>6, <1>7 DEF Next

\* The sink's state is always well typed; in particular neither the spool nor
\* a batch in flight ever exceeds max_spool.
THEOREM TypeCorrect == Spec => []TypeOK
<1>1. Init => TypeOK
  BY InitType
<1>2. TypeOK /\ [Next]_vars => TypeOK'
  BY NextType
<1> QED BY <1>1, <1>2, PTL DEF Spec

-----------------------------------------------------------------------------
(* Every record owed is in exactly one place.  HeldExactlyOnce is not        *)
(* inductive alone: a record must be fresh when it is inserted, and a thread *)
(* that takes a batch must not hold one already.                             *)

FreshAreNew == \A r \in Records : fate[r] = "new" <=> next <= r

OneBatchPerFlush == \A t \in Threads : pc[t] \in {"idle", "flush"} => batch[t] = <<>>

IInv == TypeOK /\ HeldExactlyOnce /\ FreshAreNew /\ OneBatchPerFlush

LEMMA HeldMembers ==
  \A r : r \in Held <=> r \in Range(buf) \/ \E u \in Threads : r \in Range(batch[u])
BY DEF Held

LEMMA EmptyRange == Range(<<>>) = {} /\ IsInjective(<<>>)
BY DEF Range, IsInjective

LEMMA InitIInv == Init => IInv
<1> SUFFICES ASSUME Init PROVE IInv
  OBVIOUS
<1>1. TypeOK
  BY InitType
<1>2. HeldExactlyOnce
  BY EmptyRange, HeldMembers DEF Init, HeldExactlyOnce
<1>3. FreshAreNew
  BY SinkAssumption DEF Init, FreshAreNew, Records
<1> QED BY <1>1, <1>2, <1>3 DEF Init, IInv, OneBatchPerFlush

\* insert() adds the new record to those owed and takes away those it drops.
LEMMA InsertHeld ==
  ASSUME IInv, NEW t \in Capturers, Insert(t)
  PROVE  LET D == Dropped(Append(buf, next))
         IN  /\ D \subseteq Held \cup {next}
             /\ Held' = (Held \cup {next}) \ D
             /\ fate' = [r \in Records |-> IF r \in D THEN "dropped"
                                         ELSE IF r = next THEN "held" ELSE fate[r]]
             /\ IInv'
<1> DEFINE filled == Append(buf, next)
           D == Dropped(filled)
<1>1. TypeOK /\ HeldExactlyOnce /\ FreshAreNew /\ OneBatchPerFlush /\ TypeOK'
  BY InsertType DEF IInv
<1>2. next \in Records /\ next + 1 \in Nat /\ next \in Nat
  BY <1>1, NextIsRecord DEF Insert, Records
<1>3. next \notin Held
  BY <1>1, <1>2 DEF HeldExactlyOnce, FreshAreNew
<1>4. next \notin Range(buf) /\ \A u \in Threads : next \notin Range(batch[u])
  BY <1>3, HeldMembers
<1>5. /\ filled \in Seq(Records) /\ IsInjective(filled)
      /\ Range(filled) = Range(buf) \cup {next}
  BY <1>1, <1>2, <1>4, AppendSplits DEF TypeOK, HeldExactlyOnce
<1>6. buf' = Trimmed(filled) /\ batch' = batch
  BY DEF Insert
<1>7. /\ Range(filled) = Range(buf') \cup D
      /\ IsInjective(buf')
      /\ Range(buf') \cap D = {}
  BY <1>5, <1>6, TrimmedSplits
<1>8. fate' = [r \in Records |-> IF r \in D THEN "dropped"
                                ELSE IF r = next THEN "held" ELSE fate[r]]
  BY <1>1, <1>2 DEF Insert, Marked, TypeOK
<1> HIDE DEF D, filled
<1>9. \A r : r \in Held' <=> r \in Range(buf') \/ \E u \in Threads : r \in Range(batch[u])
  BY <1>6 DEF Held
<1>10. \A u \in Threads : Range(buf) \cap Range(batch[u]) = {}
  BY <1>1 DEF HeldExactlyOnce
<1>11. D \subseteq Held \cup {next}
  BY <1>5, <1>7, HeldMembers
<1>12. Held' = (Held \cup {next}) \ D
  BY <1>4, <1>5, <1>7, <1>9, <1>10, HeldMembers
<1>13. \A r \in Records : fate'[r] = "held" <=> r \in Held'
  BY <1>1, <1>8, <1>12 DEF HeldExactlyOnce
<1>14. \A u \in Threads : Range(buf') \cap Range(batch'[u]) = {}
  BY <1>4, <1>5, <1>6, <1>7, <1>10
<1>15. HeldExactlyOnce'
  BY <1>1, <1>6, <1>7, <1>13, <1>14 DEF HeldExactlyOnce
<1>16. FreshAreNew'
  <2>1. \A r \in Records : r \in D => r < next + 1
    <3>1. \A r \in Records : r \in Held => ~(next <= r)
      BY <1>1 DEF HeldExactlyOnce, FreshAreNew
    <3> QED BY <1>2, <1>11, <3>1 DEF Records
  <2>2. next' = next + 1
    BY DEF Insert
  <2> QED BY <1>1, <1>2, <1>8, <2>1, <2>2 DEF FreshAreNew, Records
<1>17. OneBatchPerFlush'
  <2>1. pc[t] = "idle" /\ \A u \in Threads : u # t => pc'[u] = pc[u]
    BY <1>1 DEF Insert, TypeOK
  <2>2. t \in Threads
    BY DEF Threads
  <2> QED BY <1>1, <1>6, <2>1, <2>2 DEF OneBatchPerFlush
<1> QED BY <1>1, <1>8, <1>11, <1>12, <1>15, <1>16, <1>17 DEF IInv, D, filled

\* Taking the batch out moves records and owes none more or less.
LEMMA TakeBatchHeld ==
  ASSUME IInv, NEW t \in Threads, TakeBatch(t)
  PROVE  Held' = Held /\ IInv'
<1>1. TypeOK /\ HeldExactlyOnce /\ FreshAreNew /\ OneBatchPerFlush /\ TypeOK'
  BY TakeBatchType DEF IInv
<1>2. batch[t] = <<>> /\ Range(batch[t]) = {}
  BY <1>1, EmptyRange DEF TakeBatch, OneBatchPerFlush
<1>3. CASE buf = <<>>
  <2>1. buf' = buf /\ batch' = batch /\ fate' = fate /\ next' = next
    BY <1>3 DEF TakeBatch
  <2>2. Held' = Held
    BY <2>1 DEF Held
  <2>3. HeldExactlyOnce' /\ FreshAreNew'
    BY <1>1, <2>1, <2>2 DEF HeldExactlyOnce, FreshAreNew
  <2>4. OneBatchPerFlush'
    BY <1>1, <1>2, <1>3, <2>1 DEF OneBatchPerFlush, TakeBatch, TypeOK
  <2> QED BY <1>1, <2>2, <2>3, <2>4 DEF IInv
<1>4. CASE buf # <<>>
  <2>1. /\ buf' = <<>> /\ fate' = fate /\ next' = next
        /\ batch' = [batch EXCEPT ![t] = buf]
        /\ pc' = [pc EXCEPT ![t] = "post"]
    BY <1>4 DEF TakeBatch, Cleared
  <2>2. /\ batch'[t] = buf
        /\ \A u \in Threads : u # t => batch'[u] = batch[u]
        /\ Range(buf') = {} /\ IsInjective(buf')
    BY <1>1, <2>1, EmptyRange DEF TypeOK
  <2>3. \A r : r \in Held' <=> r \in Range(buf') \/ \E u \in Threads : r \in Range(batch'[u])
    BY DEF Held
  <2>4. Held' = Held
    BY <1>2, <2>2, <2>3, HeldMembers
  <2>5. HeldExactlyOnce'
    BY <1>1, <2>1, <2>2, <2>4 DEF HeldExactlyOnce
  <2>6. FreshAreNew'
    BY <1>1, <2>1 DEF FreshAreNew
  <2>7. OneBatchPerFlush'
    BY <1>1, <2>1, <2>2 DEF OneBatchPerFlush, TypeOK
  <2> QED BY <1>1, <2>4, <2>5, <2>6, <2>7 DEF IInv
<1> QED BY <1>3, <1>4

\* A thread that is done with its batch takes exactly its records from those owed.
LEMMA FinishHeld ==
  ASSUME IInv, TypeOK', NEW t \in Threads, NEW f \in Fates \ {"new", "held"}, Finish(t, f),
         buf' = buf, next' = next
  PROVE  /\ Range(batch[t]) \subseteq Held
         /\ Held' = Held \ Range(batch[t])
         /\ IInv'
<1>1. TypeOK /\ HeldExactlyOnce /\ FreshAreNew /\ OneBatchPerFlush
  BY DEF IInv
<1>2. /\ batch'[t] = <<>> /\ Range(batch'[t]) = {} /\ IsInjective(batch'[t])
      /\ \A u \in Threads : u # t => batch'[u] = batch[u]
  BY <1>1, EmptyRange DEF Finish, TypeOK
<1>3. fate' = [r \in Records |-> IF r \in Range(batch[t]) THEN f ELSE fate[r]]
  BY DEF Finish, Marked
<1>4. \A r : r \in Held' <=> r \in Range(buf) \/ \E u \in Threads : r \in Range(batch'[u])
  BY DEF Held
<1>5. Range(batch[t]) \subseteq Held
  BY HeldMembers
<1>6. Held' = Held \ Range(batch[t])
  <2>1. Range(buf) \cap Range(batch[t]) = {}
    BY <1>1 DEF HeldExactlyOnce
  <2>2. \A u \in Threads : u # t => Range(batch[u]) \cap Range(batch[t]) = {}
    BY <1>1 DEF HeldExactlyOnce
  <2> QED BY <1>2, <1>4, <2>1, <2>2, HeldMembers
<1>7. HeldExactlyOnce'
  BY <1>1, <1>2, <1>3, <1>6 DEF HeldExactlyOnce
<1>8. FreshAreNew'
  <2>1. \A r \in Records : r \in Range(batch[t]) => fate[r] = "held"
    BY <1>1, <1>5 DEF HeldExactlyOnce
  <2>2. \A r \in Records : fate'[r] = "new" <=> fate[r] = "new"
    BY <1>3, <2>1
  <2> QED BY <1>1, <2>2 DEF FreshAreNew
<1>9. OneBatchPerFlush'
  BY <1>1, <1>2 DEF OneBatchPerFlush, Finish, TypeOK
<1> QED BY <1>5, <1>6, <1>7, <1>8, <1>9 DEF IInv

\* Steps that touch neither the records nor the threads that are done.
LEMMA UntouchedHeld ==
  ASSUME IInv, TypeOK', UNCHANGED <<buf, batch, fate, next>>, OneBatchPerFlush'
  PROVE  Held' = Held /\ IInv'
<1>1. Held' = Held
  BY DEF Held
<1> QED BY <1>1 DEF IInv, HeldExactlyOnce, FreshAreNew

LEMMA PostStepIInv ==
  ASSUME IInv, NEW t \in Threads, PostStep(t)
  PROVE  IInv'
<1>1. TypeOK' /\ TypeOK /\ OneBatchPerFlush
  BY PostStepType DEF IInv
<1>2. CASE PostAccepted(t)
  BY <1>1, <1>2, FinishHeld DEF PostAccepted, Fates
<1>3. CASE PostRefused(t)
  BY <1>1, <1>3, FinishHeld DEF PostRefused, Fates
<1>4. CASE PostTimedOut(t)
  <2>1. OneBatchPerFlush'
    BY <1>1, <1>4 DEF PostTimedOut, OneBatchPerFlush, TypeOK
  <2> QED BY <1>1, <1>4, <2>1, UntouchedHeld DEF PostTimedOut
<1>5. CASE PostFailed(t)
  <2>1. OneBatchPerFlush'
    BY <1>1, <1>5 DEF PostFailed, OneBatchPerFlush, TypeOK
  <2> QED BY <1>1, <1>5, <2>1, UntouchedHeld DEF PostFailed
<1> QED BY <1>2, <1>3, <1>4, <1>5 DEF PostStep

\* Putting a batch back owes the same records, less those the bound drops.
LEMMA PutBackHeld ==
  ASSUME IInv, NEW t \in Threads, PutBack(t)
  PROVE  LET D == Dropped(batch[t] \o buf)
         IN  /\ D \subseteq Held
             /\ Held' = Held \ D
             /\ fate' = Marked(D, "dropped")
             /\ IInv'
<1> DEFINE filled == batch[t] \o buf
           D == Dropped(filled)
<1>1. TypeOK /\ HeldExactlyOnce /\ FreshAreNew /\ OneBatchPerFlush /\ TypeOK'
  BY PutBackType DEF IInv
<1>2. /\ filled \in Seq(Records) /\ IsInjective(filled)
      /\ Range(filled) = Range(batch[t]) \cup Range(buf)
  BY <1>1, ConcatSplits DEF TypeOK, HeldExactlyOnce
<1>3. buf' = Trimmed(filled) /\ next' = next
  BY DEF PutBack
<1>4. /\ Range(filled) = Range(buf') \cup D
      /\ IsInjective(buf')
      /\ Range(buf') \cap D = {}
  BY <1>2, <1>3, TrimmedSplits
<1>5. fate' = Marked(D, "dropped")
  BY DEF PutBack
<1> HIDE DEF D, filled
<1>6. /\ batch'[t] = <<>> /\ Range(batch'[t]) = {} /\ IsInjective(batch'[t])
      /\ \A u \in Threads : u # t => batch'[u] = batch[u]
  BY <1>1, EmptyRange DEF PutBack, TypeOK
<1>7. /\ \A u \in Threads : u # t => Range(batch[u]) \cap Range(batch[t]) = {}
      /\ \A u \in Threads : Range(buf) \cap Range(batch[u]) = {}
  BY <1>1 DEF HeldExactlyOnce
<1>8. \A r : r \in Held' <=> r \in Range(buf') \/ \E u \in Threads : r \in Range(batch'[u])
  BY DEF Held
<1>9. D \subseteq Held
  BY <1>2, <1>4, HeldMembers
<1>10. Held' = Held \ D
  BY <1>2, <1>4, <1>6, <1>7, <1>8, HeldMembers
<1>11. HeldExactlyOnce'
  <2>1. \A u \in Threads : Range(buf') \cap Range(batch'[u]) = {}
    BY <1>2, <1>4, <1>6, <1>7
  <2>2. \A r \in Records : fate'[r] = "held" <=> r \in Held'
    BY <1>1, <1>5, <1>10 DEF HeldExactlyOnce, Marked
  <2> QED BY <1>1, <1>4, <1>6, <2>1, <2>2 DEF HeldExactlyOnce
<1>12. FreshAreNew'
  <2>1. \A r \in Records : r \in D => fate[r] = "held"
    BY <1>1, <1>9 DEF HeldExactlyOnce
  <2>2. \A r \in Records : fate'[r] = "new" <=> fate[r] = "new"
    BY <1>5, <2>1 DEF Marked
  <2> QED BY <1>1, <1>3, <2>2 DEF FreshAreNew
<1>13. OneBatchPerFlush'
  BY <1>1, <1>6 DEF OneBatchPerFlush, PutBack, TypeOK
<1> QED BY <1>1, <1>5, <1>9, <1>10, <1>11, <1>12, <1>13 DEF IInv, D, filled

\* A process that ends owes nothing any more.
LEMMA RestartHeld ==
  ASSUME IInv, Restart
  PROVE  Held' = {} /\ IInv'
<1>1. TypeOK /\ HeldExactlyOnce /\ FreshAreNew /\ TypeOK'
  BY RestartType DEF IInv
<1>2. Range(buf') = {} /\ IsInjective(buf') /\ \A u \in Threads : batch'[u] = <<>>
  BY EmptyRange DEF Restart
<1>3. Held' = {}
  BY <1>2, EmptyRange DEF Held
<1>4. HeldExactlyOnce'
  <2>1. \A r \in Records : fate'[r] # "held"
    BY <1>1 DEF Restart
  <2> QED BY <1>2, <1>3, <2>1, EmptyRange DEF HeldExactlyOnce
<1>5. FreshAreNew'
  BY <1>1 DEF Restart, FreshAreNew
<1>6. OneBatchPerFlush'
  BY <1>2 DEF OneBatchPerFlush
<1> QED BY <1>1, <1>3, <1>4, <1>5, <1>6 DEF IInv

LEMMA NextIInv == IInv /\ [Next]_vars => IInv'
<1> SUFFICES ASSUME IInv, [Next]_vars PROVE IInv'
  OBVIOUS
<1>0. TypeOK /\ TypeOK' /\ OneBatchPerFlush
  BY NextType DEF IInv
<1>1. ASSUME NEW t \in Capturers, Insert(t) PROVE IInv'
  BY <1>1, InsertHeld
<1>2. CASE Tick
  <2>1. OneBatchPerFlush'
    BY <1>0, <1>2 DEF Tick, OneBatchPerFlush, TypeOK, Threads
  <2> QED BY <1>0, <1>2, <2>1, UntouchedHeld DEF Tick
<1>3. ASSUME NEW t \in Threads, FlushStep(t) PROVE IInv'
  BY <1>3, TakeBatchHeld, PostStepIInv, PutBackHeld DEF FlushStep
<1>4. CASE BeginExit
  <2>1. OneBatchPerFlush'
    BY <1>0, <1>4 DEF BeginExit, OneBatchPerFlush, TypeOK, Threads
  <2> QED BY <1>0, <1>4, <2>1, UntouchedHeld DEF BeginExit
<1>5. CASE EndExit \/ Crash
  BY <1>5, RestartHeld DEF EndExit, Crash
<1>6. CASE CollectorChanges
  <2>1. OneBatchPerFlush'
    BY <1>0, <1>6 DEF CollectorChanges, OneBatchPerFlush
  <2> QED BY <1>0, <1>6, <2>1, UntouchedHeld DEF CollectorChanges
<1>7. CASE UNCHANGED vars
  <2>1. OneBatchPerFlush'
    BY <1>0, <1>7 DEF vars, OneBatchPerFlush
  <2> QED BY <1>0, <1>7, <2>1, UntouchedHeld DEF vars
<1> QED BY <1>1, <1>2, <1>3, <1>4, <1>5, <1>6, <1>7 DEF Next

\* However flushes, crashes and exits interleave, every record the edge owes
\* the collector is in the buffer or in exactly one batch in flight, once.
THEOREM OwedExactlyOnce == Spec => []HeldExactlyOnce
<1>1. Init => IInv
  BY InitIInv
<1>2. IInv /\ [Next]_vars => IInv'
  BY NextIInv
<1>3. IInv => HeldExactlyOnce
  BY DEF IInv
<1> QED BY <1>1, <1>2, <1>3, PTL DEF Spec

-----------------------------------------------------------------------------
(* The counter counts what the spool dropped.  A record is dropped once: it  *)
(* was owed until then, and nothing that was dropped is owed again.          *)

Gone == {r \in Records : fate[r] = "dropped"}

\* The records dropped from a sequence without duplicates are as many as counted.
LEMMA DroppedCount ==
  ASSUME NEW s \in Seq(Records), IsInjective(s)
  PROVE  IsFiniteSet(Dropped(s)) /\ Cardinality(Dropped(s)) = Excess(s)
<1> DEFINE k == Excess(s)
           pick == [i \in 1..k |-> s[i]]
<1>1. k \in Nat /\ k <= Len(s) /\ DOMAIN s = 1..Len(s)
  BY ExcessType, LenProperties
<1>2. Dropped(s) = {s[i] : i \in 1..k}
  BY DEF Dropped
<1> HIDE DEF k
<1>3. \A i, j \in 1..k : s[i] = s[j] => i = j
  BY <1>1 DEF IsInjective
<1>4. pick \in Bijection(1..k, Dropped(s))
  <2>1. pick \in [1..k -> Dropped(s)] /\ IsInjective(pick)
    BY <1>2, <1>3 DEF IsInjective
  <2>2. \A r \in Dropped(s) : \E i \in 1..k : pick[i] = r
    BY <1>2
  <2> QED BY <2>1, <2>2 DEF Bijection, Injection, Surjection
<1>5. IsFiniteSet(1..k) /\ Cardinality(1..k) = k
  BY <1>1, FS_Interval
<1>6. ExistsBijection(1..k, Dropped(s))
  BY <1>4 DEF ExistsBijection
<1>7. IsFiniteSet(Dropped(s)) /\ Cardinality(Dropped(s)) = Cardinality(1..k)
  BY <1>5, <1>6, FS_Bijection
<1> QED BY <1>5, <1>7 DEF k

\* When records that were not dropped before are, the counter grows by as many.
LEMMA CountedDrop ==
  ASSUME DropsAreCounted, TypeOK, NEW s \in Seq(Records), IsInjective(s),
         Dropped(s) \cap Gone = {}, Gone' = Gone \cup Dropped(s),
         dropped' = dropped + Excess(s)
  PROVE  DropsAreCounted'
<1>1. IsFiniteSet(Dropped(s)) /\ Cardinality(Dropped(s)) = Excess(s)
  BY DroppedCount
<1>2. IsFiniteSet(Gone)
  <2>1. IsFiniteSet(Records)
    BY SinkAssumption, FS_Interval DEF Records
  <2> QED BY <2>1, FS_Subset DEF Gone
<1>3. /\ Cardinality(Gone) = dropped
      /\ dropped \in Nat /\ Excess(s) \in Nat
  BY ExcessType DEF DropsAreCounted, Gone, TypeOK
<1>4. Cardinality(Gone \cup Dropped(s)) =
        Cardinality(Gone) + Cardinality(Dropped(s)) - Cardinality(Gone \cap Dropped(s))
  BY <1>1, <1>2, FS_Union
<1>5. Gone \cap Dropped(s) = {}
  OBVIOUS
<1>6. Cardinality(Gone \cap Dropped(s)) = 0
  BY <1>5, FS_EmptySet
<1>7. Cardinality(Gone') = dropped'
  BY <1>1, <1>3, <1>4, <1>6
<1> QED BY <1>7 DEF DropsAreCounted, Gone

\* A step that drops nothing.
LEMMA NoDrop ==
  ASSUME DropsAreCounted, dropped' = dropped, Gone' = Gone
  PROVE  DropsAreCounted'
BY DEF DropsAreCounted, Gone

LEMMA NextCounted == DropsAreCounted /\ IInv /\ [Next]_vars => DropsAreCounted'
<1> SUFFICES ASSUME DropsAreCounted, IInv, [Next]_vars PROVE DropsAreCounted'
  OBVIOUS
<1>1. TypeOK /\ HeldExactlyOnce /\ FreshAreNew
  BY DEF IInv
<1>2. ASSUME NEW r \in Held PROVE r \in Records /\ fate[r] = "held"
  BY <1>1, <1>2, HeldMembers, RangeIsItems DEF HeldExactlyOnce, TypeOK
<1>3. ASSUME NEW t \in Capturers, Insert(t) PROVE DropsAreCounted'
  <2> DEFINE filled == Append(buf, next)
             D == Dropped(filled)
  <2>1. next \in Records /\ fate[next] = "new"
    BY <1>1, <1>3, NextIsRecord DEF Insert, FreshAreNew, Records
  <2>2. filled \in Seq(Records) /\ IsInjective(filled)
    <3>1. next \notin Held
      BY <1>2, <2>1
    <3>2. next \notin Range(buf)
      BY <3>1, HeldMembers
    <3> QED BY <1>1, <2>1, <3>2, AppendSplits DEF TypeOK, HeldExactlyOnce
  <2>3. /\ D \subseteq Held \cup {next}
        /\ fate' = [r \in Records |-> IF r \in D THEN "dropped"
                                      ELSE IF r = next THEN "held" ELSE fate[r]]
    BY <1>3, InsertHeld
  <2>4. dropped' = dropped + Excess(filled)
    BY <1>3 DEF Insert
  <2> HIDE DEF filled
  <2>5. D \cap Gone = {} /\ Gone' = Gone \cup D
    <3> HIDE DEF D
    <3> QED BY <1>2, <2>1, <2>3 DEF Gone
  <2> QED BY <1>1, <2>2, <2>4, <2>5, CountedDrop
<1>4. ASSUME NEW t \in Threads, PutBack(t) PROVE DropsAreCounted'
  <2> DEFINE filled == batch[t] \o buf
             D == Dropped(filled)
  <2>1. filled \in Seq(Records) /\ IsInjective(filled)
    BY <1>1, ConcatSplits DEF TypeOK, HeldExactlyOnce
  <2>2. D \subseteq Held /\ fate' = Marked(D, "dropped")
    BY <1>4, PutBackHeld
  <2>3. dropped' = dropped + Excess(filled)
    BY <1>4 DEF PutBack
  <2> HIDE DEF filled
  <2>4. D \cap Gone = {} /\ Gone' = Gone \cup D
    <3> HIDE DEF D
    <3> QED BY <1>2, <2>2 DEF Gone, Marked
  <2> QED BY <1>1, <2>1, <2>3, <2>4, CountedDrop
<1>5. ASSUME NEW t \in Threads, PostStep(t) PROVE DropsAreCounted'
  <2>1. dropped' = dropped
    BY <1>5 DEF PostStep, PostAccepted, PostRefused, PostTimedOut, PostFailed
  <2>2. \A r \in Range(batch[t]) : fate[r] = "held"
    BY <1>2, HeldMembers
  <2>3. fate' = fate \/ \E f \in {"acked", "refused"} : fate' = Marked(Range(batch[t]), f)
    BY <1>5 DEF PostStep, PostAccepted, PostRefused, PostTimedOut, PostFailed, Finish
  <2>4. Gone' = Gone
    BY <2>2, <2>3 DEF Gone, Marked
  <2> QED BY <2>1, <2>4, NoDrop
<1>6. CASE EndExit \/ Crash
  <2>1. /\ dropped' = 0
        /\ fate' = [r \in Records |->
                      IF fate[r] \in {"held", "dropped"} THEN "forgotten" ELSE fate[r]]
    BY <1>6 DEF EndExit, Crash, Restart
  <2>2. Gone' = {}
    BY <2>1 DEF Gone
  <2> QED BY <2>1, <2>2, FS_EmptySet DEF DropsAreCounted, Gone
<1>7. ASSUME UNCHANGED <<dropped, fate>> PROVE DropsAreCounted'
  BY <1>7, NoDrop DEF Gone
<1>8. \/ \E t \in Capturers : Insert(t)
      \/ \E t \in Threads : PutBack(t) \/ PostStep(t)
      \/ EndExit \/ Crash
      \/ UNCHANGED <<dropped, fate>>
  BY DEF Next, FlushStep, TakeBatch, Tick, BeginExit, CollectorChanges, vars
<1> QED BY <1>3, <1>4, <1>5, <1>6, <1>7, <1>8

\* The counter that stats() shows is the number of records that the spool of
\* this process dropped, at either of the two places that drop.
THEOREM DropCounterIsExact == Spec => []DropsAreCounted
<1>1. Init => DropsAreCounted
  <2>1. Init => Gone = {} /\ dropped = 0
    BY DEF Init, Gone
  <2> QED BY <2>1, FS_EmptySet DEF DropsAreCounted, Gone
<1>2. Spec => []IInv
  BY InitIInv, NextIInv, PTL DEF Spec
<1> QED BY <1>1, <1>2, NextCounted, PTL DEF Spec

-----------------------------------------------------------------------------
(* What was acknowledged is stored. *)

LEMMA NextAcked == AckedAreStored /\ TypeOK /\ [Next]_vars => AckedAreStored'
<1> SUFFICES ASSUME AckedAreStored, TypeOK, [Next]_vars PROVE AckedAreStored'
  OBVIOUS
<1>1. ASSUME NEW t \in Capturers, Insert(t) PROVE AckedAreStored'
  <2> DEFINE M == Marked(Dropped(Append(buf, next)), "dropped")
  <2>1. \A r \in Records : M[r] = "acked" => r \in stored
    BY DEF Marked, AckedAreStored
  <2>2. M \in [Records -> Fates]
    BY MarkedType DEF Fates
  <2>3. /\ \E f \in {"dropped", "held"} : fate' = [M EXCEPT ![next] = f]
        /\ stored' = stored
    BY <1>1 DEF Insert
  <2> HIDE DEF M
  <2> QED BY <2>1, <2>2, <2>3 DEF AckedAreStored
<1>2. CASE Tick
  BY <1>2 DEF Tick, AckedAreStored
<1>3. ASSUME NEW t \in Threads, TakeBatch(t) PROVE AckedAreStored'
  BY <1>3 DEF TakeBatch, AckedAreStored
<1>4. ASSUME NEW t \in Threads, PostStep(t) PROVE AckedAreStored'
  BY <1>4 DEF PostStep, PostAccepted, PostRefused, PostTimedOut, PostFailed,
              Finish, Marked, AckedAreStored
<1>5. ASSUME NEW t \in Threads, PutBack(t) PROVE AckedAreStored'
  BY <1>5 DEF PutBack, Marked, AckedAreStored
<1>6. CASE EndExit \/ Crash
  BY <1>6 DEF EndExit, Crash, Restart, AckedAreStored
<1>7. CASE BeginExit \/ CollectorChanges \/ UNCHANGED vars
  BY <1>7 DEF BeginExit, CollectorChanges, vars, AckedAreStored
<1> QED BY <1>1, <1>2, <1>3, <1>4, <1>5, <1>6, <1>7 DEF Next, FlushStep

\* The sink never lets go of a record as delivered that the collector lacks.
THEOREM AcknowledgedIsStored == Spec => []AckedAreStored
<1>1. Init => AckedAreStored
  BY DEF Init, AckedAreStored
<1> QED BY <1>1, NextAcked, TypeCorrect, PTL DEF Spec

-----------------------------------------------------------------------------
(* The sink implements the at-least-once channel: every step of the sink is  *)
(* a step of the channel or leaves it alone.                                 *)

Lost == {r \in Records : fate[r] \in {"dropped", "refused", "forgotten"}}

LEMMA ChannelVars ==
  Channel!vars = <<1..(next - 1), Held, stored, Lost>>
BY DEF Channel!vars, Lost

LEMMA InitRefines == Init => Channel!Init
<1> SUFFICES ASSUME Init PROVE Channel!Init
  OBVIOUS
<1>1. Held = {}
  BY EmptyRange DEF Init, Held
<1>2. 1..(next - 1) = {}
  BY DEF Init
<1> QED BY <1>1, <1>2 DEF Init, Channel!Init

LEMMA InsertRefines ==
  ASSUME IInv, NEW t \in Capturers, Insert(t)
  PROVE  Channel!Next
<1> DEFINE D == Dropped(Append(buf, next))
<1>1. /\ D \subseteq Held \cup {next}
      /\ Held' = (Held \cup {next}) \ D
      /\ fate' = [r \in Records |-> IF r \in D THEN "dropped"
                                  ELSE IF r = next THEN "held" ELSE fate[r]]
  BY InsertHeld
<1>2. next \in Records /\ next \in Nat
  BY NextIsRecord DEF IInv, Insert, Records
<1>3. next' = next + 1 /\ stored' = stored
  BY DEF Insert
<1>4. next \notin 1..(next - 1) /\ 1..(next' - 1) = 1..(next - 1) \cup {next}
  BY <1>2, <1>3 DEF Records
<1>5. D \subseteq Records
  <2>1. Held \subseteq Records
    BY HeldMembers, RangeIsItems DEF IInv, TypeOK
  <2> QED BY <1>1, <1>2, <2>1
<1>6. fate[next] = "new"
  BY <1>2 DEF IInv, FreshAreNew
<1> HIDE DEF D
<1>7. Lost' = Lost \cup D
  BY <1>1, <1>5, <1>6 DEF Lost
<1>8. Channel!Send(next, D)
  BY <1>1, <1>3, <1>4, <1>7 DEF Channel!Send, Lost
<1> QED BY <1>1, <1>2, <1>8 DEF Channel!Next, Channel!Send

LEMMA PostStepRefines ==
  ASSUME IInv, NEW t \in Threads, PostStep(t)
  PROVE  Channel!Next \/ UNCHANGED Channel!vars
<1> DEFINE S == Range(batch[t])
<1>1. S \subseteq Held /\ S \subseteq Records
  BY HeldMembers, RangeIsItems DEF IInv, TypeOK
<1>2. TypeOK'
  BY PostStepType DEF IInv
<1>3. \A r \in Records : r \in S => fate[r] = "held"
  BY <1>1 DEF IInv, HeldExactlyOnce
<1>4. CASE PostAccepted(t)
  <2>1. Held' = Held \ S
    BY <1>2, <1>4, FinishHeld DEF PostAccepted, Fates
  <2>2. Lost' = Lost
    BY <1>3, <1>4 DEF PostAccepted, Finish, Marked, Lost
  <2>3. Channel!Deliver(S)
    BY <1>4, <2>1, <2>2 DEF PostAccepted, Channel!Deliver, Lost
  <2> QED BY <1>1, <2>3 DEF Channel!Next
<1>5. CASE PostRefused(t)
  <2>1. Held' = Held \ S
    BY <1>2, <1>5, FinishHeld DEF PostRefused, Fates
  <2>2. Lost' = Lost \cup S
    BY <1>1, <1>5 DEF PostRefused, Finish, Marked, Lost
  <2>3. Channel!GiveUp(S)
    BY <1>5, <2>1, <2>2 DEF PostRefused, Channel!GiveUp, Lost
  <2> QED BY <1>1, <2>3 DEF Channel!Next, Channel!GiveUp
<1>6. CASE PostTimedOut(t)
  <2>1. Held' = Held /\ Lost' = Lost /\ next' = next
    BY <1>6 DEF PostTimedOut, Held, Lost
  <2>2. CASE Fits(t)
    <3>1. Channel!Deliver(S)
      BY <1>6, <2>1, <2>2 DEF PostTimedOut, Channel!Deliver, Lost
    <3> QED BY <1>1, <3>1 DEF Channel!Next
  <2>3. CASE ~Fits(t)
    BY <1>6, <2>1, <2>3, ChannelVars DEF PostTimedOut, Channel!vars, Lost
  <2> QED BY <2>2, <2>3
<1>7. CASE PostFailed(t)
  BY <1>7 DEF PostFailed, Channel!vars, Held
<1> QED BY <1>4, <1>5, <1>6, <1>7 DEF PostStep

LEMMA PutBackRefines ==
  ASSUME IInv, NEW t \in Threads, PutBack(t)
  PROVE  Channel!Next
<1> DEFINE D == Dropped(batch[t] \o buf)
<1>1. D \subseteq Held /\ Held' = Held \ D /\ fate' = Marked(D, "dropped")
  BY PutBackHeld
<1>2. Held \subseteq Records
  BY HeldMembers, RangeIsItems DEF IInv, TypeOK
<1> HIDE DEF D
<1>3. Lost' = Lost \cup D
  BY <1>1, <1>2 DEF Lost, Marked
<1>4. Channel!GiveUp(D)
  BY <1>1, <1>3 DEF PutBack, Channel!GiveUp, Lost
<1> QED BY <1>1, <1>4 DEF Channel!Next, Channel!GiveUp

LEMMA RestartRefines ==
  ASSUME IInv, Restart
  PROVE  Channel!Next
<1>1. Held' = {}
  BY RestartHeld
<1>2. Held \subseteq Records /\ \A r \in Records : fate[r] = "held" <=> r \in Held
  BY HeldMembers, RangeIsItems DEF IInv, TypeOK, HeldExactlyOnce
<1>3. Lost' = Lost \cup Held
  BY <1>2 DEF Restart, Lost
<1>4. Channel!GiveUp(Held)
  BY <1>1, <1>3 DEF Restart, Channel!GiveUp, Lost
<1> QED BY <1>4 DEF Channel!Next, Channel!GiveUp

LEMMA NextRefines == IInv /\ [Next]_vars => [Channel!Next]_(Channel!vars)
<1> SUFFICES ASSUME IInv, [Next]_vars PROVE Channel!Next \/ UNCHANGED Channel!vars
  OBVIOUS
<1>1. ASSUME NEW t \in Capturers, Insert(t) PROVE Channel!Next
  BY <1>1, InsertRefines
<1>2. ASSUME NEW t \in Threads, TakeBatch(t) PROVE UNCHANGED Channel!vars
  BY <1>2, TakeBatchHeld DEF TakeBatch, Channel!vars
<1>3. ASSUME NEW t \in Threads, PostStep(t) PROVE Channel!Next \/ UNCHANGED Channel!vars
  BY <1>3, PostStepRefines
<1>4. ASSUME NEW t \in Threads, PutBack(t) PROVE Channel!Next
  BY <1>4, PutBackRefines
<1>5. CASE EndExit \/ Crash
  BY <1>5, RestartRefines DEF EndExit, Crash
<1>6. CASE Tick \/ BeginExit \/ CollectorChanges \/ UNCHANGED vars
  BY <1>6 DEF Tick, BeginExit, CollectorChanges, vars, Channel!vars, Held
<1> QED BY <1>1, <1>2, <1>3, <1>4, <1>5, <1>6 DEF Next, FlushStep

\* Buffer, threads and batches together are an at-least-once channel: nothing
\* is stored that was not sent, and nothing that was sent vanishes.
THEOREM Refinement == Spec => ImplementsChannel
<1>1. Init => IInv /\ Channel!Init
  BY InitIInv, InitRefines
<1>2. IInv /\ [Next]_vars => IInv' /\ [Channel!Next]_(Channel!vars)
  BY NextIInv, NextRefines
<1> QED BY <1>1, <1>2, PTL DEF Spec, ImplementsChannel, Channel!Spec
=============================================================================
