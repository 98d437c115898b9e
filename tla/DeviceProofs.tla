---------------------------- MODULE DeviceProofs ----------------------------
(***************************************************************************)
(* Proofs about what runs on a developer's device: Edge, for any scene of  *)
(* calls, workers and restarts and any bounds of its caches; and Agent,    *)
(* for every registry of tools, any number of calls and of supervisors,    *)
(* and any series of installations and restarts.                           *)
(***************************************************************************)
EXTENDS Edge, Agent, FiniteSetTheorems, SequenceTheorems, WellFoundedInduction, TLAPS

-----------------------------------------------------------------------------
(* What a worker's slot holds at each step of a capture.                   *)

\* The stages of a capture that has a label, or "none".
Labelling == {"teach", "look", "hit", "ask", "keep", "save", "write", "stat"}

\* What a worker holds at each stage.
Holding(s) ==
  /\ s.call \in Calls
  /\ \/ s.at = "monitor" /\ s = [at |-> s.at, call |-> s.call]
     \/ s.at = "observe" /\ s = [at |-> s.at, call |-> s.call, monitor |-> s.monitor]
     \/ s.at = "classify" /\ s = [at |-> s.at, call |-> s.call, signals |-> s.signals]
     \/ /\ s.at \in Labelling
        /\ s = [at |-> s.at, call |-> s.call, signals |-> s.signals, label |-> s.label, source |-> s.source]
     \/ s.at \in {"toast", "show"} /\ s = [at |-> s.at, call |-> s.call, kinds |-> s.kinds]

\* The inductive invariant: each worker has a capture in one of these shapes.
InHand ==
  /\ scene \in Scenes
  /\ slot = [w \in Workers |-> slot[w]]
  /\ \A w \in Workers : slot[w] = Idle \/ Holding(slot[w])

\* A step of one worker: its own slot, and "show" only from Allowed.
Own(w) ==
  /\ UNCHANGED scene
  /\ slot' = [slot EXCEPT ![w] = slot'[w]]
  /\ slot'[w] = Idle \/ Holding(slot'[w])
  /\ slot'[w].at = "show" => Allowed(w)

\* What the steps of a worker leave in its slot.
LEMMA ToastingIs ==
  ASSUME InHand, NEW w \in Workers, NEW c \in Calls, NEW kinds, Toasting(w, c, kinds)
  PROVE  /\ slot' = [slot EXCEPT ![w] = slot'[w]]
         /\ slot'[w] = Idle \/ Holding(slot'[w])
         /\ slot'[w].at # "show"
BY DEF Toasting, InHand, Holding, Idle

\* Nothing but the stage of the capture changes.
LEMMA StageIs ==
  ASSUME InHand, NEW w \in Workers, slot[w].at \in Labelling, NEW at \in Labelling,
         slot' = [slot EXCEPT ![w].at = at]
  PROVE  /\ slot' = [slot EXCEPT ![w] = slot'[w]]
         /\ Holding(slot'[w])
         /\ slot'[w].at # "show"
BY DEF InHand, Holding, Idle, Labelling

\* The capture has the label of the LLM.
LEMMA LabelledIs ==
  ASSUME InHand, NEW w \in Workers, slot[w].at \in Labelling, NEW label, Labelled(w, label)
  PROVE  /\ slot' = [slot EXCEPT ![w] = slot'[w]]
         /\ Holding(slot'[w])
         /\ slot'[w].at # "show"
<1>1. Holding(slot[w]) /\ slot[w] = [at |-> slot[w].at, call |-> slot[w].call, signals |-> slot[w].signals,
                                     label |-> slot[w].label, source |-> slot[w].source]
  BY DEF InHand, Holding, Idle, Labelling
<1>2. slot' = [slot EXCEPT ![w] = slot'[w]]
  BY DEF Labelled, InHand
<1>3. slot'[w] = [[[slot[w] EXCEPT !.at = "teach"] EXCEPT !.label = label] EXCEPT !.source = "llm"]
  BY DEF Labelled, InHand
<1>4. slot'[w] = [at |-> "teach", call |-> slot[w].call, signals |-> slot[w].signals,
                  label |-> label, source |-> "llm"]
  BY <1>1, <1>3
<1> QED BY <1>1, <1>2, <1>4 DEF Holding, Labelling

\* A worker that is not idle has a call in hand.
LEMMA CallIs ==
  ASSUME InHand, NEW w \in Workers, slot[w].at # "idle"
  PROVE  Holding(slot[w]) /\ slot[w].call \in Calls
BY DEF InHand, Holding, Idle

\* The steps of a capture, one by one, down to CaptureOwn.
LEMMA DiffOwn ==
  ASSUME InHand, NEW w \in Workers, NEW c \in Calls, Diff(w, c)
  PROVE  Own(w)
BY DEF Diff, Own, InHand, Holding

LEMMA UnparseableOwn ==
  ASSUME InHand, NEW w \in Workers, NEW c \in Calls, Unparseable(w, c)
  PROVE  Own(w)
BY DEF Unparseable, Own, InHand, Idle

LEMMA MonitorForOwn ==
  ASSUME InHand, NEW w \in Workers, MonitorFor(w)
  PROVE  Own(w)
<1> USE CallIs
<1> QED BY DEF MonitorFor, Own, InHand, Holding

LEMMA ObserveOwn ==
  ASSUME InHand, NEW w \in Workers, Observe(w)
  PROVE  Own(w)
BY CallIs DEF Observe, Own, InHand, Holding

LEMMA ClassifyOwn ==
  ASSUME InHand, NEW w \in Workers, Classify(w)
  PROVE  Own(w)
<1>1. slot[w].at = "classify" /\ UNCHANGED scene
  BY DEF Classify
<1>2. PICK type : slot' = [slot EXCEPT ![w] =
              [at |-> IF type[2] = "branch" THEN "teach"
                      ELSE IF type[2] = "none" /\ Replies[Call[slot[w].call].prompt] # {} THEN "look" ELSE "keep",
               call |-> @.call, signals |-> @.signals, label |-> type[1], source |-> type[2]]]
  BY DEF Classify
<1> QED BY <1>1, <1>2, CallIs DEF Own, InHand, Holding, Labelling

LEMMA TeachOwn ==
  ASSUME InHand, NEW w \in Workers, Teach(w)
  PROVE  Own(w)
<1>1. slot[w].at = "teach" /\ UNCHANGED scene
  BY DEF Teach
<1>2. \E at \in Labelling : slot' = [slot EXCEPT ![w].at = at]
  BY DEF Teach, Labelling
<1> QED BY <1>1, <1>2, StageIs DEF Own, Labelling

LEMMA ShowOwn ==
  ASSUME InHand, NEW w \in Workers, Show(w) \/ TooSoon(w)
  PROVE  Own(w)
<1>1. slot[w].at # "idle" /\ UNCHANGED scene
  BY DEF Show, TooSoon
<1>2. \E kinds : Toasting(w, slot[w].call, kinds)
  BY DEF Show, TooSoon
<1> QED BY <1>1, <1>2, CallIs, ToastingIs DEF Own

LEMMA KeepOwn ==
  ASSUME InHand, NEW w \in Workers, Keep(w)
  PROVE  Own(w)
<1>1. slot[w].at # "idle" /\ UNCHANGED scene
  BY DEF Keep
<1>2. \E kinds : Toasting(w, slot[w].call, kinds)
  BY DEF Keep
<1> QED BY <1>1, <1>2, CallIs, ToastingIs DEF Own

LEMMA AllowedOwn ==
  ASSUME InHand, NEW w \in Workers, Allowed(w)
  PROVE  Own(w)
BY CallIs DEF Allowed, Own, InHand, Holding, Labelling

LEMMA LabelOwn ==
  ASSUME InHand, NEW w \in Workers,
         \/ Look(w) \/ Hit(w) \/ HitIsGone(w) \/ Answered(w) \/ NoAnswer(w)
         \/ Truncate(w) \/ Write(w) \/ Stat(w)
  PROVE  Own(w)
<1>1. slot[w].at \in Labelling /\ UNCHANGED scene
  BY DEF Look, Hit, HitIsGone, Answered, NoAnswer, Truncate, Write, Stat, Labelling
<1>2. CASE \E label : Labelled(w, label)
  BY <1>1, <1>2, LabelledIs DEF Own
<1>3. CASE \E at \in Labelling : slot' = [slot EXCEPT ![w].at = at]
  BY <1>1, <1>3, StageIs DEF Own
<1>4. CASE slot' = [slot EXCEPT ![w] = Idle]
  BY <1>1, <1>4 DEF Own, InHand, Idle
<1>5. \/ \E label : Labelled(w, label)
      \/ \E at \in Labelling : slot' = [slot EXCEPT ![w].at = at]
      \/ slot' = [slot EXCEPT ![w] = Idle]
  BY DEF Look, Hit, HitIsGone, Answered, NoAnswer, Truncate, Write, Stat, Labelling
<1> QED BY <1>2, <1>3, <1>4, <1>5

\* Every step of a capture is a step of its worker only.
LEMMA CaptureOwn ==
  ASSUME InHand, NEW w \in Workers, Capture(w) \/ \E c \in Calls : Diff(w, c) \/ Unparseable(w, c)
  PROVE  Own(w)
BY DiffOwn, UnparseableOwn, MonitorForOwn, ObserveOwn, ClassifyOwn, TeachOwn, ShowOwn, KeepOwn,
   AllowedOwn, LabelOwn DEF Capture

\* No worker has anything in hand at first.
LEMMA InHandInit == Init => InHand
BY DEF Init, InHand, Workers

\* No step leaves a slot in another shape.
LEMMA InHandNext == InHand /\ [Next]_vars => InHand'
<1> SUFFICES ASSUME InHand, [Next]_vars PROVE InHand'
  OBVIOUS
<1>1. CASE \E w \in Workers : Capture(w) \/ \E c \in Calls : Diff(w, c) \/ Unparseable(w, c)
  BY <1>1, CaptureOwn DEF Own, InHand, Workers
<1>2. CASE Tick \/ UNCHANGED vars
  BY <1>2 DEF Tick, vars, InHand, Workers, Holding
<1>3. CASE \E p \in Processes : Restart(p)
  <2>1. PICK p \in Processes : Restart(p)
    BY <1>3
  <2>2. /\ UNCHANGED scene
        /\ \E mine : slot' = [w \in Workers |-> IF w \in mine THEN Idle ELSE slot[w]]
    BY <2>1 DEF Restart
  <2> QED BY <2>2 DEF InHand, Workers, Holding
<1> QED BY <1>1, <1>2, <1>3 DEF Next

-----------------------------------------------------------------------------
(* The debouncer.  A capture is allowed only when nothing was shown in the *)
(* last cooldown, so that those that are allowed and those that were shown *)
(* since are together no more than the threads.                            *)

\* The workers of a process, and those of them about to show a kind.
Mine(p) == {w \in Workers : Proc(w) = p}
Shows(p, k) == {w \in Mine(p) : slot[w].at = "show" /\ Head(slot[w].kinds) = k}

\* The inductive invariant.
Debounced ==
  /\ last \in [Processes -> [Kinds -> Nat]]
  /\ shown \in [Processes -> [Kinds -> Seq(Nat)]]
  /\ \A p \in Processes, k \in Kinds :
       /\ \A n \in DOMAIN shown[p][k] : shown[p][k][n] >= last[p][k]
       /\ last[p][k] >= Cooldown => shown[p][k] = <<>>
       /\ Len(shown[p][k]) + Cardinality(Shows(p, k)) <= Cardinality(Mine(p))

\* The workers of a process, and those that are about to show, can be counted.
LEMMA CrowdIsFinite ==
  ASSUME InHand, NEW p, NEW k
  PROVE  /\ IsFiniteSet(Mine(p)) /\ Cardinality(Mine(p)) \in Nat
         /\ IsFiniteSet(Shows(p, k)) /\ Cardinality(Shows(p, k)) \in Nat
         /\ Cardinality(Shows(p, k)) <= Cardinality(Mine(p))
<1>1. IsFiniteSet(Workers) /\ Mine(p) \subseteq Workers /\ Shows(p, k) \subseteq Mine(p)
  BY EdgeAssumption DEF InHand, Workers, Mine, Shows
<1> QED BY <1>1, FS_Subset, FS_CardinalityType

\* What the steps of a worker do to those that are about to show.
LEMMA ShowsAfter ==
  ASSUME InHand, NEW w \in Workers, Own(w), NEW p, NEW k
  PROVE  /\ Mine(p)' = Mine(p)
         /\ Shows(p, k)' \subseteq Shows(p, k) \cup {w}
         /\ slot'[w].at # "show" => Shows(p, k)' = Shows(p, k) \ {w}
BY DEF Own, InHand, Mine, Shows, Workers, Proc

\* A step that shows nothing and allows nothing.
LEMMA FewerShow ==
  ASSUME InHand, InHand', Debounced, UNCHANGED toasts,
         \A p, k : Mine(p)' = Mine(p) /\ Shows(p, k)' \subseteq Shows(p, k)
  PROVE  Debounced'
<1>1. ASSUME NEW p, NEW k
      PROVE  /\ Cardinality(Shows(p, k)') \in Nat /\ Cardinality(Shows(p, k)) \in Nat
             /\ Cardinality(Shows(p, k)') <= Cardinality(Shows(p, k))
  BY CrowdIsFinite, FS_Subset, FS_CardinalityType
<1>2. ASSUME NEW p \in Processes, NEW k \in Kinds
      PROVE  Len(shown[p][k]) + Cardinality(Shows(p, k)') <= Cardinality(Mine(p)')
  <2>1. Len(shown[p][k]) \in Nat /\ Len(shown[p][k]) + Cardinality(Shows(p, k)) <= Cardinality(Mine(p))
    BY DEF Debounced
  <2>2. Cardinality(Mine(p)) \in Nat /\ Mine(p)' = Mine(p)
    BY CrowdIsFinite
  <2> QED BY <1>1, <2>1, <2>2
<1> QED BY <1>2 DEF Debounced, toasts

\* Nothing was shown in the last cooldown, so that there is room for one more.
LEMMA AllowedDebounced ==
  ASSUME InHand, InHand', Debounced, NEW w \in Workers, Allowed(w)
  PROVE  Debounced'
<1> DEFINE p == Proc(w)
           k == Head(slot[w].kinds)
<1>1. /\ UNCHANGED <<last, shown, scene>> /\ last[p][k] >= Cooldown
      /\ slot[w].at = "toast" /\ slot' = [slot EXCEPT ![w].at = "show"]
  BY DEF Allowed, toasts
<1>2. slot'[w] = [at |-> "show", call |-> slot[w].call, kinds |-> slot[w].kinds]
  <2>1. slot[w] = [at |-> slot[w].at, call |-> slot[w].call, kinds |-> slot[w].kinds]
    BY <1>1, CallIs DEF Holding, Labelling
  <2>2. slot'[w] = [slot[w] EXCEPT !.at = "show"]
    BY <1>1 DEF InHand
  <2> QED BY <1>1, <2>1, <2>2
<1>3. \A q : Mine(q)' = Mine(q)
  BY <1>1 DEF Mine, Workers, Proc
<1>4. \A q \in Processes, j \in Kinds : q # p \/ j # k => Shows(q, j)' \subseteq Shows(q, j)
  BY <1>1, <1>2, <1>3 DEF Shows, Mine, InHand
<1>5. ASSUME NEW q \in Processes, NEW j \in Kinds
      PROVE  Len(shown[q][j]) + Cardinality(Shows(q, j)') <= Cardinality(Mine(q)')
  <2>1. /\ Cardinality(Shows(q, j)') \in Nat /\ Cardinality(Shows(q, j)) \in Nat
        /\ Cardinality(Shows(q, j)') <= Cardinality(Mine(q)') /\ Cardinality(Mine(q)) \in Nat
    <3>1. Shows(q, j)' \subseteq Mine(q)
      BY <1>3 DEF Shows
    <3> QED BY <1>3, <3>1, CrowdIsFinite, FS_Subset, FS_CardinalityType
  <2>2. CASE q = p /\ j = k
    <3>1. Len(shown[q][j]) = 0
      BY <1>1, <2>2 DEF Debounced
    <3> QED BY <2>1, <3>1
  <2>3. CASE q # p \/ j # k
    <3>1. Len(shown[q][j]) \in Nat /\ Len(shown[q][j]) + Cardinality(Shows(q, j)) <= Cardinality(Mine(q))
      BY DEF Debounced
    <3>2. Cardinality(Shows(q, j)') <= Cardinality(Shows(q, j))
      BY <1>4, <2>3, CrowdIsFinite, FS_Subset
    <3> QED BY <1>3, <2>1, <3>1, <3>2
  <2> QED BY <2>2, <2>3
<1> QED BY <1>1, <1>5 DEF Debounced

\* One that was about to show has shown.
LEMMA ShowDebounced ==
  ASSUME InHand, InHand', Debounced, NEW w \in Workers, Show(w)
  PROVE  Debounced'
<1> DEFINE p == Proc(w)
           k == Head(slot[w].kinds)
<1>1. /\ slot[w].at = "show"
      /\ last' = [last EXCEPT ![p][k] = 0]
      /\ shown' = [shown EXCEPT ![p][k] = Append(@, 0)]
  BY DEF Show, Stamped
<1>2. Own(w) /\ slot'[w].at # "show"
  BY ShowOwn, CallIs, ToastingIs DEF Show
<1>3. \A q, j : Mine(q)' = Mine(q) /\ Shows(q, j)' = Shows(q, j) \ {w}
  BY <1>2, ShowsAfter
<1>4. Cooldown \in Nat \ {0}
  BY EdgeAssumption
<1>5. last' \in [Processes -> [Kinds -> Nat]]
  BY <1>1 DEF Debounced
<1>6. shown' \in [Processes -> [Kinds -> Seq(Nat)]]
  <2>1. ASSUME NEW q \in Processes
        PROVE  shown'[q] \in [Kinds -> Seq(Nat)]
    <3>1. shown[q] \in [Kinds -> Seq(Nat)]
      BY DEF Debounced
    <3>2. k \in Kinds => Append(shown[q][k], 0) \in Seq(Nat)
      BY <3>1
    <3>3. shown'[q] = IF q = p THEN [shown[q] EXCEPT ![k] = Append(shown[q][k], 0)] ELSE shown[q]
      BY <1>1 DEF Debounced
    <3> HIDE DEF p, k
    <3> QED BY <3>1, <3>2, <3>3
  <2>2. shown' = [q \in Processes |-> shown'[q]]
    BY <1>1 DEF Debounced
  <2> QED BY <2>1, <2>2
<1>7. ASSUME NEW q \in Processes, NEW j \in Kinds
      PROVE  /\ \A n \in DOMAIN shown'[q][j] : shown'[q][j][n] >= last'[q][j]
             /\ last'[q][j] >= Cooldown => shown'[q][j] = <<>>
             /\ Len(shown'[q][j]) + Cardinality(Shows(q, j)') <= Cardinality(Mine(q)')
  <2>1. /\ Cardinality(Shows(q, j)') \in Nat /\ Cardinality(Shows(q, j)) \in Nat
        /\ IsFiniteSet(Shows(q, j)) /\ Cardinality(Mine(q)) \in Nat
    BY <1>3, CrowdIsFinite, FS_Subset, FS_CardinalityType
  <2>2. /\ \A n \in DOMAIN shown[q][j] : shown[q][j][n] >= last[q][j]
        /\ last[q][j] >= Cooldown => shown[q][j] = <<>>
        /\ Len(shown[q][j]) + Cardinality(Shows(q, j)) <= Cardinality(Mine(q))
        /\ shown[q][j] \in Seq(Nat)
    BY DEF Debounced
  <2>3. CASE q = p /\ j = k
    <3>1. last'[q][j] = 0 /\ shown'[q][j] = Append(shown[q][j], 0)
      BY <1>1, <2>3 DEF Debounced
    <3>2. w \in Shows(q, j)
      BY <1>1, <2>3 DEF Shows, Mine
    <3>3. Cardinality(Shows(q, j)') = Cardinality(Shows(q, j)) - 1
      BY <1>3, <2>1, <3>2, FS_RemoveElement
    <3>4. \A n \in DOMAIN shown'[q][j] : shown'[q][j][n] \in Nat
      BY <1>6, <2>2
    <3>5. Len(shown'[q][j]) = Len(shown[q][j]) + 1 /\ Len(shown[q][j]) \in Nat
      BY <2>2, <3>1
    <3> HIDE DEF p, k
    <3>6. \A n \in DOMAIN shown'[q][j] : shown'[q][j][n] >= last'[q][j]
      BY <3>1, <3>4
    <3>7. ~(last'[q][j] >= Cooldown)
      BY <1>4, <3>1
    <3>8. Len(shown'[q][j]) + Cardinality(Shows(q, j)') <= Cardinality(Mine(q)')
      BY <1>3, <2>1, <2>2, <3>3, <3>5
    <3> QED BY <3>6, <3>7, <3>8
  <2>4. CASE q # p \/ j # k
    <3>1. last'[q][j] = last[q][j] /\ shown'[q][j] = shown[q][j]
      BY <1>1, <2>4 DEF Debounced
    <3>2. Cardinality(Shows(q, j)') <= Cardinality(Shows(q, j))
      BY <1>3, <2>1, FS_Subset
    <3>3. Len(shown[q][j]) \in Nat
      BY <2>2
    <3> HIDE DEF p, k
    <3> QED BY <1>3, <2>1, <2>2, <3>1, <3>2, <3>3
  <2> QED BY <2>3, <2>4
<1> QED BY <1>5, <1>6, <1>7 DEF Debounced

\* What is still in the cooldown after a tick.
LEMMA LaterIs ==
  ASSUME NEW ages \in Seq(Nat), NEW age \in Nat, \A n \in DOMAIN ages : ages[n] >= age
  PROVE  /\ Later(ages) \in Seq(Nat)
         /\ Len(Later(ages)) <= Len(ages)
         /\ \A n \in DOMAIN Later(ages) : Later(ages)[n] >= age + 1
         /\ age + 1 >= Cooldown => Later(ages) = <<>>
<1> DEFINE all == {n \in DOMAIN ages : ages[n] + 1 >= Cooldown}
           gone == Cardinality(all)
<1>1. all \subseteq 1..Len(ages) /\ Len(ages) \in Nat
  OBVIOUS
<1>2. IsFiniteSet(1..Len(ages)) /\ Cardinality(1..Len(ages)) = Len(ages)
  <2> DEFINE most == Len(ages)
  <2>1. most \in Nat
    BY <1>1
  <2> HIDE DEF most
  <2>2. IsFiniteSet(1..most) /\ Cardinality(1..most) = IF 1 > most THEN 0 ELSE most - 1 + 1
    BY <2>1, FS_Interval
  <2> QED BY <2>1, <2>2 DEF most
<1>3. gone \in Nat /\ gone <= Len(ages)
  BY <1>1, <1>2, FS_Subset, FS_CardinalityType
<1>4. age + 1 >= Cooldown => gone = Len(ages)
  <2>1. age + 1 >= Cooldown => all = 1..Len(ages)
    BY EdgeAssumption
  <2> QED BY <1>2, <2>1
<1>5. Later(ages) = [n \in 1..(Len(ages) - gone) |-> ages[n + gone] + 1]
  BY DEF Later
<1> HIDE DEF all, gone
<1>6. \A n \in 1..(Len(ages) - gone) : n + gone \in DOMAIN ages
  BY <1>3
<1>7. \A n \in 1..(Len(ages) - gone) : ages[n + gone] + 1 \in Nat /\ ages[n + gone] + 1 >= age + 1
  BY <1>6
<1>8. Later(ages) \in Seq(Nat) /\ Len(Later(ages)) = Len(ages) - gone
  BY <1>3, <1>5, <1>7
<1>9. Len(Later(ages)) = 0 => Later(ages) = <<>>
  BY <1>8
<1>10. age + 1 >= Cooldown => Later(ages) = <<>>
  BY <1>1, <1>4, <1>8, <1>9
<1>11. Len(Later(ages)) <= Len(ages)
  BY <1>1, <1>3, <1>8
<1>12. \A n \in DOMAIN Later(ages) : Later(ages)[n] >= age + 1
  BY <1>5, <1>7
<1> QED BY <1>8, <1>10, <1>11, <1>12

\* The lesser of two.
LEMMA MinOfTwo ==
  ASSUME NEW a \in Nat, NEW b \in Nat
  PROVE  Min({a, b}) = IF a <= b THEN a ELSE b
BY DEF Min

\* A tick ages the stamp of a kind as much as what was shown.
LEMMA TickDebounced ==
  ASSUME InHand, InHand', Debounced, Tick
  PROVE  Debounced'
<1>1. /\ last' = [p \in Processes |-> [k \in Kinds |-> Min({last[p][k] + 1, Cooldown})]]
      /\ shown' = [p \in Processes |-> [k \in Kinds |-> Later(shown[p][k])]]
      /\ UNCHANGED <<scene, slot>>
  BY DEF Tick
<1>2. \A p, k : Mine(p)' = Mine(p) /\ Shows(p, k)' = Shows(p, k)
  BY <1>1 DEF Mine, Shows, Workers, Proc
<1>3. Cooldown \in Nat
  BY EdgeAssumption
<1>4. ASSUME NEW p \in Processes, NEW k \in Kinds
      PROVE  /\ last'[p][k] \in Nat
             /\ last'[p][k] = last[p][k] + 1 \/ last'[p][k] = Cooldown
             /\ last'[p][k] <= last[p][k] + 1
             /\ last'[p][k] >= Cooldown => last[p][k] + 1 >= Cooldown
  <2>1. last[p][k] + 1 \in Nat /\ last'[p][k] = Min({last[p][k] + 1, Cooldown})
    BY <1>1 DEF Debounced
  <2> QED BY <1>3, <2>1, MinOfTwo
<1>5. ASSUME NEW p \in Processes, NEW k \in Kinds
      PROVE  /\ shown'[p][k] \in Seq(Nat)
             /\ \A n \in DOMAIN shown'[p][k] : shown'[p][k][n] >= last'[p][k]
             /\ last'[p][k] >= Cooldown => shown'[p][k] = <<>>
             /\ Len(shown'[p][k]) + Cardinality(Shows(p, k)') <= Cardinality(Mine(p)')
  <2>1. /\ shown[p][k] \in Seq(Nat) /\ last[p][k] \in Nat
        /\ \A n \in DOMAIN shown[p][k] : shown[p][k][n] >= last[p][k]
        /\ Len(shown[p][k]) + Cardinality(Shows(p, k)) <= Cardinality(Mine(p))
    BY DEF Debounced
  <2>2. shown'[p][k] = Later(shown[p][k])
    BY <1>1
  <2>3. /\ shown'[p][k] \in Seq(Nat)
        /\ Len(shown'[p][k]) <= Len(shown[p][k])
        /\ \A n \in DOMAIN shown'[p][k] : shown'[p][k][n] >= last[p][k] + 1
        /\ last[p][k] + 1 >= Cooldown => shown'[p][k] = <<>>
    BY <2>1, <2>2, LaterIs
  <2>4. \A n \in DOMAIN shown'[p][k] : shown'[p][k][n] \in Nat
    BY <2>3
  <2>5. Cardinality(Shows(p, k)) \in Nat /\ Cardinality(Mine(p)) \in Nat
    BY CrowdIsFinite
  <2>6. Len(shown'[p][k]) \in Nat /\ Len(shown[p][k]) \in Nat
    BY <2>1, <2>3
  <2>7. \A n \in DOMAIN shown'[p][k] : shown'[p][k][n] >= last'[p][k]
    BY <1>4, <2>1, <2>3, <2>4
  <2>8. last'[p][k] >= Cooldown => shown'[p][k] = <<>>
    BY <1>4, <2>3
  <2>9. Len(shown'[p][k]) + Cardinality(Shows(p, k)') <= Cardinality(Mine(p)')
    BY <1>2, <2>1, <2>3, <2>5, <2>6
  <2> QED BY <2>3, <2>7, <2>8, <2>9
<1>6. last' \in [Processes -> [Kinds -> Nat]] /\ shown' \in [Processes -> [Kinds -> Seq(Nat)]]
  <2>1. last' \in [Processes -> [Kinds -> Nat]]
    <3>1. \A p \in Processes, k \in Kinds : Min({last[p][k] + 1, Cooldown}) \in Nat
      BY <1>1, <1>4
    <3> QED BY <1>1, <3>1
  <2>2. \A p \in Processes, k \in Kinds : Later(shown[p][k]) \in Seq(Nat)
    BY <1>1, <1>5
  <2> QED BY <1>1, <2>1, <2>2
<1> QED BY <1>5, <1>6 DEF Debounced

\* A process that restarts has shown nothing.
LEMMA RestartDebounced ==
  ASSUME InHand, InHand', Debounced, NEW p \in Processes, Restart(p)
  PROVE  Debounced'
<1>1. /\ last' = [last EXCEPT ![p] = [k \in Kinds |-> Cooldown]]
      /\ shown' = [shown EXCEPT ![p] = [k \in Kinds |-> <<>>]]
      /\ UNCHANGED scene
      /\ \A w \in Workers : slot'[w] = Idle \/ slot'[w] = slot[w]
  BY DEF Restart
<1>2. \A q, k : Mine(q)' = Mine(q) /\ Shows(q, k)' \subseteq Shows(q, k)
  BY <1>1 DEF Mine, Shows, Workers, Proc, Idle
<1>3. Cooldown \in Nat \ {0}
  BY EdgeAssumption
<1>4. last' \in [Processes -> [Kinds -> Nat]]
  BY <1>1, <1>3 DEF Debounced
<1>5. shown' \in [Processes -> [Kinds -> Seq(Nat)]]
  <2>1. <<>> \in Seq(Nat)
    OBVIOUS
  <2> QED BY <1>1, <2>1 DEF Debounced
<1>6. ASSUME NEW q \in Processes, NEW k \in Kinds
      PROVE  /\ \A n \in DOMAIN shown'[q][k] : shown'[q][k][n] >= last'[q][k]
             /\ last'[q][k] >= Cooldown => shown'[q][k] = <<>>
             /\ Len(shown'[q][k]) + Cardinality(Shows(q, k)') <= Cardinality(Mine(q)')
  <2>1. /\ Cardinality(Shows(q, k)') \in Nat /\ Cardinality(Shows(q, k)) \in Nat
        /\ Cardinality(Shows(q, k)') <= Cardinality(Mine(q)') /\ Cardinality(Mine(q)) \in Nat
    <3>1. Shows(q, k)' \subseteq Mine(q)
      BY <1>2 DEF Shows
    <3> QED BY <1>2, <3>1, CrowdIsFinite, FS_Subset, FS_CardinalityType
  <2>2. CASE q = p
    <3>1. shown'[q][k] = <<>>
      BY <1>1, <2>2 DEF Debounced
    <3> QED BY <2>1, <3>1
  <2>3. CASE q # p
    <3>1. last'[q][k] = last[q][k] /\ shown'[q][k] = shown[q][k]
      BY <1>1, <2>3 DEF Debounced
    <3>2. /\ \A n \in DOMAIN shown[q][k] : shown[q][k][n] >= last[q][k]
          /\ last[q][k] >= Cooldown => shown[q][k] = <<>>
          /\ Len(shown[q][k]) + Cardinality(Shows(q, k)) <= Cardinality(Mine(q))
          /\ Len(shown[q][k]) \in Nat
      BY DEF Debounced
    <3>3. Cardinality(Shows(q, k)') <= Cardinality(Shows(q, k))
      BY <1>2, CrowdIsFinite, FS_Subset
    <3> QED BY <1>2, <2>1, <3>1, <3>2, <3>3
  <2> QED BY <2>2, <2>3
<1> QED BY <1>4, <1>5, <1>6 DEF Debounced

\* Nothing was shown at first.
LEMMA DebouncedInit == Init => Debounced
<1> SUFFICES ASSUME Init PROVE Debounced
  OBVIOUS
<1>1. InHand
  BY InHandInit
<1>2. /\ last = [p \in Processes |-> [k \in Kinds |-> Cooldown]]
      /\ shown = [p \in Processes |-> [k \in Kinds |-> <<>>]]
  BY DEF Init
<1>3. Cooldown \in Nat /\ <<>> \in Seq(Nat)
  BY EdgeAssumption
<1>4. \A p \in Processes, k \in Kinds : shown[p][k] = <<>>
  BY <1>2
<1>5. ASSUME NEW p \in Processes, NEW k \in Kinds
      PROVE  Len(shown[p][k]) + Cardinality(Shows(p, k)) <= Cardinality(Mine(p))
  BY <1>1, <1>4, CrowdIsFinite
<1> QED BY <1>2, <1>3, <1>4, <1>5 DEF Debounced

\* No step lets more through than there are threads.
LEMMA DebouncedNext == InHand /\ InHand' /\ Debounced /\ [Next]_vars => Debounced'
<1> SUFFICES ASSUME InHand, InHand', Debounced, [Next]_vars PROVE Debounced'
  OBVIOUS
<1>1. CASE \E w \in Workers : Capture(w) \/ \E c \in Calls : Diff(w, c) \/ Unparseable(w, c)
  <2>1. PICK w \in Workers : Capture(w) \/ \E c \in Calls : Diff(w, c) \/ Unparseable(w, c)
    BY <1>1
  <2>2. Own(w)
    BY <2>1, CaptureOwn
  <2>3. CASE Allowed(w) \/ Show(w)
    BY <2>3, AllowedDebounced, ShowDebounced
  <2>4. CASE ~Allowed(w) /\ ~Show(w)
    <3>1. UNCHANGED toasts
      BY <2>1, <2>4 DEF Capture, Diff, Unparseable, MonitorFor, Observe, Classify, Look, Hit, HitIsGone,
             Answered, NoAnswer, Teach, Truncate, Write, Stat, Keep, TooSoon, toasts
    <3>2. slot'[w].at # "show"
      BY <2>2, <2>4 DEF Own
    <3>3. \A p, k : Mine(p)' = Mine(p) /\ Shows(p, k)' \subseteq Shows(p, k)
      BY <2>2, <3>2, ShowsAfter
    <3> QED BY <3>1, <3>3, FewerShow
  <2> QED BY <2>3, <2>4
<1>2. CASE UNCHANGED vars
  <2>1. UNCHANGED <<slot, scene, toasts>>
    BY <1>2 DEF vars, toasts
  <2>2. \A p, k : Mine(p)' = Mine(p) /\ Shows(p, k)' \subseteq Shows(p, k)
    BY <2>1 DEF Mine, Shows, Workers, Proc
  <2> QED BY <2>1, <2>2, FewerShow
<1> QED BY <1>1, <1>2, TickDebounced, RestartDebounced DEF Next

\* A debounced kind of toast is shown at most as often in a cooldown as its process
\* has threads (Debouncer.allow and its stamp are two steps, notify.py), for any
\* number of threads, processes, restarts and any cooldown.
THEOREM ToastsAreFewerThanThreads == Spec => []ToastsAreFew
<1>1. InHand /\ Debounced => ToastsAreFew
  <2> SUFFICES ASSUME InHand, Debounced, NEW p \in Processes, NEW k \in Kinds
               PROVE  Len(shown[p][k]) <= Cardinality(Mine(p))
    BY DEF ToastsAreFew, Mine
  <2>1. Cardinality(Shows(p, k)) \in Nat /\ Cardinality(Mine(p)) \in Nat
    BY CrowdIsFinite
  <2>2. Len(shown[p][k]) \in Nat /\ Len(shown[p][k]) + Cardinality(Shows(p, k)) <= Cardinality(Mine(p))
    BY DEF Debounced
  <2> QED BY <2>1, <2>2
<1> QED BY <1>1, InHandInit, InHandNext, DebouncedInit, DebouncedNext, PTL DEF Spec

-----------------------------------------------------------------------------
(* The learner.  What the property says of the terms that are learned is   *)
(* not inductive: a term that is promoted next is one that was only        *)
(* counted.  Every count of every term is BACKED by lessons, and a bucket  *)
(* only grows until it is evicted as a whole.                              *)

\* The counts of a bucket are lessons that were taught.
Counts(bucket, lessons) ==
  /\ IsFiniteSet(DOMAIN bucket)
  /\ \A l \in DOMAIN bucket : bucket[l] \in Nat /\ bucket[l] <= Times(lessons, l)

\* All counts are, and what is learned is dominant in its bucket.
Backed(counts, learned, lessons) ==
  /\ \A t \in DOMAIN counts : t \in Terms /\ Counts(counts[t], lessons[t])
  /\ \A t \in DOMAIN learned : /\ t \in DOMAIN counts
                               /\ Total(counts[t]) >= MinCount
                               /\ learned[t] \in Dominant(counts[t])

\* Lessons are numbers.
Lessons == \A t \in Terms : \A l : Times(taught[t], l) \in Nat

\* The inductive invariant.
Learning ==
  /\ Lessons
  /\ memory = [p \in Processes |-> memory[p]]
  /\ \A p \in Processes :
       /\ memory[p] = [counts |-> memory[p].counts, learned |-> memory[p].learned,
                       stamp |-> memory[p].stamp, dirty |-> memory[p].dirty]
       /\ Backed(memory[p].counts, memory[p].learned, taught)
  /\ file = [is |-> file.is, counts |-> file.counts, learned |-> file.learned, stamp |-> file.stamp]
  /\ Backed(file.counts, file.learned, taught)

\* The numbered labels whose number is the total.
Pairs(bucket) == UNION {{l} \X (1..bucket[l]) : l \in DOMAIN bucket}

\* A bucket has as many numbered labels as its counts add up to.
LEMMA TotalIs ==
  ASSUME NEW bucket, IsFiniteSet(DOMAIN bucket), \A l \in DOMAIN bucket : bucket[l] \in Nat
  PROVE  IsFiniteSet(Pairs(bucket)) /\ Total(bucket) \in Nat /\ Total(bucket) = Cardinality(Pairs(bucket))
<1> DEFINE rows == {{l} \X (1..bucket[l]) : l \in DOMAIN bucket}
<1>1. IsFiniteSet(rows)
  <2> DEFINE f == [l \in DOMAIN bucket |-> {l} \X (1..bucket[l])]
  <2>1. f \in Surjection(DOMAIN bucket, rows)
    BY DEF Surjection
  <2> QED BY <2>1, FS_Surjection
<1>2. ASSUME NEW r \in rows PROVE IsFiniteSet(r)
  <2>1. PICK l \in DOMAIN bucket : r = {l} \X (1..bucket[l])
    OBVIOUS
  <2>2. bucket[l] \in Int /\ 1 \in Int
    OBVIOUS
  <2> DEFINE n == bucket[l]
             side == {l}
             other == 1..n
  <2>3. IsFiniteSet(other)
    <3> HIDE DEF n
    <3>1. n \in Int
      BY <2>2 DEF n
    <3> QED BY <3>1, FS_Interval
  <2>4. IsFiniteSet(side)
    BY FS_Singleton
  <2>5. r = side \X other
    BY <2>1
  <2> HIDE DEF side, other
  <2> QED BY <2>3, <2>4, <2>5, FS_Product
<1>3. IsFiniteSet(UNION rows)
  <2> HIDE DEF rows
  <2> QED BY <1>1, <1>2, FS_UNION
<1> QED BY <1>3, FS_CardinalityType DEF Pairs, Total

\* A lesson more.
LEMMA OneMoreIs ==
  ASSUME NEW bucket, NEW l, Times(bucket, l) \in Nat
  PROVE  /\ DOMAIN OneMore(bucket, l) = DOMAIN bucket \cup {l}
         /\ OneMore(bucket, l)[l] = Times(bucket, l) + 1
         /\ \A j \in DOMAIN bucket : j # l => OneMore(bucket, l)[j] = bucket[j]
         /\ \A j : Times(OneMore(bucket, l), j) = IF j = l THEN Times(bucket, l) + 1 ELSE Times(bucket, j)
BY DEF OneMore, Times

\* The total of a bucket only grows.
LEMMA TotalGrows ==
  ASSUME NEW bucket, IsFiniteSet(DOMAIN bucket), \A j \in DOMAIN bucket : bucket[j] \in Nat, NEW l
  PROVE  /\ IsFiniteSet(DOMAIN OneMore(bucket, l))
         /\ \A j \in DOMAIN OneMore(bucket, l) : OneMore(bucket, l)[j] \in Nat
         /\ Total(bucket) \in Nat /\ Total(OneMore(bucket, l)) \in Nat
         /\ Total(bucket) <= Total(OneMore(bucket, l))
<1> DEFINE more == OneMore(bucket, l)
<1>1. Times(bucket, l) \in Nat
  BY DEF Times
<1>2. /\ DOMAIN more = DOMAIN bucket \cup {l}
      /\ more[l] = Times(bucket, l) + 1
      /\ \A j \in DOMAIN bucket : j # l => more[j] = bucket[j]
  BY <1>1, OneMoreIs
<1> HIDE DEF more
<1>3. IsFiniteSet(DOMAIN more)
  BY <1>2, FS_AddElement
<1>4. \A j \in DOMAIN more : more[j] \in Nat
  BY <1>1, <1>2
<1>5. \A j \in DOMAIN bucket : j \in DOMAIN more /\ bucket[j] <= more[j]
  BY <1>1, <1>2 DEF Times
<1>6. Pairs(bucket) \subseteq Pairs(more)
  <2> SUFFICES ASSUME NEW x \in Pairs(bucket) PROVE x \in Pairs(more)
    OBVIOUS
  <2>1. PICK j \in DOMAIN bucket : x \in {j} \X (1..bucket[j])
    BY DEF Pairs
  <2>2. x \in {j} \X (1..more[j])
    BY <1>4, <1>5, <2>1
  <2> QED BY <1>5, <2>2 DEF Pairs
<1>7. /\ IsFiniteSet(Pairs(more)) /\ Total(more) \in Nat /\ Total(more) = Cardinality(Pairs(more))
      /\ IsFiniteSet(Pairs(bucket)) /\ Total(bucket) \in Nat /\ Total(bucket) = Cardinality(Pairs(bucket))
  BY <1>3, <1>4, TotalIs
<1>8. Total(bucket) <= Total(more)
  BY <1>6, <1>7, FS_Subset
<1> QED BY <1>3, <1>4, <1>7, <1>8 DEF more

\* A prompt whose terms are counted, with its lesson.
LEMMA CountedBacked ==
  ASSUME Lessons, NEW m, NEW terms \in SUBSET Terms, NEW label,
         Backed(m.counts, m.learned, taught),
         taught' = [t \in Terms |-> IF t \in terms THEN OneMore(taught[t], label) ELSE taught[t]]
  PROVE  LET Bucket(t) == IF t \in DOMAIN m.counts THEN m.counts[t] ELSE NoCounts
             buckets == [t \in terms |-> OneMore(Bucket(t), label)]
         IN Backed(Updated(m.counts, buckets), Promoted(m.learned, buckets), taught')
<1> DEFINE Bucket(t) == IF t \in DOMAIN m.counts THEN m.counts[t] ELSE NoCounts
           buckets == [t \in terms |-> OneMore(Bucket(t), label)]
           counts == Updated(m.counts, buckets)
           learned == Promoted(m.learned, buckets)
<1>1. \A t \in terms : Counts(Bucket(t), taught[t])
  <2>1. DOMAIN NoCounts = {} /\ IsFiniteSet({})
    BY FS_EmptySet DEF NoCounts
  <2> QED BY <2>1 DEF Backed, Counts
<1>2. ASSUME NEW t \in terms
      PROVE  /\ Counts(buckets[t], taught'[t])
             /\ Total(Bucket(t)) \in Nat /\ Total(buckets[t]) \in Nat
             /\ Total(Bucket(t)) <= Total(buckets[t])
  <2> DEFINE b == Bucket(t)
  <2>1. Counts(b, taught[t])
    BY <1>1
  <2>2. buckets[t] = OneMore(b, label) /\ taught'[t] = OneMore(taught[t], label)
    OBVIOUS
  <2> HIDE DEF b, buckets, Bucket
  <2>3. IsFiniteSet(DOMAIN b) /\ \A j \in DOMAIN b : b[j] \in Nat
    BY <2>1 DEF Counts
  <2>4. /\ IsFiniteSet(DOMAIN buckets[t])
        /\ \A j \in DOMAIN buckets[t] : buckets[t][j] \in Nat
        /\ Total(b) \in Nat /\ Total(buckets[t]) \in Nat /\ Total(b) <= Total(buckets[t])
    BY <2>2, <2>3, TotalGrows
  <2>5. \A j : Times(taught[t], j) \in Nat
    BY DEF Lessons
  <2>6. Times(b, label) \in Nat /\ Times(b, label) <= Times(taught[t], label)
    BY <2>1, <2>5 DEF Counts, Times
  <2>7. /\ DOMAIN OneMore(b, label) = DOMAIN b \cup {label}
        /\ \A j \in DOMAIN b : j # label => OneMore(b, label)[j] = b[j]
    BY <2>6, OneMoreIs
  <2>8. \A j : j # label => Times(OneMore(taught[t], label), j) = Times(taught[t], j)
    <3> DEFINE lessons == taught[t]
    <3>1. Times(lessons, label) \in Nat
      BY <2>5
    <3> HIDE DEF lessons
    <3>2. \A j : Times(OneMore(lessons, label), j) = IF j = label THEN Times(lessons, label) + 1 ELSE Times(lessons, j)
      BY <3>1, OneMoreIs
    <3> QED BY <3>2 DEF lessons
  <2>9. ASSUME NEW j \in DOMAIN buckets[t] PROVE buckets[t][j] <= Times(taught'[t], j)
    <3>1. CASE j = label
      <4>1. buckets[t][j] = Times(b, label) + 1 /\ Times(taught'[t], j) = Times(taught[t], label) + 1
        BY <2>2, <2>5, <2>6, <3>1, OneMoreIs
      <4> QED BY <2>5, <2>6, <4>1
    <3>2. CASE j # label
      <4>1. j \in DOMAIN b /\ buckets[t][j] = b[j] /\ Times(taught'[t], j) = Times(taught[t], j)
        <5>1. j \in DOMAIN b /\ buckets[t][j] = b[j]
          BY <2>2, <2>7, <3>2
        <5>2. Times(taught'[t], j) = Times(taught[t], j)
          BY <2>2, <2>8, <3>2
        <5> QED BY <5>1, <5>2
      <4> QED BY <2>1, <4>1 DEF Counts
    <3> QED BY <3>1, <3>2
  <2> QED BY <2>4, <2>9 DEF Counts, b
<1>3. \A t : t \in DOMAIN counts <=> t \in terms \/ t \in DOMAIN m.counts
  BY DEF Updated
<1>4. \A t \in DOMAIN counts : counts[t] = IF t \in terms THEN buckets[t] ELSE m.counts[t]
  BY DEF Updated
<1>5. ASSUME NEW t \in DOMAIN counts PROVE t \in Terms /\ Counts(counts[t], taught'[t])
  <2>1. CASE t \in terms
    <3> HIDE DEF buckets, counts
    <3> QED BY <1>2, <1>4, <2>1
  <2>2. CASE t \notin terms
    <3>1. t \in DOMAIN m.counts /\ counts[t] = m.counts[t]
      BY <1>3, <1>4, <2>2
    <3>2. t \in Terms /\ taught'[t] = taught[t]
      BY <2>2, <3>1 DEF Backed
    <3> HIDE DEF buckets, counts
    <3> QED BY <3>1, <3>2 DEF Backed
  <2> QED BY <2>1, <2>2
<1>6. DOMAIN buckets = terms
  OBVIOUS
<1>7. /\ \A t \in DOMAIN learned : t \in Sure(buckets) \/ (t \in DOMAIN m.learned /\ t \notin Ripe(buckets) /\ t \notin Sure(buckets))
      /\ \A t \in DOMAIN learned : learned[t] = IF t \in Sure(buckets) THEN Top(buckets[t]) ELSE m.learned[t]
  <2> HIDE DEF buckets
  <2> QED BY DEF Promoted, Restrict, Updated
<1>8. ASSUME NEW t \in DOMAIN learned
      PROVE  /\ t \in DOMAIN counts
             /\ Total(counts[t]) >= MinCount
             /\ learned[t] \in Dominant(counts[t])
  <2>1. CASE t \in Sure(buckets)
    <3> HIDE DEF buckets, counts, learned
    <3>1. t \in terms /\ Total(buckets[t]) >= MinCount /\ Dominant(buckets[t]) # {}
      BY <1>6, <2>1 DEF Sure, Ripe
    <3>2. learned[t] \in Dominant(buckets[t])
      BY <1>7, <2>1, <3>1 DEF Top
    <3> QED BY <1>3, <1>4, <3>1, <3>2
  <2>2. CASE t \notin Sure(buckets)
    <3> HIDE DEF learned
    <3>1. t \in DOMAIN m.learned /\ t \notin Ripe(buckets) /\ learned[t] = m.learned[t]
      BY <1>7, <2>2
    <3>2. t \in DOMAIN m.counts /\ Total(m.counts[t]) >= MinCount /\ m.learned[t] \in Dominant(m.counts[t])
      BY <3>1 DEF Backed
    <3>3. t \notin terms
      <4> SUFFICES ASSUME t \in terms PROVE FALSE
        OBVIOUS
      <4>1. Bucket(t) = m.counts[t]
        BY <3>2
      <4> HIDE DEF buckets, Bucket
      <4>2. ~(Total(buckets[t]) >= MinCount)
        BY <1>6, <3>1 DEF Ripe
      <4>3. MinCount \in Nat
        BY EdgeAssumption
      <4> QED BY <1>2, <3>2, <4>1, <4>2, <4>3
    <3>4. counts[t] = m.counts[t]
      BY <1>3, <1>4, <3>2, <3>3
    <3> QED BY <1>3, <3>1, <3>2, <3>4
  <2> QED BY <2>1, <2>2
<1>9. Backed(counts, learned, taught')
  <2> HIDE DEF counts, learned
  <2> QED BY <1>5, <1>8 DEF Backed
<1> QED BY <1>9

\* Evicting what is not learned.
LEMMA EvictedBacked ==
  ASSUME NEW m, NEW lessons, Backed(m.counts, m.learned, lessons),
         NEW counts, NEW learned, NEW stamp, NEW dirty,
         m = [counts |-> counts, learned |-> learned, stamp |-> stamp, dirty |-> dirty],
         NEW e \in Evictions(m)
  PROVE  /\ e = [counts |-> e.counts, learned |-> e.learned, stamp |-> e.stamp, dirty |-> e.dirty]
         /\ Backed(e.counts, e.learned, lessons)
<1>1. CASE e = m
  BY <1>1
<1>2. CASE e # m
  <2>1. PICK victims \in SUBSET Evictable(m) :
          e = [m EXCEPT !.counts = Restrict(@, DOMAIN @ \ victims)]
    BY <1>2 DEF Evictions
  <2>2. /\ e = [counts |-> Restrict(counts, DOMAIN counts \ victims), learned |-> learned,
                stamp |-> stamp, dirty |-> dirty]
        /\ \A t \in DOMAIN learned : t \notin victims
    BY <2>1 DEF Evictable
  <2> QED BY <2>2 DEF Backed, Restrict
<1> QED BY <1>1, <1>2

\* What was backed by fewer lessons is backed by more.
LEMMA BackedByMore ==
  ASSUME NEW counts, NEW learned, NEW old, NEW new, Backed(counts, learned, old),
         \A t \in Terms : \A l : /\ Times(old[t], l) \in Nat /\ Times(new[t], l) \in Nat
                                 /\ Times(old[t], l) <= Times(new[t], l)
  PROVE  Backed(counts, learned, new)
<1>1. ASSUME NEW t \in DOMAIN counts PROVE Counts(counts[t], new[t])
  <2>1. t \in Terms /\ Counts(counts[t], old[t])
    BY DEF Backed
  <2> QED BY <2>1 DEF Counts
<1> QED BY <1>1 DEF Backed

\* A prompt is taught: counted, promoted, withdrawn, evicted.
LEMMA TeachLearning ==
  ASSUME InHand, Learning, NEW w \in Workers, Teach(w)
  PROVE  Learning'
<1> DEFINE p == Proc(w)
           terms == Call[slot[w].call].prompt.terms
           label == slot[w].label
           m == memory[p]
           Bucket(t) == IF t \in DOMAIN m.counts THEN m.counts[t] ELSE NoCounts
           buckets == [t \in terms |-> OneMore(Bucket(t), label)]
           counts == Updated(m.counts, buckets)
           learned == Promoted(m.learned, buckets)
           taughtNow == [t \in Terms |-> IF t \in terms THEN OneMore(taught[t], label) ELSE taught[t]]
<1>1. /\ taught' = taughtNow /\ UNCHANGED file
      /\ \E e \in Observations(m, terms, label) : memory' = [memory EXCEPT ![p] = e]
  BY DEF Teach
<1>2. terms \in SUBSET Terms
  BY CallIs DEF Teach, Terms, Prompts
<1>3. p \in Processes
  BY EdgeAssumption DEF InHand, Workers, Proc
<1>4. /\ m = [counts |-> m.counts, learned |-> m.learned, stamp |-> m.stamp, dirty |-> m.dirty]
      /\ Backed(m.counts, m.learned, taught)
  BY <1>3 DEF Learning
<1>5. Backed(counts, learned, taught')
  <2>1. Lessons /\ taught' = taughtNow
    BY <1>1 DEF Learning
  <2> HIDE DEF m, terms, label
  <2> QED BY <1>2, <1>4, <2>1, CountedBacked
<1>6. \A t \in Terms : \A l : /\ Times(taught[t], l) \in Nat /\ Times(taught'[t], l) \in Nat
                              /\ Times(taught[t], l) <= Times(taught'[t], l)
  <2> SUFFICES ASSUME NEW t \in Terms, NEW l
               PROVE  /\ Times(taught[t], l) \in Nat /\ Times(taught'[t], l) \in Nat
                      /\ Times(taught[t], l) <= Times(taught'[t], l)
    OBVIOUS
  <2> DEFINE lessons == taught[t]
  <2>1. Times(lessons, l) \in Nat /\ Times(lessons, label) \in Nat
    BY DEF Learning, Lessons
  <2>2. taught'[t] = OneMore(lessons, label) \/ taught'[t] = lessons
    BY <1>1
  <2> HIDE DEF lessons, label
  <2>3. \A j : Times(OneMore(lessons, label), j) = IF j = label THEN Times(lessons, label) + 1 ELSE Times(lessons, j)
    BY <2>1, OneMoreIs
  <2>4. /\ Times(lessons, l) \in Nat /\ Times(taught'[t], l) \in Nat
        /\ Times(lessons, l) <= Times(taught'[t], l)
    BY <2>1, <2>2, <2>3
  <2> QED BY <2>4 DEF lessons
<1>7. PICK e \in Evictions(Counted(m, terms, label)) :
        memory' = [memory EXCEPT ![p] = [e EXCEPT !.dirty = @ + 1]]
  BY <1>1 DEF Observations
<1>8. Counted(m, terms, label) = [counts |-> counts, learned |-> learned, stamp |-> m.stamp, dirty |-> m.dirty]
  <2>1. Counted(m, terms, label) = [m EXCEPT !.counts = counts, !.learned = learned]
    BY DEF Counted
  <2> HIDE DEF counts, learned, m
  <2> QED BY <1>4, <2>1
<1> DEFINE c == Counted(m, terms, label)
<1>9. /\ c = [counts |-> counts, learned |-> learned, stamp |-> m.stamp, dirty |-> m.dirty]
      /\ Backed(c.counts, c.learned, taught')
  <2> HIDE DEF counts, learned, m
  <2> QED BY <1>5, <1>8
<1>10. /\ e = [counts |-> e.counts, learned |-> e.learned, stamp |-> e.stamp, dirty |-> e.dirty]
       /\ Backed(e.counts, e.learned, taught')
  <2>1. e \in Evictions(c)
    BY <1>7
  <2> HIDE DEF c, counts, learned, m
  <2> QED BY <1>9, <2>1, EvictedBacked
<1>11. Lessons'
  BY <1>6 DEF Lessons
<1>12. ASSUME NEW q \in Processes
       PROVE  /\ memory'[q] = [counts |-> memory'[q].counts, learned |-> memory'[q].learned,
                               stamp |-> memory'[q].stamp, dirty |-> memory'[q].dirty]
              /\ Backed(memory'[q].counts, memory'[q].learned, taught')
  <2>1. CASE q = p
    <3>1. memory'[q] = [e EXCEPT !.dirty = @ + 1]
      BY <1>3, <1>7, <2>1 DEF Learning
    <3>2. memory'[q] = [counts |-> e.counts, learned |-> e.learned, stamp |-> e.stamp, dirty |-> e.dirty + 1]
      BY <1>10, <3>1
    <3> QED BY <1>10, <3>2
  <2>2. CASE q # p
    <3>1. memory'[q] = memory[q]
      BY <1>7, <2>2 DEF Learning
    <3>2. Backed(memory[q].counts, memory[q].learned, taught')
      BY <1>6, BackedByMore DEF Learning
    <3> QED BY <3>1, <3>2 DEF Learning
  <2> QED BY <2>1, <2>2
<1>13. Backed(file.counts, file.learned, taught')
  BY <1>6, BackedByMore DEF Learning
<1>14. memory' = [q \in Processes |-> memory'[q]]
  BY <1>7 DEF Learning
<1> QED BY <1>1, <1>11, <1>12, <1>13, <1>14 DEF Learning

\* Loading the file, and not.
LEMMA LoadedBacked ==
  ASSUME Learning, NEW m, m = [counts |-> m.counts, learned |-> m.learned, stamp |-> m.stamp, dirty |-> m.dirty],
         Backed(m.counts, m.learned, taught), NEW e, e \in {m, Loaded(m, file), Refreshed(m, file)}
  PROVE  /\ e = [counts |-> e.counts, learned |-> e.learned, stamp |-> e.stamp, dirty |-> e.dirty]
         /\ Backed(e.counts, e.learned, taught)
<1>1. e = m \/ e = [m EXCEPT !.counts = file.counts, !.learned = file.learned, !.stamp = file.stamp]
  BY DEF Loaded, Refreshed
<1>2. CASE e # m
  <2>1. e = [counts |-> file.counts, learned |-> file.learned, stamp |-> file.stamp, dirty |-> m.dirty]
    BY <1>1, <1>2
  <2> QED BY <2>1 DEF Learning
<1> QED BY <1>2

\* One process has another memory.
LEMMA MemoryLearning ==
  ASSUME Learning, NEW p \in Processes, NEW e, memory' = [memory EXCEPT ![p] = e], UNCHANGED <<file, taught>>,
         e = [counts |-> e.counts, learned |-> e.learned, stamp |-> e.stamp, dirty |-> e.dirty],
         Backed(e.counts, e.learned, taught)
  PROVE  Learning'
<1>1. \A q \in Processes : memory'[q] = IF q = p THEN e ELSE memory[q]
  BY DEF Learning
<1>2. memory' = [q \in Processes |-> memory'[q]]
  BY DEF Learning
<1> QED BY <1>1, <1>2 DEF Learning, Lessons

\* A reload takes what the file has, which is backed.
LEMMA ClassifyLearning ==
  ASSUME InHand, Learning, NEW w \in Workers, Classify(w)
  PROVE  Learning'
<1> DEFINE m == memory[Proc(w)]
<1>1. memory' = [memory EXCEPT ![Proc(w)] = Refreshed(m, file)] /\ UNCHANGED <<file, taught>>
  BY DEF Classify
<1>2. Proc(w) \in Processes
  BY EdgeAssumption DEF InHand, Workers, Proc
<1>3. /\ m = [counts |-> m.counts, learned |-> m.learned, stamp |-> m.stamp, dirty |-> m.dirty]
      /\ Backed(m.counts, m.learned, taught)
  BY <1>2 DEF Learning
<1> DEFINE e == Refreshed(m, file)
<1>4. /\ e = [counts |-> e.counts, learned |-> e.learned, stamp |-> e.stamp, dirty |-> e.dirty]
      /\ Backed(e.counts, e.learned, taught)
  <2> HIDE DEF m
  <2> QED BY <1>3, LoadedBacked
<1>5. memory' = [memory EXCEPT ![Proc(w)] = e]
  BY <1>1
<1> HIDE DEF e
<1> QED BY <1>1, <1>2, <1>4, <1>5, MemoryLearning

\* Only the time stamp and the lessons since the last save change.
LEMMA StatLearning ==
  ASSUME InHand, Learning, NEW w \in Workers, Stat(w)
  PROVE  Learning'
<1> DEFINE m == memory[Proc(w)]
           e == [m EXCEPT !.stamp = file.stamp, !.dirty = 0]
<1>1. Proc(w) \in Processes
  BY EdgeAssumption DEF InHand, Workers, Proc
<1>2. memory' = [memory EXCEPT ![Proc(w)] = e] /\ UNCHANGED <<file, taught>>
  BY <1>1 DEF Stat, Learning
<1>3. /\ m = [counts |-> m.counts, learned |-> m.learned, stamp |-> m.stamp, dirty |-> m.dirty]
      /\ Backed(m.counts, m.learned, taught)
  BY <1>1 DEF Learning
<1>4. e = [counts |-> m.counts, learned |-> m.learned, stamp |-> file.stamp, dirty |-> 0]
  <2>1. PICK counts, learned, stamp, dirty :
          m = [counts |-> counts, learned |-> learned, stamp |-> stamp, dirty |-> dirty]
    BY <1>3
  <2> DEFINE now == file.stamp
  <2> HIDE DEF m, now
  <2>2. e = [m EXCEPT !.stamp = now, !.dirty = 0]
    BY DEF now
  <2> HIDE DEF e
  <2>3. e = [counts |-> counts, learned |-> learned, stamp |-> now, dirty |-> 0]
    BY <2>1, <2>2
  <2>4. m.counts = counts /\ m.learned = learned
    BY <2>1
  <2> QED BY <2>3, <2>4 DEF now
<1>5. /\ e = [counts |-> e.counts, learned |-> e.learned, stamp |-> e.stamp, dirty |-> e.dirty]
      /\ Backed(e.counts, e.learned, taught)
  <2> HIDE DEF m
  <2> QED BY <1>3, <1>4
<1> HIDE DEF e
<1> QED BY <1>1, <1>2, <1>5, MemoryLearning

\* What is saved is the memory of a process.
LEMMA FileLearning ==
  ASSUME InHand, Learning, NEW w \in Workers, Truncate(w) \/ Write(w)
  PROVE  Learning'
<1>1. UNCHANGED <<memory, taught>>
  BY DEF Truncate, Write
<1>2. CASE Truncate(w)
  <2>1. file' = [file EXCEPT !.is = "empty", !.stamp = @ + 1]
    BY <1>2 DEF Truncate
  <2>2. file' = [is |-> "empty", counts |-> file.counts, learned |-> file.learned, stamp |-> file.stamp + 1]
    BY <2>1 DEF Learning
  <2> QED BY <1>1, <2>2 DEF Learning, Lessons
<1>3. CASE Write(w)
  <2>1. Proc(w) \in Processes
    BY EdgeAssumption DEF InHand, Workers, Proc
  <2>2. PICK is : file' = [is |-> is, counts |-> memory[Proc(w)].counts, learned |-> memory[Proc(w)].learned,
                           stamp |-> file.stamp + 1]
    BY <1>3 DEF Write
  <2> QED BY <1>1, <2>1, <2>2 DEF Learning, Lessons
<1> QED BY <1>2, <1>3

\* A process starts again with the file, or with nothing.
LEMMA RestartLearning ==
  ASSUME Learning, NEW p \in Processes, Restart(p)
  PROVE  Learning'
<1> DEFINE m == Forgotten
           e == Loaded(m, file)
<1>1. memory' = [memory EXCEPT ![p] = e] /\ UNCHANGED <<file, taught>>
  BY DEF Restart
<1>2. /\ m = [counts |-> m.counts, learned |-> m.learned, stamp |-> m.stamp, dirty |-> m.dirty]
      /\ Backed(m.counts, m.learned, taught)
  BY DEF Forgotten, NoCounts, Backed
<1>3. /\ e = [counts |-> e.counts, learned |-> e.learned, stamp |-> e.stamp, dirty |-> e.dirty]
      /\ Backed(e.counts, e.learned, taught)
  <2> HIDE DEF m
  <2> QED BY <1>2, LoadedBacked
<1> HIDE DEF e
<1> QED BY <1>1, <1>3, MemoryLearning

\* Nothing is learned at first.
LEMMA LearningInit == Init => Learning
<1> SUFFICES ASSUME Init PROVE Learning
  OBVIOUS
<1>1. /\ memory = [p \in Processes |-> Forgotten]
      /\ file = [is |-> "absent", counts |-> NoCounts, learned |-> NoCounts, stamp |-> 0]
      /\ taught = [t \in Terms |-> NoCounts]
  BY DEF Init
<1>2. Backed(NoCounts, NoCounts, taught)
  BY DEF NoCounts, Backed
<1>3. Lessons
  BY <1>1 DEF Lessons, Times, NoCounts
<1>4. Forgotten = [counts |-> NoCounts, learned |-> NoCounts, stamp |-> 0, dirty |-> 0]
  BY DEF Forgotten
<1> QED BY <1>1, <1>2, <1>3, <1>4 DEF Learning

\* No step promotes what lessons do not back.
LEMMA LearningNext == InHand /\ Learning /\ [Next]_vars => Learning'
<1> SUFFICES ASSUME InHand, Learning, [Next]_vars PROVE Learning'
  OBVIOUS
<1>1. ASSUME NEW w \in Workers, Capture(w) \/ \E c \in Calls : Diff(w, c) \/ Unparseable(w, c)
      PROVE  Learning'
  <2>1. \/ Teach(w) \/ Classify(w) \/ Stat(w) \/ Truncate(w) \/ Write(w)
        \/ UNCHANGED <<memory, file, taught>>
    BY <1>1 DEF Capture, Diff, Unparseable, MonitorFor, Observe, Look, Hit, HitIsGone, Answered, NoAnswer,
           Keep, TooSoon, Allowed, Show, learning
  <2>2. CASE UNCHANGED <<memory, file, taught>>
    BY <2>2 DEF Learning, Lessons
  <2> QED BY <2>1, <2>2, TeachLearning, ClassifyLearning, StatLearning, FileLearning
<1>2. CASE Tick \/ UNCHANGED vars
  <2>1. UNCHANGED <<memory, file, taught>>
    BY <1>2 DEF Tick, vars, learning
  <2> QED BY <2>1 DEF Learning, Lessons
<1> QED BY <1>1, <1>2, RestartLearning DEF Next

\* What a process or the file holds as learned was taught by branches or the LLM as
\* often as the counts say that make it dominant (worktype_learn.py), whatever was
\* evicted, saved over, reloaded or lost.
THEOREM LearnedTermsWereTaught == Spec => []LearnedWasTaught
<1>1. Learning => LearnedWasTaught
  <2> SUFFICES ASSUME Learning PROVE LearnedWasTaught
    OBVIOUS
  <2>1. ASSUME NEW counts, NEW learned, Backed(counts, learned, taught), NEW t \in DOMAIN learned
        PROVE  /\ t \in DOMAIN counts
               /\ Total(counts[t]) >= MinCount
               /\ learned[t] \in Dominant(counts[t])
               /\ counts[t][learned[t]] <= Times(taught[t], learned[t])
    <3>1. /\ t \in DOMAIN counts
          /\ Total(counts[t]) >= MinCount
          /\ learned[t] \in Dominant(counts[t])
      BY <2>1 DEF Backed
    <3>2. learned[t] \in DOMAIN counts[t]
      BY <3>1 DEF Dominant
    <3>3. Counts(counts[t], taught[t])
      BY <2>1, <3>1 DEF Backed
    <3> QED BY <3>1, <3>2, <3>3 DEF Counts
  <2> QED BY <2>1 DEF Learning, LearnedWasTaught
<1> QED BY <1>1, InHandInit, InHandNext, LearningInit, LearningNext, PTL DEF Spec

-----------------------------------------------------------------------------
(* Resent history.  The contexts of a conversation are counted as its      *)
(* exchanges are diffed: the baseline is the request of an exchange of the *)
(* conversation that was diffed, so that what is taken for resent was sent.*)

\* Every set of numbers has a least one.
LEMMA LeastNatural ==
  ASSUME NEW S \in SUBSET Nat, S # {}
  PROVE  \E m \in S : \A k \in S : m <= k
<1>1. PICK m \in S : \A k \in S : ~(<<k, m>> \in OpToRel(<, Nat))
  BY NatLessThanWellFounded, WFMin
<1>2. \A k \in S : k \in Nat /\ m \in Nat /\ ~(k < m)
  BY <1>1 DEF OpToRel
<1> QED BY <1>2

\* The common prefix is one of both.
LEMMA CommonPrefixIs ==
  ASSUME NEW M, NEW s \in Seq(M), NEW t \in Seq(M)
  PROVE  \E n \in 0..Len(t) :
           n <= Len(s) /\ CommonPrefix(s, t) = SubSeq(t, 1, n) /\ SubSeq(s, 1, n) = SubSeq(t, 1, n)
<1> DEFINE common == {n \in 0..Len(t) : n <= Len(s) /\ SubSeq(s, 1, n) = SubSeq(t, 1, n)}
<1>1. Len(s) \in Nat /\ Len(t) \in Nat
  OBVIOUS
<1>2. 0 \in common
  BY <1>1
<1>3. PICK top \in common : \A n \in common : n <= top
  <2> DEFINE rest == {Len(t) - n : n \in common}
  <2>1. rest \in SUBSET Nat /\ rest # {}
    BY <1>1, <1>2
  <2>2. PICK m \in rest : \A k \in rest : m <= k
    <3> HIDE DEF rest
    <3> QED BY <2>1, LeastNatural
  <2>3. PICK top \in common : m = Len(t) - top
    OBVIOUS
  <2>6. \A n \in common : Len(t) - n \in rest
    OBVIOUS
  <2>7. \A n \in common : n \in Nat
    BY <1>1
  <2>4. \A n \in common : n \in Nat /\ top \in Nat /\ Len(t) - top <= Len(t) - n
    <3> HIDE DEF common, rest
    <3> QED BY <2>2, <2>3, <2>6, <2>7
  <2>5. \A n \in common : n <= top
    <3> HIDE DEF common
    <3> QED BY <1>1, <2>4
  <2> QED BY <2>5
<1>4. ASSUME NEW k \in 0..Len(s) PROVE Len(SubSeq(s, 1, k)) = k /\ SubSeq(SubSeq(s, 1, k), 1, k) = SubSeq(s, 1, k)
  BY <1>1
<1>5. ASSUME NEW k \in 0..Len(t) PROVE Len(SubSeq(t, 1, k)) = k /\ SubSeq(SubSeq(t, 1, k), 1, k) = SubSeq(t, 1, k)
  BY <1>1
<1>6. ASSUME NEW x \in CommonPrefixes({s, t})
      PROVE  \E n \in common : x = SubSeq(t, 1, n) /\ Len(x) = n
  <2>1. PICK k : \/ k \in 0..Len(s) /\ x = SubSeq(s, 1, k)
                 \/ k \in 0..Len(t) /\ x = SubSeq(t, 1, k)
    BY DEF CommonPrefixes, Prefixes
  <2>2. Len(x) = k /\ SubSeq(x, 1, k) = x /\ k \in Nat
    BY <1>1, <1>4, <1>5, <2>1
  <2>3. IsPrefix(x, s) /\ IsPrefix(x, t)
    BY DEF CommonPrefixes
  <2>4. k <= Len(s) /\ k <= Len(t) /\ x = SubSeq(s, 1, k) /\ x = SubSeq(t, 1, k)
    BY <2>2, <2>3 DEF IsPrefix
  <2>5. k \in common
    BY <1>1, <2>2, <2>4
  <2> QED BY <2>2, <2>4, <2>5
<1>7. SubSeq(t, 1, top) \in CommonPrefixes({s, t}) /\ Len(SubSeq(t, 1, top)) = top
  <2>1. top \in 0..Len(t) /\ top <= Len(s) /\ SubSeq(s, 1, top) = SubSeq(t, 1, top)
    BY <1>3
  <2> DEFINE x == SubSeq(t, 1, top)
  <2>2. Len(x) = top /\ SubSeq(x, 1, top) = x
    BY <1>5, <2>1
  <2>3. x \in Prefixes(t)
    BY <2>1 DEF Prefixes
  <2>4. IsPrefix(x, s) /\ IsPrefix(x, t)
    <3> HIDE DEF x
    <3> QED BY <2>1, <2>2 DEF IsPrefix, x
  <2> HIDE DEF x
  <2> QED BY <2>2, <2>3, <2>4 DEF CommonPrefixes, x
<1>8. CommonPrefix(s, t) \in CommonPrefixes({s, t})
  <2> DEFINE C == CommonPrefixes({s, t})
             P(x) == \A other \in C : Len(other) <= Len(x)
  <2>1. \E x \in C : P(x)
    <3>1. \A other \in C : Len(other) \in common
      BY <1>6
    <3> HIDE DEF common
    <3> QED BY <1>3, <1>7, <3>1
  <2>2. CommonPrefix(s, t) = CHOOSE x \in C : P(x)
    BY DEF CommonPrefix, LongestCommonPrefix
  <2> HIDE DEF C, P
  <2> QED BY <2>1, <2>2 DEF C
<1> QED BY <1>6, <1>8

\* The characters of messages of one character each.
LEMMA CharactersAre ==
  ASSUME \A m \in DOMAIN Size : Size[m] = 1, NEW s \in Seq(DOMAIN Size)
  PROVE  Characters(s) = Len(s)
<1> DEFINE n == Len(s)
           one == 1..1
           all == 1..n
<1>1. n \in Nat /\ DOMAIN s = all
  OBVIOUS
<1>2. UNION {{i} \X (1..Size[s[i]]) : i \in DOMAIN s} = all \X one
  <2>1. \A i \in DOMAIN s : s[i] \in DOMAIN Size
    OBVIOUS
  <2> QED BY <1>1, <2>1
<1>3. IsFiniteSet(all) /\ Cardinality(all) = n
  <2> HIDE DEF n
  <2>1. IsFiniteSet(1..n) /\ Cardinality(1..n) = IF 1 > n THEN 0 ELSE n - 1 + 1
    BY <1>1, FS_Interval
  <2> QED BY <1>1, <2>1
<1>4. IsFiniteSet(one) /\ Cardinality(one) = 1
  <2>1. one = {1}
    OBVIOUS
  <2> HIDE DEF one
  <2> QED BY <2>1, FS_Singleton
<1>5. Cardinality(all \X one) = n
  <2> HIDE DEF all, one, n
  <2>1. Cardinality(all \X one) = Cardinality(all) * Cardinality(one)
    BY <1>3, <1>4, FS_Product
  <2> QED BY <1>1, <1>3, <1>4, <2>1
<1>6. Characters(s) = Cardinality(UNION {{i} \X (1..Size[s[i]]) : i \in DOMAIN s})
  BY DEF Characters
<1>7. Characters(s) = Cardinality(all \X one)
  <2> HIDE DEF all, one, n
  <2> QED BY <1>2, <1>6
<1> QED BY <1>5, <1>7

\* The messages of an exchange that were not taken for resent.
Unsent(c, r, len) == {c} \X ((r + 1)..len)
Unheard(c, fresh) == \A n : <<c, n>> \notin fresh
SaidOrUnsent(new, said, f, r, len) ==
  \A x \in new : x \in said \/ \E n \in (r + 1)..len : x = f[n]

\* What is counted for one more exchange.
LEMMA OneMoreExchange ==
  ASSUME NEW c, NEW len \in Nat, NEW r \in 0..len,
         NEW fresh, IsFiniteSet(fresh), Unheard(c, fresh),
         NEW said, IsFiniteSet(said), Cardinality(fresh) >= Cardinality(said),
         NEW f, NEW new, SaidOrUnsent(new, said, f, r, len)
  PROVE  /\ Cardinality(fresh \cup Unsent(c, r, len)) >= Cardinality(said \cup new)
         /\ IsFiniteSet(fresh \cup Unsent(c, r, len))
         /\ IsFiniteSet(said \cup new)
<1> DEFINE ns == (r + 1)..len
           its == {c} \X ns
           news == {f[n] : n \in ns}
           size == Cardinality(ns)
<1>1. IsFiniteSet(ns) /\ size \in Nat
  <2>1. r + 1 \in Int /\ len \in Int
    OBVIOUS
  <2> DEFINE first == r + 1
  <2> HIDE DEF first
  <2>2. IsFiniteSet(first..len)
    BY <2>1, FS_Interval DEF first
  <2> QED BY <2>2, FS_CardinalityType DEF first
<1>2. IsFiniteSet(its) /\ Cardinality(its) = size
  <2>1. IsFiniteSet({c}) /\ Cardinality({c}) = 1
    BY FS_Singleton
  <2> DEFINE only == {c}
  <2> HIDE DEF ns, only
  <2>2. IsFiniteSet(only \X ns) /\ Cardinality(only \X ns) = Cardinality(only) * Cardinality(ns)
    BY <1>1, <2>1, FS_Product DEF only
  <2> QED BY <1>1, <2>1, <2>2 DEF only
<1>3. IsFiniteSet(news) /\ Cardinality(news) <= size
  <2> DEFINE g == [n \in ns |-> f[n]]
  <2>1. g \in Surjection(ns, news)
    <3> HIDE DEF ns
    <3> QED BY DEF Surjection
  <2> HIDE DEF ns, news, g
  <2> QED BY <1>1, <2>1, FS_Surjection
<1>4. its \cap fresh = {}
  BY DEF Unheard
<1> HIDE DEF its, news, ns
<1>5. IsFiniteSet(fresh \cup its) /\ Cardinality(fresh \cup its) = Cardinality(fresh) + size
  <2>1. fresh \cap its = {}
    BY <1>4
  <2>2. IsFiniteSet(fresh \cup its)
        /\ Cardinality(fresh \cup its) = Cardinality(fresh) + Cardinality(its) - Cardinality(fresh \cap its)
    BY <1>2, FS_Union
  <2>3. Cardinality(fresh \cap its) = 0
    BY <2>1, FS_EmptySet
  <2>4. Cardinality(fresh) \in Nat
    BY FS_CardinalityType
  <2> HIDE DEF size
  <2> QED BY <1>1, <1>2, <2>2, <2>3, <2>4
<1>6. IsFiniteSet(said \cup news) /\ Cardinality(said \cup news) <= Cardinality(said) + size
  <2>1. /\ IsFiniteSet(said \cup news)
        /\ Cardinality(said \cup news) = Cardinality(said) + Cardinality(news) - Cardinality(said \cap news)
    BY <1>3, FS_Union
  <2>2. Cardinality(said \cap news) \in Nat
    BY FS_Subset, FS_CardinalityType
  <2>3. Cardinality(said) \in Nat /\ Cardinality(news) \in Nat
    BY <1>3, FS_CardinalityType
  <2> QED BY <1>1, <1>3, <2>1, <2>2, <2>3
<1>7. said \cup new \subseteq said \cup news
  BY DEF news, ns, SaidOrUnsent
<1>8. IsFiniteSet(said \cup new) /\ Cardinality(said \cup new) <= Cardinality(said \cup news)
  BY <1>6, <1>7, FS_Subset
<1>9. /\ Cardinality(fresh) \in Nat /\ Cardinality(said) \in Nat
      /\ Cardinality(said \cup new) \in Nat /\ Cardinality(said \cup news) \in Nat
  BY <1>6, <1>8, FS_CardinalityType
<1>10. Cardinality(fresh \cup its) >= Cardinality(said \cup new)
  BY <1>1, <1>5, <1>6, <1>8, <1>9
<1> QED BY <1>5, <1>8, <1>10 DEF its, ns, Unsent

\* Messages of one character each, so that what was resent counts messages.
OneCharacterEach == \A m \in DOMAIN Size : Size[m] = 1

Messages(c) == Call[c].messages
Together(c, d) == Call[c].process = Call[d].process /\ Conversation(c) = Conversation(d)

\* The exchanges that were diffed, and those of the conversation of one.
Diffed == {c \in scene.calls : resent[c] # None}
Turns(first) == {c \in Diffed : Together(c, first)}
Fresh(C) == UNION {{c} \X ((resent[c] + 1)..Len(Messages(c))) : c \in C}
Said(C) == UNION {Contexts[c] : c \in C}
Covered(first) ==
  /\ IsFiniteSet(Fresh(Turns(first))) /\ IsFiniteSet(Said(Turns(first)))
  /\ Cardinality(Fresh(Turns(first))) >= Cardinality(Said(Turns(first)))

\* What a baseline may be: the messages of an exchange that was diffed.
Baselines(p) ==
  {[key |-> Conversation(c), value |-> Messages(c)] : c \in {d \in Diffed : Call[d].process = p}}

\* The inductive invariant.
Heard ==
  /\ scene \in Scenes
  /\ resent = [c \in Calls |-> resent[c]]
  /\ \A c \in Calls : resent[c] = None \/ resent[c] \in 0..Len(Messages(c))
  /\ history = [p \in Processes |-> history[p]]
  /\ \A p \in Processes : history[p] \in Seq(Baselines(p))
  /\ \A first \in Calls : Covered(first)

\* An entry that is touched joins those that are kept.
LEMMA TouchedIs ==
  ASSUME NEW E, NEW entries \in Seq(E), NEW key, NEW value, [key |-> key, value |-> value] \in E,
         NEW most \in Nat
  PROVE  Touched(entries, key, value, most) \in Seq(E)
<1>1. Without(entries, key) \in Seq(E)
  <2>1. CASE Known(entries, key)
    <3> DEFINE i == Place(entries, key)
    <3>1. i \in DOMAIN entries
      BY <2>1 DEF Known, Place
    <3>2. Len(entries) \in Nat /\ i \in 1..Len(entries)
      BY <3>1
    <3>3. RemoveAt(entries, i) = SubSeq(entries, 1, i - 1) \o SubSeq(entries, i + 1, Len(entries))
      BY DEF RemoveAt
    <3> HIDE DEF i
    <3>4. SubSeq(entries, 1, i - 1) \in Seq(E) /\ SubSeq(entries, i + 1, Len(entries)) \in Seq(E)
      BY <3>2
    <3>5. RemoveAt(entries, i) \in Seq(E)
      BY <3>3, <3>4
    <3> QED BY <2>1, <3>5 DEF Without, i
  <2>2. CASE ~Known(entries, key)
    BY <2>2 DEF Without
  <2> QED BY <2>1, <2>2
<1> DEFINE new == [key |-> key, value |-> value]
           all == Append(Without(entries, key), new)
<1>2. all \in Seq(E)
  <2> HIDE DEF new
  <2> QED BY <1>1 DEF new
<1> HIDE DEF all
<1>3. Youngest(all, most) \in Seq(E)
  BY <1>2 DEF Youngest
<1> QED BY <1>3 DEF Touched, all

\* The baseline that is found is one that is kept.
LEMMA FoundIs ==
  ASSUME NEW E, NEW entries \in Seq(E), NEW key, Known(entries, key)
  PROVE  \E e \in E : e.key = key /\ Found(entries, key) = e.value
<1>1. Place(entries, key) \in DOMAIN entries /\ entries[Place(entries, key)].key = key
  BY DEF Known, Place
<1> HIDE DEF Place
<1> QED BY <1>1 DEF Found

\* What is taken for resent was sent in an exchange of the conversation.
LEMMA ResentWasSaid ==
  ASSUME OneCharacterEach, Heard, NEW w \in Workers, NEW c \in Calls, Diff(w, c)
  PROVE  \E r \in 0..Len(Messages(c)) :
           /\ resent' = [resent EXCEPT ![c] = r]
           /\ r = 0 \/ \E b \in Diffed :
                         /\ Together(b, c) /\ r <= Len(Messages(b))
                         /\ SubSeq(Messages(b), 1, r) = SubSeq(Messages(c), 1, r)
<1> DEFINE p == Proc(w)
           key == Conversation(c)
           now == Messages(c)
           r == IF Known(history[p], key)
                THEN Characters(CommonPrefix(Found(history[p], key), now)) ELSE 0
<1>1. resent' = [resent EXCEPT ![c] = r] /\ p \in Processes /\ Call[c].process = p
  BY DEF Diff, Messages, Processes
<1>2. now \in Seq(DOMAIN Size) /\ Len(now) \in Nat
  BY EdgeAssumption DEF Messages
<1>3. CASE ~Known(history[p], key)
  <2>1. r = 0
    BY <1>3
  <2>2. 0 \in 0..Len(Messages(c))
    BY <1>2
  <2>3. resent' = [resent EXCEPT ![c] = 0]
    <3> HIDE DEF r
    <3> QED BY <1>1, <2>1
  <2> WITNESS 0 \in 0..Len(Messages(c))
  <2> QED BY <2>3
<1>4. CASE Known(history[p], key)
  <2>1. PICK e \in Baselines(p) : e.key = key /\ Found(history[p], key) = e.value
    BY <1>1, <1>4, FoundIs DEF Heard
  <2>2. PICK b \in Diffed : /\ Call[b].process = p
                            /\ e = [key |-> Conversation(b), value |-> Messages(b)]
    BY <2>1 DEF Baselines
  <2>3. Conversation(b) = key /\ Found(history[p], key) = Messages(b)
    BY <2>1, <2>2
  <2>4. b \in Calls
    BY EdgeAssumption DEF Diffed, Heard
  <2>5. Messages(b) \in Seq(DOMAIN Size)
    BY <2>4, EdgeAssumption DEF Messages
  <2>6. PICK n \in 0..Len(now) : /\ n <= Len(Messages(b))
                                 /\ CommonPrefix(Messages(b), now) = SubSeq(now, 1, n)
                                 /\ SubSeq(Messages(b), 1, n) = SubSeq(now, 1, n)
    <3> HIDE DEF now
    <3> QED BY <1>2, <2>5, CommonPrefixIs
  <2>7. SubSeq(now, 1, n) \in Seq(DOMAIN Size) /\ Len(SubSeq(now, 1, n)) = n
    <3> HIDE DEF now
    <3> QED BY <1>2, <2>6
  <2>8. r = Characters(SubSeq(now, 1, n))
    BY <1>4, <2>3, <2>6
  <2>9. r = n
    <3> HIDE DEF now, r
    <3> QED BY <2>7, <2>8, CharactersAre DEF OneCharacterEach
  <2>10. Together(b, c)
    BY <1>1, <2>2, <2>3 DEF Together
  <2> HIDE DEF r
  <2> QED BY <1>1, <2>2, <2>6, <2>9, <2>10
<1> QED BY <1>3, <1>4

\* One more exchange of a conversation is counted.
LEMMA DiffCovers ==
  ASSUME Heard, NEW c \in Calls, c \in scene.calls, resent[c] = None, NEW r \in 0..Len(Messages(c)),
         resent' = [resent EXCEPT ![c] = r], UNCHANGED scene,
         r = 0 \/ \E b \in Diffed :
                    /\ Together(b, c) /\ r <= Len(Messages(b))
                    /\ SubSeq(Messages(b), 1, r) = SubSeq(Messages(c), 1, r),
         NEW first \in Calls
  PROVE  Covered(first)'
<1> DEFINE C == Turns(first)
           len == Len(Messages(c))
           its == Unsent(c, r, len)
<1>1. len \in Nat /\ r \in 0..len /\ r \in Nat /\ None \notin Nat
  BY EdgeAssumption DEF Messages
<1>2. c \notin Diffed /\ Diffed' = Diffed \cup {c}
  BY <1>1 DEF Diffed, Heard
<1>3. resent'[c] = r /\ \A d \in Diffed : resent'[d] = resent[d]
  BY <1>2, EdgeAssumption DEF Heard, Diffed
<1>4. CASE ~Together(c, first)
  <2>1. Turns(first)' = C
    BY <1>2, <1>4 DEF Turns
  <2>2. Fresh(Turns(first))' = Fresh(C)
    BY <1>3, <2>1 DEF Fresh, Turns
  <2>3. Said(Turns(first))' = Said(C)
    BY <2>1 DEF Said
  <2>4. Covered(first)
    BY DEF Heard
  <2> QED BY <2>2, <2>3, <2>4 DEF Covered
<1>5. CASE Together(c, first)
  <2>1. Turns(first)' = C \cup {c} /\ C \subseteq Diffed /\ c \notin C
    BY <1>2, <1>5 DEF Turns
  <2>2. Fresh(Turns(first))' = Fresh(C) \cup its
    BY <1>3, <2>1 DEF Fresh, Unsent
  <2>3. Said(Turns(first))' = Said(C) \cup Contexts[c]
    BY <2>1 DEF Said
  <2>4. \A n : <<c, n>> \notin Fresh(C)
    BY <2>1 DEF Fresh
  <2> DEFINE f == [n \in 1..len |-> SubSeq(Messages(c), 1, n)]
             later == (r + 1)..len
  <2>5. Contexts[c] \subseteq Said(C) \cup {f[n] : n \in later}
    <3> SUFFICES ASSUME NEW n \in 1..len, f[n] \notin {f[m] : m \in later}
                 PROVE  f[n] \in Said(C)
      BY DEF Contexts, Messages
    <3>1. n \in 1..r
      BY <1>1
    <3>2. PICK b \in Diffed : /\ Together(b, c) /\ r <= Len(Messages(b))
                              /\ SubSeq(Messages(b), 1, r) = SubSeq(Messages(c), 1, r)
      BY <1>1, <3>1
    <3>3. b \in Calls
      BY EdgeAssumption DEF Diffed, Heard
    <3>4. b \in C
      BY <1>5, <3>2 DEF Turns, Together
    <3>5. Messages(b) \in Seq(DOMAIN Size) /\ Messages(c) \in Seq(DOMAIN Size)
      BY <3>3, EdgeAssumption DEF Messages
    <3>6. /\ SubSeq(Messages(c), 1, n) = SubSeq(SubSeq(Messages(c), 1, r), 1, n)
          /\ SubSeq(Messages(b), 1, n) = SubSeq(SubSeq(Messages(b), 1, r), 1, n)
      BY <1>1, <3>1, <3>2, <3>5
    <3>7. f[n] = SubSeq(Messages(b), 1, n) /\ n \in 1..Len(Messages(b))
      BY <1>1, <3>1, <3>2, <3>5, <3>6
    <3>8. f[n] \in Contexts[b]
      BY <3>3, <3>7 DEF Contexts, Messages
    <3> QED BY <3>4, <3>8 DEF Said
  <2>6. /\ IsFiniteSet(Fresh(C)) /\ IsFiniteSet(Said(C))
        /\ Cardinality(Fresh(C)) >= Cardinality(Said(C))
    BY DEF Heard, Covered
  <2> DEFINE fresh == Fresh(C)
             said == Said(C)
             new == Contexts[c]
  <2>7. /\ Cardinality(fresh \cup its) >= Cardinality(said \cup new)
        /\ IsFiniteSet(fresh \cup its) /\ IsFiniteSet(said \cup new)
    <3>1. SaidOrUnsent(new, said, f, r, len)
      BY <2>5 DEF SaidOrUnsent
    <3>2. Unheard(c, fresh)
      BY <2>4 DEF Unheard
    <3>3. IsFiniteSet(fresh) /\ IsFiniteSet(said) /\ Cardinality(fresh) >= Cardinality(said)
      BY <2>6
    <3> HIDE DEF fresh, said, new, f, len, C, later
    <3> QED BY <1>1, <3>1, <3>2, <3>3, OneMoreExchange
  <2> QED BY <2>2, <2>3, <2>7 DEF Covered
<1> QED BY <1>4, <1>5

\* The step of the tracker, for its resent history and its baselines.
LEMMA DiffHeard ==
  ASSUME OneCharacterEach, Heard, NEW w \in Workers, NEW c \in Calls, Diff(w, c)
  PROVE  Heard'
<1> DEFINE p == Proc(w)
           key == Conversation(c)
           now == Messages(c)
<1>1. /\ c \in scene.calls /\ resent[c] = None /\ Call[c].process = p /\ UNCHANGED scene
      /\ history' = [history EXCEPT ![p] = Touched(@, key, now, MaxSessions)]
  BY DEF Diff, Messages
<1>2. PICK r \in 0..Len(Messages(c)) :
        /\ resent' = [resent EXCEPT ![c] = r]
        /\ r = 0 \/ \E b \in Diffed :
                      /\ Together(b, c) /\ r <= Len(Messages(b))
                      /\ SubSeq(Messages(b), 1, r) = SubSeq(Messages(c), 1, r)
  BY ResentWasSaid
<1>3. /\ resent' = [d \in Calls |-> resent'[d]]
      /\ \A d \in Calls : resent'[d] = None \/ resent'[d] \in 0..Len(Messages(d))
  BY <1>2 DEF Heard
<1>4. \A first \in Calls : Covered(first)'
  BY <1>1, <1>2, DiffCovers
<1>5. Diffed \subseteq Diffed' /\ c \in Diffed'
  <2>1. r # None
    BY EdgeAssumption DEF Messages
  <2> QED BY <1>1, <1>2, <2>1 DEF Diffed, Heard
<1>6. \A q \in Processes : Baselines(q) \subseteq Baselines(q)'
  BY <1>5 DEF Baselines
<1>7. [key |-> key, value |-> now] \in Baselines(Call[c].process)'
  BY <1>1, <1>5 DEF Baselines
<1>8. history' = [q \in Processes |-> history'[q]]
  BY <1>1 DEF Heard
<1>9. ASSUME NEW q \in Processes PROVE history'[q] \in Seq(Baselines(q)')
  <2> DEFINE E == Baselines(q)'
  <2>1. history[q] \in Seq(Baselines(q)) /\ Baselines(q) \subseteq E
    BY <1>6 DEF Heard
  <2>2. history[q] \in Seq(E)
    <3> HIDE DEF E
    <3> QED BY <2>1
  <2>3. CASE q # p
    BY <1>1, <2>2, <2>3 DEF Heard
  <2>4. CASE q = p
    <3>1. history'[q] = Touched(history[q], key, now, MaxSessions)
      BY <1>1, <2>4 DEF Heard
    <3>2. [key |-> key, value |-> now] \in E
      BY <1>1, <1>7, <2>4
    <3>3. MaxSessions \in Nat
      BY EdgeAssumption
    <3> HIDE DEF E, key, now
    <3> QED BY <2>2, <3>1, <3>2, <3>3, TouchedIs DEF E
  <2> QED BY <2>3, <2>4
<1> QED BY <1>1, <1>3, <1>4, <1>8, <1>9 DEF Heard

\* Nothing was diffed at first.
LEMMA HeardInit == Init => Heard
<1> SUFFICES ASSUME Init PROVE Heard
  OBVIOUS
<1>1. /\ scene \in Scenes /\ resent = [c \in Calls |-> None] /\ history = [p \in Processes |-> <<>>]
  BY DEF Init
<1>2. Diffed = {}
  BY <1>1, EdgeAssumption DEF Diffed
<1>3. ASSUME NEW first \in Calls PROVE Covered(first)
  <2>1. Turns(first) = {}
    BY <1>2 DEF Turns
  <2>2. Fresh(Turns(first)) = {} /\ Said(Turns(first)) = {}
    BY <2>1 DEF Fresh, Said
  <2>3. IsFiniteSet({}) /\ Cardinality({}) = 0
    BY FS_EmptySet
  <2> QED BY <2>2, <2>3 DEF Covered
<1> QED BY <1>1, <1>3 DEF Heard

\* The history may be emptied, and nothing else changes.
LEMMA ForgottenHeard ==
  ASSUME Heard, UNCHANGED <<scene, resent>>,
         history' = [p \in Processes |-> history'[p]],
         \A p \in Processes : history'[p] \in {history[p], <<>>}
  PROVE  Heard'
<1>1. \A first \in Calls : Covered(first)' = Covered(first)
  BY DEF Covered, Fresh, Said, Turns, Diffed
<1>2. \A p \in Processes : Baselines(p)' = Baselines(p)
  BY DEF Baselines, Diffed
<1>3. ASSUME NEW p \in Processes PROVE history'[p] \in Seq(Baselines(p))
  <2>1. history[p] \in Seq(Baselines(p)) /\ history'[p] \in {history[p], <<>>}
    BY DEF Heard
  <2> DEFINE E == Baselines(p)
  <2>2. history[p] \in Seq(E) /\ <<>> \in Seq(E)
    BY <2>1
  <2> QED BY <2>1, <2>2
<1> QED BY <1>1, <1>2, <1>3 DEF Heard

\* No step takes for resent what was never sent.
LEMMA HeardNext ==
  ASSUME OneCharacterEach
  PROVE  Heard /\ [Next]_vars => Heard'
<1> SUFFICES ASSUME Heard, [Next]_vars PROVE Heard'
  OBVIOUS
<1>1. ASSUME NEW w \in Workers, Capture(w) \/ \E c \in Calls : Diff(w, c) \/ Unparseable(w, c)
      PROVE  Heard'
  <2>1. \/ \E c \in Calls : Diff(w, c)
        \/ UNCHANGED <<scene, resent, history>>
    BY <1>1 DEF Capture, Unparseable, MonitorFor, Observe, Classify, Look, Hit, HitIsGone, Answered, NoAnswer,
           Teach, Truncate, Write, Stat, Keep, TooSoon, Allowed, Show, waste
  <2>2. CASE UNCHANGED <<scene, resent, history>>
    BY <2>2, ForgottenHeard DEF Heard
  <2> QED BY <2>1, <2>2, DiffHeard
<1>2. CASE Tick \/ UNCHANGED vars
  <2>1. UNCHANGED <<scene, resent, history>>
    BY <1>2 DEF Tick, vars, waste
  <2> QED BY <2>1, ForgottenHeard DEF Heard
<1>3. ASSUME NEW p \in Processes, Restart(p) PROVE Heard'
  <2>1. UNCHANGED <<scene, resent>> /\ history' = [history EXCEPT ![p] = <<>>]
    BY <1>3 DEF Restart
  <2>2. /\ history' = [q \in Processes |-> history'[q]]
        /\ \A q \in Processes : history'[q] \in {history[q], <<>>}
    BY <2>1 DEF Heard
  <2> QED BY <2>1, <2>2, ForgottenHeard
<1> QED BY <1>1, <1>2, <1>3 DEF Next

\* Every context that was sent in a conversation is counted as fresh at least once
\* (duplicate_history_tokens, diff.py), in any order of captures and with any
\* baselines evicted; of messages of one character, which the property counts.
THEOREM NovelContextIsFresh ==
  ASSUME OneCharacterEach
  PROVE  Spec => []NovelIsFresh
<1>1. Heard => NovelIsFresh
  <2> SUFFICES ASSUME Heard PROVE NovelIsFresh
    OBVIOUS
  <2>1. \A first \in Diffed : Covered(first)
    BY EdgeAssumption DEF Heard, Diffed
  <2> QED BY <2>1 DEF NovelIsFresh, Covered, Diffed, Turns, Together, Fresh, Said, Messages
<1>2. Heard /\ [Next]_vars => Heard'
  BY HeardNext
<1> QED BY <1>1, <1>2, HeardInit, PTL DEF Spec

-----------------------------------------------------------------------------
(* Agent: the records of a call.                                           *)

\* How a record was made.
Kind(r) == r.id[1]

\* A record is of one call, and of a kind that its tool can make.
Fits(r) ==
  /\ r.call \in DOMAIN calls
  /\ r.id = <<Kind(r), r.call>>
  /\ \/ Kind(r) = "gateway" /\ Speaks[calls[r.call]] \in DOMAIN BaseUrl
     \/ Kind(r) = "export" /\ Capability[calls[r.call]].tier = "otel"
     \/ Kind(r) = "vendor" /\ Capability[calls[r.call]].tier = "vendor"

\* No id twice.
Unique(set) == \A r, q \in set : r.id = q.id => r = q

\* The inductive invariant.
Inv ==
  /\ calls \in Seq(Tools)
  /\ \A n \in vendor : n \in DOMAIN calls /\ Capability[calls[n]].tier = "vendor"
  /\ \A r \in records : Fits(r)
  /\ Unique(records)

\* What is inserted replaces what has its id.
LEMMA InsertedIs ==
  ASSUME Unique(records), NEW new, Unique(new)
  PROVE  Unique(Inserted(new)) /\ Inserted(new) \subseteq records \cup new
BY DEF Unique, Inserted

\* Nothing is recorded at first.
LEMMA InitInv == AgentInit => Inv
BY DEF AgentInit, Inv, Unique

\* The new records of a call are those that its tool can make.
LEMMA MakeCallInv ==
  ASSUME Inv, NEW tool \in Tools, NEW tagged, MakeCall(tool, tagged)
  PROVE  Inv'
<1> DEFINE n == Len(calls) + 1
           process == agent[CHOOSE s \in Serving : TRUE].env
           byGateway == Record(<<"gateway", n>>, n, ToolOf(IF tagged THEN tool ELSE Nobody, process))
           byExport == Record(<<"export", n>>, n, ToolOf(tool, process))
           captured == (IF ThroughGateway(tool, shell) THEN {byGateway} ELSE {})
                         \cup (IF Exports(tool, shell) THEN {byExport} ELSE {})
<1>1. /\ calls' = Append(calls, tool)
      /\ vendor' = IF Capability[tool].tier = "vendor" THEN vendor \cup {n} ELSE vendor
      /\ records' = IF Serving = {} THEN records ELSE Inserted(captured)
  BY DEF MakeCall
<1>2. /\ calls' \in Seq(Tools) /\ n \in DOMAIN calls' /\ calls'[n] = tool
      /\ \A m \in DOMAIN calls : m \in DOMAIN calls' /\ calls'[m] = calls[m]
  BY <1>1 DEF Inv
<1>3. /\ byGateway.id = <<"gateway", n>> /\ byGateway.call = n
      /\ byExport.id = <<"export", n>> /\ byExport.call = n
  BY DEF Record
<1> HIDE DEF n, process, byGateway, byExport
<1>4. Unique(captured)
  BY <1>3 DEF Unique
<1>5. \A r \in captured : Fits(r)'
  BY <1>2, <1>3 DEF Fits, Kind, ThroughGateway, Exports
<1>6. \A r \in records : Fits(r)'
  BY <1>2 DEF Inv, Fits, Kind
<1>7. \A m \in vendor' : m \in DOMAIN calls' /\ Capability[calls'[m]].tier = "vendor"
  BY <1>1, <1>2 DEF Inv
<1> HIDE DEF captured
<1>8. Unique(records') /\ \A r \in records' : Fits(r)'
  BY <1>1, <1>4, <1>5, <1>6, InsertedIs DEF Inv
<1> QED BY <1>2, <1>7, <1>8 DEF Inv, Unique

\* What is fetched again replaces what was fetched before.
LEMMA SyncCursorInv ==
  ASSUME Inv, SyncCursor
  PROVE  Inv'
<1> DEFINE fetched == {Record(EventId(n), n, calls[n]) : n \in vendor}
<1>1. records' = Inserted(fetched) /\ UNCHANGED <<calls, vendor>>
  BY DEF SyncCursor
<1>2. \A r \in fetched : Fits(r) /\ r.id = <<"vendor", r.call>>
  BY DEF Inv, Fits, Kind, Record, EventId
<1>3. Unique(fetched)
  BY DEF Unique, Record, EventId
<1> HIDE DEF fetched
<1>4. Unique(records') /\ \A r \in records' : Fits(r)
  BY <1>1, <1>2, <1>3, InsertedIs DEF Inv
<1> QED BY <1>1, <1>4 DEF Inv, Fits, Kind, Unique

\* No step records a call twice in one way.
LEMMA NextInv == Inv /\ [AgentNext]_agentVars => Inv'
<1> SUFFICES ASSUME Inv, [AgentNext]_agentVars PROVE Inv'
  OBVIOUS
<1>1. ASSUME UNCHANGED <<calls, vendor, records>> PROVE Inv'
  BY <1>1 DEF Inv, Fits, Kind, Unique
<1>2. \/ \E tool \in Tools, tagged \in BOOLEAN : MakeCall(tool, tagged)
      \/ SyncCursor
      \/ UNCHANGED <<calls, vendor, records>>
  BY DEF AgentNext, Listen, Crash, TryAgain, Stop, Kill, OrphanEnds, ManagerRestarts, Becomes,
         Login, Logout, Install, Uninstall, EditFile, SetUp, NewShell, use, machine, agentVars
<1> QED BY <1>1, <1>2, MakeCallInv, SyncCursorInv

\* A call makes one record, or two of a tool that reports its own calls and was
\* sent through the gateway all the same.
THEOREM CallsAreRecordedOnce == AgentSpec => []RecordedOnce
<1>1. Inv => RecordedOnce
  <2> SUFFICES ASSUME Inv, NEW n \in DOMAIN calls,
                      NEW r \in RecordsOf(n), NEW q \in RecordsOf(n), r # q
               PROVE  /\ Capability[calls[n]].tier = "otel"
                      /\ {x.id[1] : x \in RecordsOf(n)} = {"gateway", "export"}
    BY DEF RecordedOnce
  <2>1. ASSUME NEW x \in RecordsOf(n)
        PROVE  x.id = <<Kind(x), n>> /\ Fits(x) /\ x \in records /\ x.call = n
    BY DEF RecordsOf, Inv, Fits
  <2>2. Kind(r) # Kind(q)
    BY <2>1 DEF Inv, Unique
  <2>3. Capability[calls[n]].tier = "vendor" => Speaks[calls[n]] \notin DOMAIN BaseUrl
    <3>1. calls[n] \in Tools
      BY DEF Inv
    <3>2. "none" \notin DOMAIN BaseUrl
      BY DEF BaseUrl
    <3> QED BY <3>1, <3>2, OnboardAssumption
  <2>4. /\ {Kind(r), Kind(q)} = {"gateway", "export"}
        /\ Capability[calls[n]].tier = "otel"
    BY <2>1, <2>2, <2>3 DEF Fits
  <2>5. \A x \in RecordsOf(n) : Kind(x) \in {"gateway", "export"}
    BY <2>1, <2>4 DEF Fits
  <2> QED BY <2>4, <2>5 DEF Kind
<1> QED BY <1>1, InitInv, NextInv, PTL DEF AgentSpec
=============================================================================
