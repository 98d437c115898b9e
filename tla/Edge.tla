-------------------------------- MODULE Edge --------------------------------
(***************************************************************************)
(* The edge pipeline: what becomes of the exchanges that the two doors     *)
(* captured.  _capture in gateway.py diffs the request against the history *)
(* of its conversation (diff.py), lets the developer's waste monitor look  *)
(* at it (waste.py), classifies and attributes it (pipeline.py,            *)
(* attributor.py) with what the device learned (worktype_learn.py) or an   *)
(* LLM's answer (worktype_llm.py), stores the record and raises            *)
(* notifications (notify.py).                                              *)
(*                                                                         *)
(* Captures run in a pool of threads, in any order, in two processes: the  *)
(* gateway and the forward proxy.  A process has its own history, monitors *)
(* and caches; the memory of work types is a file they share.  A step is   *)
(* what a thread does under one lock, or between two accesses to what it   *)
(* shares.                                                                 *)
(*                                                                         *)
(* Content is the identity of messages and prompts.  The clock does not    *)
(* advance between the two halves of the debounce: a thread would have to  *)
(* stall there for a cooldown to be noticed.                               *)
(***************************************************************************)
EXTENDS Attribution

CONSTANTS
  Call,         \* call -> [process, actor, work, messages, prompt, answered, input, read,
                \* cached, parses]
  Size,         \* message -> characters
  Similar,      \* sets of two prompts that are near-identical
  MaxSessions, MaxMonitors, MaxHistory,   \* of the tracker, of the gateway, of a monitor
  CacheMin,     \* cache_min_resent
  MinCount, MaxTerms, SaveEvery,          \* of the learner
  Replies,      \* prompt -> what the LLM may answer; empty when none is configured
  MaxLabels,    \* _CACHE_MAX of the LLM's labels
  Cooldown,     \* cooldown_s, in ticks
  Scenes        \* bound: sets of [calls, workers, restarts], one of which is what happens

Calls == DOMAIN Call
Processes == {Call[c].process : c \in Calls}
Prompts == {Call[c].prompt : c \in Calls}
Terms == UNION {p.terms : p \in Prompts}
Kinds == {"cache_hit", "retry_loop", "cache_inefficiency"}

ASSUME EdgeAssumption ==
  /\ {MaxSessions, MaxMonitors, MaxHistory, MinCount, MaxTerms, SaveEvery, MaxLabels, Cooldown}
       \subseteq Nat \ {0}
  /\ None \notin Nat
  /\ \A c \in Calls : Call[c].messages \in Seq(DOMAIN Size)
  /\ \A s \in Scenes :
       /\ s.restarts \in Nat /\ s.calls \subseteq Calls
       /\ IsFiniteSet(s.calls) /\ IsFiniteSet(DOMAIN s.workers)
       /\ \A w \in DOMAIN s.workers : s.workers[w] \in Processes

VARIABLES
  scene,      \* the calls that are captured, worker -> its process, how many restarts
  slot,       \* worker -> the capture it runs: [at, call, ...]
  resent,     \* call -> duplicate_history_tokens, once it was diffed
  record,     \* call -> the record stored for it, or "lost"
  history,    \* process -> _prev of the tracker, least recently used first
  monitors,   \* process -> _monitors: [actor, monitor], least recently used first
  watched,    \* monitor -> its _prompts and _answers; named after the call that made it
  memory,     \* process -> the learner's [counts, learned, stamp, dirty]
  lock,       \* process -> the worker that holds the learner's lock across steps
  file,       \* worktype_memory.json: [is, counts, learned, stamp]
  labels,     \* process -> _CACHE: [prompt, label], least recently used first
  last,       \* process -> kind -> time since the debouncer's stamp, up to the cooldown
  shown,      \* bookkeeping: process -> kind -> ages of the toasts in the last cooldown
  taught,     \* bookkeeping: term -> label -> how often a confident label taught it
  restarts

vars == <<scene, slot, resent, record, history, monitors, watched, memory, lock, file,
          labels, last, shown, taught, restarts>>
learning == <<memory, lock, file, taught>>
waste == <<history, monitors, watched, resent>>
toasts == <<last, shown>>

Idle == [at |-> "idle"]
Workers == DOMAIN scene.workers
Proc(w) == scene.workers[w]

NoCounts == [t \in {} |-> None]
Forgotten == [counts |-> NoCounts, learned |-> NoCounts, stamp |-> 0, dirty |-> 0]

Init ==
  /\ scene \in Scenes
  /\ slot = [w \in Workers |-> Idle]
  /\ resent = [c \in Calls |-> None]
  /\ record = [c \in Calls |-> None]
  /\ history = [p \in Processes |-> <<>>]
  /\ monitors = [p \in Processes |-> <<>>]
  /\ watched = [c \in Calls |-> <<>>]
  /\ memory = [p \in Processes |-> Forgotten]
  /\ lock = [p \in Processes |-> None]
  /\ file = [is |-> "absent", counts |-> NoCounts, learned |-> NoCounts, stamp |-> 0]
  /\ labels = [p \in Processes |-> <<>>]
  /\ last = [p \in Processes |-> [k \in Kinds |-> Cooldown]]
  /\ shown = [p \in Processes |-> [k \in Kinds |-> <<>>]]
  /\ taught = [t \in Terms |-> NoCounts]
  /\ restarts = 0

-----------------------------------------------------------------------------
(* Least recently used *)

\* `while len > max: popitem(last=False)`
Youngest(entries, most) ==
  IF Len(entries) > most THEN SubSeq(entries, Len(entries) - most + 1, Len(entries)) ELSE entries

\* A key has one entry at most.
Known(entries, key) == \E i \in DOMAIN entries : entries[i].key = key
Place(entries, key) == CHOOSE i \in DOMAIN entries : entries[i].key = key
Found(entries, key) == entries[Place(entries, key)].value
Without(entries, key) ==
  IF Known(entries, key) THEN RemoveAt(entries, Place(entries, key)) ELSE entries

\* Stored, or found again: it becomes the most recently used entry.
Touched(entries, key, value, most) ==
  Youngest(Append(Without(entries, key), [key |-> key, value |-> value]), most)

-----------------------------------------------------------------------------
(* Resent history *)

\* conversation_key: the actor, the provider and repository, the first message
\* of the user.
Conversation(c) == <<Call[c].actor, Call[c].work.repo, Head(Call[c].messages)>>

Characters(messages) == Cardinality(UNION {{i} \X (1..Size[messages[i]]) : i \in DOMAIN messages})

\* mutant: messages that were sent before, wherever they were
AnyCommon(before, now) == SelectSeq(now, LAMBDA m : m \in ToSet(before))
\* unchanged_prefix_chars: the run of leading messages that are the same.
CommonPrefix(before, now) == LongestCommonPrefix({before, now})

\* The capture begins: the exchange is parsed and diffed against the last
\* request of its conversation, which it replaces, under the tracker's lock.
Diff(w, c) ==
  LET p == Proc(w)
      key == Conversation(c)
      now == Call[c].messages
  IN /\ slot[w] = Idle
     /\ c \in scene.calls /\ Call[c].process = p /\ Call[c].parses
     /\ resent[c] = None /\ record[c] = None
     /\ resent' = [resent EXCEPT ![c] =
          IF Known(history[p], key)
          THEN Characters(CommonPrefix(Found(history[p], key), now)) ELSE 0]
     /\ history' = [history EXCEPT ![p] = Touched(@, key, now, MaxSessions)]
     /\ slot' = [slot EXCEPT ![w] = [at |-> "monitor", call |-> c]]
     /\ UNCHANGED <<scene, record, monitors, watched, learning, labels, toasts, restarts>>

\* The exchange cannot be parsed: counted by _log_capture_error, nothing stored.
Unparseable(w, c) ==
  /\ slot[w] = Idle
  /\ c \in scene.calls /\ Call[c].process = Proc(w) /\ ~Call[c].parses
  /\ resent[c] = None /\ record[c] = None
  /\ record' = [record EXCEPT ![c] = "lost"]
  /\ UNCHANGED <<scene, slot, waste, learning, labels, toasts, restarts>>

-----------------------------------------------------------------------------
(* Waste signals *)

\* _monitor_for: the actor's monitor, or a new one, under the gateway's lock.
\* An evicted monitor that a capture holds is still observed, and then gone.
MonitorFor(w) ==
  LET p == Proc(w)
      c == slot[w].call
      actor == Call[c].actor
      monitor == IF Known(monitors[p], actor) THEN Found(monitors[p], actor) ELSE c
  IN /\ slot[w].at = "monitor"
     /\ monitors' = [monitors EXCEPT ![p] = Touched(@, actor, monitor, MaxMonitors)]
     /\ slot' = [slot EXCEPT ![w] = [at |-> "observe", call |-> c, monitor |-> monitor]]
     /\ UNCHANGED <<scene, resent, record, history, watched, learning, labels, toasts, restarts>>

Alike(p, q) == p = q \/ {p, q} \in Similar

\* Resent history that is not read from the provider's cache: enough of it to
\* say so, or most of the input.
Uncached(c) == IF resent[c] > Call[c].read THEN resent[c] - Call[c].read ELSE 0
ResendSignals(c) ==
  IF resent[c] = 0 \/ Call[c].input = 0 \/ 2 * Call[c].read >= resent[c] THEN {}
  ELSE IF Uncached(c) >= CacheMin THEN {"cache_inefficiency"}
  ELSE IF 10 * resent[c] >= 6 * Call[c].input THEN {"context_bloat"} ELSE {}

\* _observe.  The thresholds of a retry (0.92) and of a question answered
\* before (0.85) are one relation here; a hint that a smaller model would do
\* is left out.
Signals(c, past) ==
  LET recent == SubSeq(past, IF Len(past) > 4 THEN Len(past) - 3 ELSE 1, Len(past))
  IN {k \in {"retry_loop"} : \E e \in ToSet(recent) : Alike(e.prompt, Call[c].prompt)}
       \cup ResendSignals(c)
       \cup {k \in {"answered_already"} :
               \E e \in ToSet(past) : e.answered /\ Alike(e.prompt, Call[c].prompt)}

Observe(w) ==
  LET c == slot[w].call
      monitor == slot[w].monitor
      seen == [prompt |-> Call[c].prompt, answered |-> Call[c].answered]
  IN /\ slot[w].at = "observe"
     /\ watched' = [watched EXCEPT ![monitor] = Youngest(Append(@, seen), MaxHistory)]
     /\ slot' = [slot EXCEPT ![w] =
          [at |-> "classify", call |-> c, signals |-> Signals(c, watched[monitor])]]
     /\ UNCHANGED <<scene, resent, record, history, monitors, learning, labels, toasts, restarts>>

-----------------------------------------------------------------------------
(* What the device learned *)

\* A bucket: label -> how often it was counted, for the labels that were.
Total(bucket) == Cardinality(UNION {{l} \X (1..bucket[l]) : l \in DOMAIN bucket})
Times(bucket, l) == IF l \in DOMAIN bucket THEN bucket[l] ELSE 0
OneMore(bucket, l) ==
  [j \in DOMAIN bucket \cup {l} |-> IF j = l THEN Times(bucket, l) + 1 ELSE bucket[j]]
\* A dictionary in which some keys have new values.
Updated(old, new) ==
  [k \in DOMAIN old \cup DOMAIN new |-> IF k \in DOMAIN new THEN new[k] ELSE old[k]]

\* dominant_share: four out of five.
Dominant(bucket) == {l \in DOMAIN bucket : 5 * bucket[l] >= 4 * Total(bucket)}

Ripe(buckets) == {t \in DOMAIN buckets : Total(buckets[t]) >= MinCount}
Sure(buckets) == {t \in Ripe(buckets) : Dominant(buckets[t]) # {}}
Top(bucket) == CHOOSE l \in Dominant(bucket) : TRUE

\* mutant: a term that has become ambiguous is not withdrawn
NeverWithdrawn(learned, buckets) ==
  Updated(learned, [t \in Sure(buckets) |-> Top(buckets[t])])

\* _maybe_promote, of the terms whose buckets have changed: promoted, withdrawn,
\* or left as they are.
Promoted(learned, buckets) ==
  Updated(Restrict(learned, DOMAIN learned \ Ripe(buckets)),
          [t \in Sure(buckets) |-> Top(buckets[t])])

\* The terms of the prompt are counted for the label; each is apart from the others.
Counted(m, terms, label) ==
  LET Bucket(t) == IF t \in DOMAIN m.counts THEN m.counts[t] ELSE NoCounts
      buckets == [t \in terms |-> OneMore(Bucket(t), label)]
  IN [m EXCEPT !.counts = Updated(@, buckets), !.learned = Promoted(@, buckets)]

\* "drop the least-supported, never-promoted terms first"
Evictable(m) == DOMAIN m.counts \ DOMAIN m.learned

\* _evict_if_needed: what may be left.
Evictions(m) ==
  LET over == Cardinality(DOMAIN m.counts) - MaxTerms
      most == Min({over, Cardinality(Evictable(m))})
      Least(victims) == \A v \in victims : \A t \in Evictable(m) \ victims :
                          Total(m.counts[v]) <= Total(m.counts[t])
  IN IF over <= 0 THEN {m}
     ELSE {[m EXCEPT !.counts = Restrict(@, DOMAIN @ \ victims)] :
             victims \in {v \in SUBSET Evictable(m) : Cardinality(v) = most /\ Least(v)}}

\* observe()
Observations(m, terms, label) ==
  {[e EXCEPT !.dirty = @ + 1] : e \in Evictions(Counted(m, terms, label))}

\* _load: a file that is being written does not parse, and nothing changes.
Loaded(m, f) ==
  IF f.is = "whole"
  THEN [m EXCEPT !.counts = f.counts, !.learned = f.learned, !.stamp = f.stamp]
  ELSE m

\* _reload_if_changed
Refreshed(m, f) == IF f.is # "absent" /\ f.stamp # m.stamp THEN Loaded(m, f) ELSE m

-----------------------------------------------------------------------------
(* Classification *)

\* patterns(): label -> the terms that were learned for it.
Patterns(m) == [l \in Labels |-> {t \in DOMAIN m.learned : m.learned[t] = l}]

\* The memory is read under the learner's lock, for the free layers of the cascade.
\* The file and its time stamp are read in one step.
Classify(w) ==
  LET p == Proc(w)
      call == Call[slot[w].call]
      m == Refreshed(memory[p], file)
      Following(source) == IF source = "branch" THEN "teach"
                           ELSE IF source = "none" /\ Replies[call.prompt] # {} THEN "look" ELSE "keep"
  IN /\ slot[w].at = "classify"
     /\ lock[p] = None
     /\ memory' = [memory EXCEPT ![p] = m]
     /\ \E type \in WorkTypes(call.work, call.prompt, Patterns(m)) :
          slot' = [slot EXCEPT ![w] =
            [at |-> Following(type[2]), call |-> @.call, signals |-> @.signals,
             label |-> type[1], source |-> type[2]]]
     /\ UNCHANGED <<scene, record, waste, lock, file, taught, labels, toasts, restarts>>

\* _cached: `if key in _CACHE`, without a lock.
Look(w) ==
  LET p == Proc(w)
  IN /\ slot[w].at = "look"
     /\ slot' = [slot EXCEPT ![w].at =
          IF Known(labels[p], Call[slot[w].call].prompt) THEN "hit" ELSE "ask"]
     /\ UNCHANGED <<scene, record, waste, learning, labels, toasts, restarts>>

Labelled(w, label) ==
  slot' = [slot EXCEPT ![w].at = "teach", ![w].label = label, ![w].source = "llm"]

\* The label is there still.
Hit(w) ==
  LET p == Proc(w)
      prompt == Call[slot[w].call].prompt
      label == Found(labels[p], prompt)
  IN /\ slot[w].at = "hit"
     /\ Known(labels[p], prompt)
     /\ labels' = [labels EXCEPT ![p] = Touched(@, prompt, label, MaxLabels)]
     /\ Labelled(w, label)
     /\ UNCHANGED <<scene, record, waste, learning, toasts, restarts>>

\* It was evicted in between: move_to_end raises, and the capture is lost.
HitIsGone(w) ==
  /\ slot[w].at = "hit"
  /\ ~Known(labels[Proc(w)], Call[slot[w].call].prompt)
  /\ record' = [record EXCEPT ![slot[w].call] = "lost"]
  /\ slot' = [slot EXCEPT ![w] = Idle]
  /\ UNCHANGED <<scene, waste, learning, labels, toasts, restarts>>

\* The LLM answers with a label, which is cached.
Answered(w) ==
  LET p == Proc(w)
      prompt == Call[slot[w].call].prompt
  IN /\ slot[w].at = "ask"
     /\ \E label \in Replies[prompt] :
          /\ labels' = [labels EXCEPT ![p] = Touched(@, prompt, label, MaxLabels)]
          /\ Labelled(w, label)
     /\ UNCHANGED <<scene, record, waste, learning, toasts, restarts>>

\* No answer, or none of the labels in it: asked again the next time.
NoAnswer(w) ==
  /\ slot[w].at = "ask"
  /\ slot' = [slot EXCEPT ![w].at = "keep"]
  /\ UNCHANGED <<scene, record, waste, learning, labels, toasts, restarts>>

-----------------------------------------------------------------------------
(* Teaching *)

\* A label from the branch or the LLM teaches; every so often the memory is
\* saved before the lock is released.
Teach(w) ==
  LET p == Proc(w)
      prompt == Call[slot[w].call].prompt
      label == slot[w].label
  IN /\ slot[w].at = "teach"
     /\ lock[p] = None
     /\ \E m \in Observations(memory[p], prompt.terms, label) :
          /\ memory' = [memory EXCEPT ![p] = m]
          /\ IF m.dirty >= SaveEvery
             THEN /\ slot' = [slot EXCEPT ![w].at = "save"]
                  /\ lock' = [lock EXCEPT ![p] = w]
             ELSE /\ slot' = [slot EXCEPT ![w].at = "keep"]
                  /\ UNCHANGED lock
     /\ taught' = [t \in Terms |->
                     IF t \in prompt.terms THEN OneMore(taught[t], label) ELSE taught[t]]
     /\ UNCHANGED <<scene, record, waste, file, labels, toasts, restarts>>

\* _save: write_text empties the file and then writes it ...
Truncate(w) ==
  /\ slot[w].at = "save"
  /\ slot' = [slot EXCEPT ![w].at = "write"]
  /\ file' = [file EXCEPT !.is = "empty", !.stamp = @ + 1]
  /\ UNCHANGED <<scene, record, waste, memory, lock, taught, labels, toasts, restarts>>

\* ... over what the other process wrote in between, whose end may stick out.
Write(w) ==
  LET m == memory[Proc(w)]
  IN /\ slot[w].at = "write"
     /\ slot' = [slot EXCEPT ![w].at = "stat"]
     /\ \E is \in {"whole"} \cup (IF file.is = "empty" THEN {} ELSE {"garbled"}) :
          file' = [is |-> is, counts |-> m.counts, learned |-> m.learned, stamp |-> file.stamp + 1]
     /\ UNCHANGED <<scene, record, waste, memory, lock, taught, labels, toasts, restarts>>

\* The time stamp that is remembered may be that of the other process's file.
Stat(w) ==
  LET p == Proc(w)
  IN /\ slot[w].at = "stat"
     /\ slot' = [slot EXCEPT ![w].at = "keep"]
     /\ memory' = [memory EXCEPT ![p].stamp = file.stamp, ![p].dirty = 0]
     /\ lock' = [lock EXCEPT ![p] = None]
     /\ UNCHANGED <<scene, record, waste, file, taught, labels, toasts, restarts>>

-----------------------------------------------------------------------------
(* The record and its notifications *)

\* What is toasted, in this order: a repeat served from the cache, and waste
\* that asks for an action.
Toasts(c, signals) ==
  SelectSeq(<<"cache_hit", "retry_loop", "cache_inefficiency">>,
            LAMBDA k : IF k = "cache_hit" THEN Call[c].cached ELSE k \in signals)

Toasting(w, c, kinds) ==
  slot' = [slot EXCEPT ![w] =
             IF kinds = <<>> THEN Idle ELSE [at |-> "toast", call |-> c, kinds |-> kinds]]

\* Attributed, pseudonymized and handed to the sink and the developer's store.
Keep(w) ==
  LET c == slot[w].call
      call == Call[c]
  IN /\ slot[w].at = "keep"
     /\ record' = [record EXCEPT ![c] =
          [objective |-> Attribute(call.work, call.prompt).objective,
           ticket |-> TicketOf(call.work),
           work |-> slot[w].label, source |-> slot[w].source,
           resent |-> resent[c], retry |-> "retry_loop" \in slot[w].signals,
           input |-> IF call.cached THEN 0 ELSE call.input,
           read |-> IF call.cached THEN 0 ELSE call.read,
           saved |-> IF call.cached THEN call.input ELSE 0]]
     /\ Toasting(w, c, Toasts(c, slot[w].signals))
     /\ UNCHANGED <<scene, waste, learning, labels, toasts, restarts>>

\* Debouncer.allow reads the time of the last toast of the kind: too early.
TooSoon(w) ==
  /\ slot[w].at = "toast"
  /\ last[Proc(w)][Head(slot[w].kinds)] < Cooldown
  /\ Toasting(w, slot[w].call, Tail(slot[w].kinds))
  /\ UNCHANGED <<scene, record, waste, learning, labels, toasts, restarts>>

\* Or not: allowed ...
Allowed(w) ==
  /\ slot[w].at = "toast"
  /\ last[Proc(w)][Head(slot[w].kinds)] >= Cooldown
  /\ slot' = [slot EXCEPT ![w].at = "show"]
  /\ UNCHANGED <<scene, record, waste, learning, labels, toasts, restarts>>

\* mutant: the time of the toast is not kept
Unstamped(p, k) == last
Stamped(p, k) == [last EXCEPT ![p][k] = 0]

\* ... and only now is its own time written.
Show(w) ==
  LET p == Proc(w)
      k == Head(slot[w].kinds)
  IN /\ slot[w].at = "show"
     /\ last' = Stamped(p, k)
     /\ shown' = [shown EXCEPT ![p][k] = Append(@, 0)]
     /\ Toasting(w, slot[w].call, Tail(slot[w].kinds))
     /\ UNCHANGED <<scene, record, waste, learning, labels, restarts>>

-----------------------------------------------------------------------------
(* Time, and the end of a process *)

\* The ages of what was shown, oldest first, one tick later: those that are
\* still in the cooldown.
Later(ages) ==
  LET gone == Cardinality({n \in DOMAIN ages : ages[n] + 1 >= Cooldown})
  IN [n \in 1..(Len(ages) - gone) |-> ages[n + gone] + 1]

Tick ==
  /\ \A w \in Workers : slot[w].at # "show"
  /\ \E p \in Processes, k \in Kinds : last[p][k] < Cooldown \/ shown[p][k] # <<>>
  /\ last' = [p \in Processes |-> [k \in Kinds |-> Min({last[p][k] + 1, Cooldown})]]
  /\ shown' = [p \in Processes |-> [k \in Kinds |-> Later(shown[p][k])]]
  /\ UNCHANGED <<scene, slot, record, waste, learning, labels, restarts>>

\* The process ends, wherever its captures are, and starts again with the
\* memory that is in the file.
Restart(p) ==
  LET mine == {w \in Workers : Proc(w) = p}
  IN /\ restarts < scene.restarts
     /\ restarts' = restarts + 1
     /\ record' = [c \in Calls |->
          IF record[c] = None /\ \E w \in mine : slot[w] # Idle /\ slot[w].call = c
          THEN "lost" ELSE record[c]]
     /\ slot' = [w \in Workers |-> IF w \in mine THEN Idle ELSE slot[w]]
     /\ history' = [history EXCEPT ![p] = <<>>]
     /\ monitors' = [monitors EXCEPT ![p] = <<>>]
     /\ memory' = [memory EXCEPT ![p] = Loaded(Forgotten, file)]
     /\ lock' = [lock EXCEPT ![p] = None]
     /\ labels' = [labels EXCEPT ![p] = <<>>]
     /\ last' = [last EXCEPT ![p] = [k \in Kinds |-> Cooldown]]
     /\ shown' = [shown EXCEPT ![p] = [k \in Kinds |-> <<>>]]
     /\ UNCHANGED <<scene, resent, watched, file, taught>>

Capture(w) ==
  \/ MonitorFor(w) \/ Observe(w)
  \/ Classify(w) \/ Look(w) \/ Hit(w) \/ HitIsGone(w) \/ Answered(w) \/ NoAnswer(w)
  \/ Teach(w) \/ Truncate(w) \/ Write(w) \/ Stat(w)
  \/ Keep(w) \/ TooSoon(w) \/ Allowed(w) \/ Show(w)

Next ==
  \/ \E w \in Workers : Capture(w) \/ (\E c \in Calls : Diff(w, c) \/ Unparseable(w, c))
  \/ Tick
  \/ \E p \in Processes : Restart(p)

Spec == Init /\ [][Next]_vars

-----------------------------------------------------------------------------
(* Properties *)

\* "it never claims novel context is bloat" (diff.py 15), as far as it can be
\* true of captures that run in any order: a later turn may be diffed before
\* an earlier one, which is then taken for resent; but over a conversation
\* every context that was sent was counted as fresh at least once, also when
\* baselines are evicted or lost.  Every message has the size of one here.
Contexts == [c \in Calls |-> {SubSeq(Call[c].messages, 1, n) : n \in 1..Len(Call[c].messages)}]
NovelIsFresh ==
  LET diffed == {c \in scene.calls : resent[c] # None}
      Together(c, d) == Call[c].process = Call[d].process /\ Conversation(c) = Conversation(d)
  IN \A first \in diffed :
       LET conversation == {c \in diffed : Together(c, first)}
           fresh == UNION {{c} \X ((resent[c] + 1)..Len(Call[c].messages)) : c \in conversation}
       IN Cardinality(fresh) >= Cardinality(UNION {Contexts[c] : c \in conversation})

\* "promotion needs a minimum support count and a dominant-label share"
\* (worktype_learn.py 10): every term that a process or the file holds as
\* learned has been taught its label by branches or the LLM as often as the
\* counts beside it say, which make it dominant; whatever was evicted, saved
\* over by the other process, reloaded, or lost with a restart.
LearnedWasTaught ==
  LET Holds(m) ==
        \A t \in DOMAIN m.learned :
          LET l == m.learned[t]
          IN /\ t \in DOMAIN m.counts
             /\ Total(m.counts[t]) >= MinCount
             /\ l \in Dominant(m.counts[t])
             /\ m.counts[t][l] <= Times(taught[t], l)
  IN /\ \A p \in Processes : Holds(memory[p])
     /\ file.is = "whole" => Holds(file)

\* "A debounce keeps it from being noisy" (notify.py 12): two captures may pass
\* the debouncer together, so that its "at most one toast per signal-kind per
\* cooldown window" is at most one for each of the threads there are.
ToastsAreFew ==
  \A p \in Processes, k \in Kinds :
    Len(shown[p][k]) <= Cardinality({w \in Workers : Proc(w) = p})
=============================================================================
