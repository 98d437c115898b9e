-------------------------------- MODULE Sink --------------------------------
(***************************************************************************)
(* The edge agent's forwarding sink (HttpSink in sink.py): the bounded     *)
(* spool between the capture threads and the collector's /v1/derived.      *)
(*                                                                         *)
(* Capture threads insert records and flush when a batch is due; a         *)
(* heartbeat thread flushes an aged partial batch; the main thread flushes *)
(* once more at interpreter exit.  flush() takes the whole buffer out under *)
(* the lock, POSTs without the lock, and puts the batch back on failure,   *)
(* so any number of batches can be in flight at once.  A step below is one *)
(* region of code that holds `_lock`, or one outcome of the POST.          *)
(*                                                                         *)
(* Records are numbered in the order they were inserted.  `_last_flush`    *)
(* and the clock only decide whether a batch is old enough, which is left  *)
(* to chance.  `collector`, `stored` and the post outcomes stand for the   *)
(* network and for server.py's ingest endpoint.                            *)
(***************************************************************************)
EXTENDS Naturals, Sequences, FiniteSets, Functions

CONSTANTS
  Capturers,    \* background threads of the gateway that insert records
  Heartbeat,    \* the _age_loop thread
  Main,         \* the thread that runs the atexit handler
  AutoFlush,    \* whether the sink was built with auto_flush=True
  BatchSize,    \* batch_size
  MaxSpool,     \* max_spool
  MaxPost,      \* the collector's _MAX_INGEST_BATCH
  MaxRecords,   \* bound: records inserted in a behaviour
  Collectors    \* the conditions the collector may be in

ASSUME SinkAssumption ==
  /\ Heartbeat \notin Capturers
  /\ Main \notin Capturers \cup {Heartbeat}
  /\ AutoFlush \in BOOLEAN
  /\ BatchSize \in Nat \ {0}
  /\ MaxSpool \in Nat \ {0}
  /\ MaxPost \in Nat \ {0}
  /\ MaxRecords \in Nat
  /\ Collectors \subseteq {"up", "slow", "down", "badtoken"}

Threads == Capturers \cup {Heartbeat, Main}
Records == 1..MaxRecords

\* What has become of a record, as its author would put it: not yet
\* inserted, owed to the collector, acknowledged by it, dropped by the full
\* spool, refused by the collector as a permanent client error, or gone with
\* the memory of a process that ended.
Fates == {"new", "held", "acked", "dropped", "refused", "forgotten"}

VARIABLES
  buf,        \* _buf, oldest first
  pc,         \* where each thread is: idle, about to flush(), in the POST, or
              \* about to put its batch back
  batch,      \* flush()'s local `batch`, per thread
  dropped,    \* the `dropped` counter that stats() reports
  exiting,    \* the interpreter is running its atexit handlers
  next,       \* the next record to be inserted
  collector,  \* the condition of the collector and the path to it
  stored,     \* records with a row in the collector's store
  fate        \* bookkeeping for the properties

vars == <<buf, pc, batch, dropped, exiting, next, collector, stored, fate>>

-----------------------------------------------------------------------------
\* `while len(_buf) > max_spool: popleft()`: what is kept and what is dropped.
Excess(s) == IF Len(s) > MaxSpool THEN Len(s) - MaxSpool ELSE 0
Untrimmed(s) == s                                  \* mutant: no bound
Trimmed(s) == SubSeq(s, Excess(s) + 1, Len(s))
Dropped(s) == {s[i] : i \in 1..Excess(s)}

Marked(S, f) == [r \in Records |-> IF r \in S THEN f ELSE fate[r]]

Init ==
  /\ buf = <<>>
  /\ pc = [t \in Threads |-> "idle"]
  /\ batch = [t \in Threads |-> <<>>]
  /\ dropped = 0
  /\ exiting = FALSE
  /\ next = 1
  /\ collector \in Collectors
  /\ stored = {}
  /\ fate = [r \in Records |-> "new"]

\* insert(): append, drop the oldest beyond max_spool, decide whether a flush
\* is due by size or by age; the flush itself starts after the lock is freed.
Insert(t) ==
  LET filled == Append(buf, next)
      kept == Trimmed(filled)
  IN /\ pc[t] = "idle"
     /\ ~exiting
     /\ next <= MaxRecords
     /\ buf' = kept
     /\ dropped' = dropped + Excess(filled)
     /\ next' = next + 1
     /\ fate' = [Marked(Dropped(filled), "dropped") EXCEPT
                   ![next] = IF next \in Dropped(filled) THEN "dropped" ELSE "held"]
     /\ \E aged \in BOOLEAN :
          pc' = [pc EXCEPT ![t] = IF Len(kept) >= BatchSize \/ aged
                                  THEN "flush" ELSE "idle"]
     /\ UNCHANGED <<batch, exiting, collector, stored>>

\* `if self._buf` in _age_loop.
FullBatch == Len(buf) >= BatchSize                 \* mutant: by size only
HeartbeatDue == buf # <<>>

\* _age_loop: the wait ran out and the (unlocked) look at _buf found records.
Tick ==
  /\ AutoFlush
  /\ pc[Heartbeat] = "idle"
  /\ HeartbeatDue
  /\ pc' = [pc EXCEPT ![Heartbeat] = "flush"]
  /\ UNCHANGED <<buf, batch, dropped, exiting, next, collector, stored, fate>>

\* What `_buf.clear()` leaves of the buffer.
Uncleared == buf                                   \* mutant: clear after the POST
Cleared == <<>>

\* The first locked region of flush().
TakeBatch(t) ==
  /\ pc[t] = "flush"
  /\ IF buf = <<>>
     THEN /\ pc' = [pc EXCEPT ![t] = "idle"]
          /\ UNCHANGED <<buf, batch>>
     ELSE /\ pc' = [pc EXCEPT ![t] = "post"]
          /\ batch' = [batch EXCEPT ![t] = buf]
          /\ buf' = Cleared
  /\ UNCHANGED <<dropped, exiting, next, collector, stored, fate>>

-----------------------------------------------------------------------------
(* The POST.  _default_post answers True for a 2xx and for a permanent 4xx, *)
(* False for 5xx, 408 and 429; a timeout or a refused connection raises.    *)

Fits(t) == Len(batch[t]) <= MaxPost

\* The thread is done with its batch, whose records meet the fate f.
Finish(t, f) ==
  /\ pc' = [pc EXCEPT ![t] = "idle"]
  /\ batch' = [batch EXCEPT ![t] = <<>>]
  /\ fate' = Marked(Range(batch[t]), f)

\* Stored and answered 2xx.
PostAccepted(t) ==
  /\ pc[t] = "post"
  /\ collector = "up"
  /\ Fits(t)
  /\ stored' = stored \cup Range(batch[t])
  /\ Finish(t, "acked")
  /\ UNCHANGED <<buf, dropped, exiting, next, collector>>

\* 401 for the token, or 413 for a batch over the collector's limit: printed,
\* and the batch is let go.
PostRefused(t) ==
  /\ pc[t] = "post"
  /\ collector = "badtoken" \/ (collector = "up" /\ ~Fits(t))
  /\ Finish(t, "refused")
  /\ UNCHANGED <<buf, dropped, exiting, next, collector, stored>>

\* The collector handled the batch but its answer came too late.
PostTimedOut(t) ==
  /\ pc[t] = "post"
  /\ collector = "slow"
  /\ stored' = IF Fits(t) THEN stored \cup Range(batch[t]) ELSE stored
  /\ pc' = [pc EXCEPT ![t] = "putback"]
  /\ UNCHANGED <<buf, batch, dropped, exiting, next, collector, fate>>

\* mutant: a failed POST taken for a delivered one
PostFailedAsDelivered(t) ==
  /\ pc[t] = "post"
  /\ collector = "down"
  /\ Finish(t, "acked")
  /\ UNCHANGED <<buf, dropped, exiting, next, collector, stored>>

\* The batch never reached the collector, or it answered 5xx, 408 or 429.
PostFailed(t) ==
  /\ pc[t] = "post"
  /\ collector = "down"
  /\ pc' = [pc EXCEPT ![t] = "putback"]
  /\ UNCHANGED <<buf, batch, dropped, exiting, next, collector, stored, fate>>

\* mutant: the drop on the way back is not counted
PutBackUncounted(t) ==
  LET filled == batch[t] \o buf
  IN /\ pc[t] = "putback"
     /\ buf' = Trimmed(filled)
     /\ fate' = Marked(Dropped(filled), "dropped")
     /\ pc' = [pc EXCEPT ![t] = "idle"]
     /\ batch' = [batch EXCEPT ![t] = <<>>]
     /\ UNCHANGED <<dropped, exiting, next, collector, stored>>

\* The second locked region of flush(): the batch goes back to the front and
\* the oldest beyond max_spool are dropped.
PutBack(t) ==
  LET filled == batch[t] \o buf
  IN /\ pc[t] = "putback"
     /\ buf' = Trimmed(filled)
     /\ dropped' = dropped + Excess(filled)
     /\ fate' = Marked(Dropped(filled), "dropped")
     /\ pc' = [pc EXCEPT ![t] = "idle"]
     /\ batch' = [batch EXCEPT ![t] = <<>>]
     /\ UNCHANGED <<exiting, next, collector, stored>>

-----------------------------------------------------------------------------
\* The server has drained its requests and the interpreter runs atexit: one
\* last flush() by the main thread.  The daemon heartbeat is still running.
BeginExit ==
  /\ ~exiting
  /\ \A t \in Capturers \cup {Main} : pc[t] = "idle"
  /\ exiting' = TRUE
  /\ pc' = [pc EXCEPT ![Main] = "flush"]
  /\ UNCHANGED <<buf, batch, dropped, next, collector, stored, fate>>

\* The memory of the process is gone and a new process starts.
Restart ==
  /\ buf' = <<>>
  /\ pc' = [t \in Threads |-> "idle"]
  /\ batch' = [t \in Threads |-> <<>>]
  /\ dropped' = 0
  /\ exiting' = FALSE
  /\ fate' = [r \in Records |->
                IF fate[r] \in {"held", "dropped"} THEN "forgotten" ELSE fate[r]]
  /\ UNCHANGED <<next, collector, stored>>

EndExit == exiting /\ pc[Main] = "idle" /\ Restart

\* The process is killed at any point.
Crash == Restart

CollectorChanges ==
  /\ collector' \in Collectors \ {collector}
  /\ UNCHANGED <<buf, pc, batch, dropped, exiting, next, stored, fate>>

PostStep(t) == PostAccepted(t) \/ PostRefused(t) \/ PostTimedOut(t) \/ PostFailed(t)
FlushStep(t) == TakeBatch(t) \/ PostStep(t) \/ PutBack(t)

Next ==
  \/ \E t \in Capturers : Insert(t)
  \/ Tick
  \/ \E t \in Threads : FlushStep(t)
  \/ BeginExit
  \/ EndExit
  \/ Crash
  \/ CollectorChanges

Spec == Init /\ [][Next]_vars

\* The threads of a running process are scheduled, the heartbeat's wait runs
\* out, and every POST ends because it has a timeout.  Inserts, crashes, exits
\* and the collector's condition are left to the environment; an exit that has
\* begun runs to its end.
Fairness ==
  /\ WF_vars(Tick)
  /\ \A t \in Threads : WF_vars(FlushStep(t))
  /\ WF_vars(EndExit)

FairSpec == Spec /\ Fairness

-----------------------------------------------------------------------------
(* Properties *)

Held == Range(buf) \cup UNION {Range(batch[t]) : t \in Threads}

\* Types, and the spool's bound: neither the buffer nor a batch taken from it
\* is ever longer than max_spool (sink.py 113 and 138).
TypeOK ==
  /\ buf \in Seq(Records) /\ Len(buf) <= MaxSpool
  /\ pc \in [Threads -> {"idle", "flush", "post", "putback"}]
  /\ batch \in [Threads -> Seq(Records)]
  /\ \A t \in Threads : Len(batch[t]) <= MaxSpool
  /\ dropped \in Nat
  /\ exiting \in BOOLEAN
  /\ next \in 1..(MaxRecords + 1)
  /\ collector \in Collectors
  /\ stored \subseteq Records
  /\ fate \in [Records -> Fates]

\* However many flushes run at once, no record is in the buffer or in a batch
\* in flight twice, and a record that is not yet acknowledged or given up is
\* in exactly one of them: what taking the batch out of the buffer before the
\* POST is for (the comment at sink.py 121).
HeldExactlyOnce ==
  /\ IsInjective(buf)
  /\ \A t \in Threads : IsInjective(batch[t])
  /\ \A t \in Threads : Range(buf) \cap Range(batch[t]) = {}
  /\ \A t, u \in Threads : t # u => Range(batch[t]) \cap Range(batch[u]) = {}
  /\ \A r \in Records : fate[r] = "held" <=> r \in Held

\* The counter stats() shows is exactly the number of records this process's
\* spool dropped, across both places that drop (sink.py 115 and 140).
DropsAreCounted == dropped = Cardinality({r \in Records : fate[r] = "dropped"})

\* The sink lets go of an acknowledged record only when the collector has it.
AckedAreStored == \A r \in Records : fate[r] = "acked" => r \in stored

\* "If the collector is unreachable the buffer is retained (a bounded spool)
\* and retried on the next flush - delivery is at-least-once" (sink.py 15-16):
\* apart from spool overflow and the end of the process, no record is given up.
RetainedUntilDelivered == \A r \in Records : fate[r] # "refused"

\* The sink implements the at-least-once channel.
Channel == INSTANCE SpoolChannel WITH
  sent <- 1..(next - 1),
  held <- Held,
  lost <- {r \in Records : fate[r] \in {"dropped", "refused", "forgotten"}}

ImplementsChannel == Channel!Spec

\* Once the collector stays up, no record sits in the spool or in flight
\* forever, also when no further call arrives: what the heartbeat is for
\* (sink.py 97).
SpoolDrains ==
  <>[](collector = "up") =>
    \A r \in Records : (fate[r] = "held") ~> (fate[r] # "held")
=============================================================================
