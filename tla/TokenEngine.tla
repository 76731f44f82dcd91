---------------------------- MODULE TokenEngine ----------------------------
(***************************************************************************)
(* The continuous token engine (inference/token_engine.py), its iteration  *)
(* policy (inference/token_scheduling.py) and the way it uses the KV       *)
(* allocator, the prefix cache and the model backend.                      *)
(*                                                                         *)
(* Everything runs on one asyncio loop: reserve, cancel, the readers of    *)
(* stream(), the scheduler task and shutdown interleave only where the     *)
(* code awaits.  An action is the code from the end of one await to the    *)
(* next, so a backend call takes effect in the step that ends its await.   *)
(* A step boundary stands before every await; where the model has one more *)
(* (between the iterations of a for loop whose bodies do not await) it     *)
(* only adds interleavings.                                                *)
(*                                                                         *)
(* KV blocks follow BlockOwnership, which KVBlockAllocator implements.     *)
(* The model backend (runtime/huggingface/token_backend.py) is external:   *)
(* its calls return a token, report a failure or raise.                    *)
(***************************************************************************)
EXTENDS PrefixEntries, SeqFilter, Functions

CONSTANTS
    Request,        \* request identifiers
    Prompt,         \* [Request -> token sequence]: what tokenize returns
    Estimate,       \* [Request -> Nat]: prompt_token_count passed to reserve
    MaxNew,         \* [Request -> Nat]: sampling.max_new_tokens
    MaxActive,      \* max_active_sequences
    MaxBatch,       \* max_batch_size
    Policy,         \* "prefill_first", "decode_first" or "balanced"
    ChunkSize,      \* prefill_chunk_size_tokens, 0: whole prompts
    MaxEntries,     \* prefix cache entry limit, 0: disabled
    MaxCached,      \* prefix cache token limit
    Block,          \* KV blocks
    BlockSize,      \* tokens per KV block
    Interruptible,  \* bound: the requests whose callers cancel, disconnect or expire
    Faults,         \* TRUE: a tokenize, prefill, restore or decode call may fail
    SnapshotFaults  \* TRUE: snapshot_prefix may raise

ASSUME EngineAssumption ==
    /\ \A r \in Request : /\ Prompt[r] \in Seq(Nat) /\ Prompt[r] # <<>>
                          /\ Estimate[r] \in Nat
                          /\ MaxNew[r] \in Nat \ {0}
    /\ MaxActive \in Nat \ {0}
    /\ MaxBatch \in Nat \ {0}
    /\ Policy \in {"prefill_first", "decode_first", "balanced"}
    /\ ChunkSize \in Nat /\ MaxEntries \in Nat /\ MaxCached \in Nat
    /\ IsFiniteSet(Block)
    /\ BlockSize \in Nat \ {0}
    /\ Interruptible \subseteq Request
    /\ Faults \in BOOLEAN /\ SnapshotFaults \in BOOLEAN

VARIABLES
    seq,        \* [Request -> SequenceState and its scheduling fields]
    active,     \* _active, in insertion (= created_at) order
    finished,   \* keys of _finished
    events,     \* [Request -> the private event queue]
    reader,     \* [Request -> where its stream() generator is suspended]
    holds,      \* KV blocks per owner
    cache,      \* prefix cache entries
    backend,    \* sequences that exist in the backend
    sched,      \* control state of the scheduler task
    wake,       \* _wake is set
    closed,     \* _closed
    down,       \* progress of shutdown()
    faulted     \* history: requests for which a backend call failed

vars == <<seq, active, finished, events, reader, holds, cache, backend,
          sched, wake, closed, down, faulted>>

KV == INSTANCE BlockOwnership WITH Owner <- Request

-----------------------------------------------------------------------------
Terminal == {"COMPLETED", "CANCELLED", "TIMED_OUT", "FAILED"}

\* GenerationComplete by reason, and _SequenceFailure.  EOS stands for the
\* stop tokens too.
TerminalEvent == {"CANCELLED", "TIMEOUT", "EOS", "LENGTH", "ERROR"}

\* What a model call returns for one sequence: a reported failure, an end
\* token (EOS or a stop token) or a token to deliver.
Result == {"fail", "end", "token"}

Drop(s, r) == Keep(s, Request \ {r})
First(s, n) == SubSeq(s, 1, IF n < Len(s) THEN n ELSE Len(s))
SmallestOf(S) == CHOOSE n \in S : \A m \in S : n <= m
LargestOf(S) == CHOOSE n \in S : \A m \in S : n >= m

IsActive(r) == r \in Range(active)

\* done is set: the terminal event has been put.
Done(r) == seq[r].phase \in Terminal /\ ~IsActive(r)

\* _phase_for, with _fail's phase for an error.
PhaseFor(terminal) ==
    CASE terminal = "CANCELLED" -> "CANCELLED"
      [] terminal = "TIMEOUT"   -> "TIMED_OUT"
      [] terminal = "ERROR"     -> "FAILED"
      [] OTHER                  -> "COMPLETED"

\* _check_interruption: cancellation wins over the deadline.
Interrupted(r) == seq[r].cancelled \/ seq[r].expired
Interruption(r) == IF seq[r].cancelled THEN "CANCELLED" ELSE "TIMEOUT"

\* n of the blocks S; which ones is the allocator's choice.
Some(n, S) == CHOOSE T \in SUBSET S : Cardinality(T) = n

BlocksForTokens(tokens) == (tokens + BlockSize - 1) \div BlockSize

-----------------------------------------------------------------------------
Init ==
    /\ seq = [r \in Request |->
                [phase |-> "NONE", cancelled |-> FALSE, expired |-> FALSE,
                 tokenized |-> FALSE, created |-> FALSE,
                 offset |-> 0,      \* prefill_offset
                 length |-> 0,      \* cache_tokens
                 generated |-> 0]]  \* len(generated_token_ids)
    /\ active = <<>>
    /\ finished = {}
    /\ events = [r \in Request |-> <<>>]
    /\ reader = [r \in Request |-> "none"]
    /\ KV!Init
    /\ cache = <<>>
    /\ backend = {}
    /\ sched = [pc |-> "off",       \* where the task is suspended
                todo |-> <<>>,      \* requests left in the for loop it is in
                batch |-> <<>>,     \* requests of the model call
                got |-> <<>>,       \* results of the model call, by position in todo
                entry |-> <<>>,     \* prefix cache hit being restored
                closing |-> <<>>,   \* <<r, event>> while release_sequence is awaited
                turn |-> FALSE]     \* policy._balanced_decode_turn
    /\ wake = FALSE
    /\ closed = FALSE
    /\ down = "no"
    /\ faulted = {}

-----------------------------------------------------------------------------
(* Callers *)

\* Mutant: reserve does not wake the scheduler.
ReserveQuietly(r) ==
    /\ ~closed
    /\ seq[r].phase = "NONE"
    /\ Len(active) < MaxActive
    /\ LET need == BlocksForTokens(Estimate[r] + MaxNew[r])
       IN  /\ need <= Cardinality(KV!Available)
           /\ KV!Acquire(r, Some(need, KV!Available))
    /\ active' = Append(active, r)
    /\ seq' = [seq EXCEPT ![r].phase = "QUEUED"]
    /\ UNCHANGED <<finished, events, reader, cache, backend, sched, wake, closed, down, faulted>>

\* reserve.  Request ids are fresh (phase "NONE"); a call that raises changes
\* nothing the engine owns.
Reserve(r) ==
    /\ ~closed
    /\ seq[r].phase = "NONE"
    /\ Len(active) < MaxActive
    /\ LET need == BlocksForTokens(Estimate[r] + MaxNew[r])
       IN  /\ need <= Cardinality(KV!Available)
           /\ KV!Acquire(r, Some(need, KV!Available))
    /\ active' = Append(active, r)
    /\ seq' = [seq EXCEPT ![r].phase = "QUEUED"]
    /\ wake' = TRUE
    /\ UNCHANGED <<finished, events, reader, cache, backend, sched, closed, down, faulted>>

\* Setting state.cancellation and waking the scheduler.
SignalCancellation(r) ==
    /\ seq' = [seq EXCEPT ![r].cancelled = TRUE]
    /\ wake' = TRUE

\* cancel
Cancel(r) ==
    /\ IsActive(r)
    /\ seq[r].phase \notin Terminal
    /\ SignalCancellation(r)
    /\ UNCHANGED <<active, finished, events, reader, holds, cache, backend, sched,
                   closed, down, faulted>>

\* The clock reaches the deadline of r.
Expire(r) ==
    /\ IsActive(r)
    /\ ~seq[r].expired
    /\ seq' = [seq EXCEPT ![r].expired = TRUE]
    /\ UNCHANGED <<active, finished, events, reader, holds, cache, backend, sched,
                   wake, closed, down, faulted>>

\* The first step of stream(): the sequence is reserved, and the scheduler task
\* is created if there is none (_ensure_scheduler).
StartStream(r) ==
    /\ reader[r] = "none"
    /\ IsActive(r) \/ r \in finished
    /\ reader' = [reader EXCEPT ![r] = "get"]
    /\ sched' = IF sched.pc = "off" THEN [sched EXCEPT !.pc = "loop"] ELSE sched
    /\ UNCHANGED <<seq, active, finished, events, holds, cache, backend, wake,
                   closed, down, faulted>>

\* The reader takes the next event: a token or a completion is yielded, an
\* error is raised to the caller, whose finally clause drops the record.
ReadEvent(r) ==
    /\ reader[r] = "get"
    /\ events[r] # <<>>
    /\ events' = [events EXCEPT ![r] = Tail(@)]
    /\ LET event == Head(events[r])
       IN  /\ reader' = [reader EXCEPT ![r] = CASE event = "token" -> "yield"
                                                [] event = "ERROR" -> "gone"
                                                [] OTHER -> "last"]
           /\ finished' = IF event = "ERROR" /\ Tail(events[r]) = <<>>
                          THEN finished \ {r} ELSE finished
    /\ UNCHANGED <<seq, active, holds, cache, backend, sched, wake, closed, down, faulted>>

\* The consumer comes back for more; after the completion the generator ends.
ResumeReader(r) ==
    /\ \/ /\ reader[r] = "yield"
          /\ reader' = [reader EXCEPT ![r] = "get"]
          /\ UNCHANGED finished
       \/ /\ reader[r] = "last"
          /\ reader' = [reader EXCEPT ![r] = "gone"]
          /\ finished' = finished \ {r}
    /\ UNCHANGED <<seq, active, events, holds, cache, backend, sched, wake,
                   closed, down, faulted>>

\* The generator is closed while suspended at a yield (GeneratorExit): only its
\* finally clause runs.
CloseReader(r) ==
    /\ reader[r] \in {"yield", "last"}
    /\ reader' = [reader EXCEPT ![r] = "gone"]
    /\ IF Done(r)
       THEN /\ finished' = IF events[r] = <<>> THEN finished \ {r} ELSE finished
            /\ UNCHANGED <<seq, wake>>
       ELSE SignalCancellation(r) /\ UNCHANGED finished
    /\ UNCHANGED <<active, events, holds, cache, backend, sched, closed, down, faulted>>

\* The task reading the stream is cancelled while it waits for an event: the
\* sequence is cancelled and the reader waits until it is done.
CancelReader(r) ==
    /\ reader[r] = "get"
    /\ reader' = [reader EXCEPT ![r] = "drain"]
    /\ SignalCancellation(r)
    /\ UNCHANGED <<active, finished, events, holds, cache, backend, sched,
                   closed, down, faulted>>

ReaderDrained(r) ==
    /\ reader[r] = "drain"
    /\ Done(r)
    /\ reader' = [reader EXCEPT ![r] = "gone"]
    /\ finished' = finished \ {r}
    /\ UNCHANGED <<seq, active, events, holds, cache, backend, sched, wake,
                   closed, down, faulted>>

-----------------------------------------------------------------------------
(* The end of a sequence: _complete and _fail *)

\* Mutant: a cancelled sequence gets no terminal event.
FinishSilent(r, terminal, queued) ==
    /\ KV!Drop(r)
    /\ active' = Drop(active, r)
    /\ finished' = finished \cup {r}
    /\ events' = [events EXCEPT ![r] =
                     IF terminal = "CANCELLED" THEN queued ELSE Append(queued, terminal)]
    /\ wake' = TRUE

\* The part after release_sequence: KV blocks, _active, _finished, the terminal
\* event behind the queued ones, done and wake.
Finish(r, terminal, queued) ==
    /\ KV!Drop(r)
    /\ active' = Drop(active, r)
    /\ finished' = finished \cup {r}
    /\ events' = [events EXCEPT ![r] = Append(queued, terminal)]
    /\ wake' = TRUE

\* _complete or _fail of r from a state in which its record is s and its queue
\* is queued; the scheduler continues as next.  If the backend knows the
\* sequence the task suspends in release_sequence, otherwise the sequence
\* finishes at once.
Terminate(r, s, terminal, next, queued) ==
    /\ seq' = [seq EXCEPT ![r] = [s EXCEPT !.phase = PhaseFor(terminal)]]
    /\ \/ /\ s.created
          /\ sched' = [next EXCEPT !.closing = <<r, terminal>>]
          /\ events' = [events EXCEPT ![r] = queued]
          /\ UNCHANGED <<active, finished, holds, wake>>
       \/ /\ ~s.created
          /\ sched' = next
          /\ Finish(r, terminal, queued)

\* release_sequence returned.
Released ==
    /\ sched.closing # <<>>
    /\ LET r == sched.closing[1]
       IN  /\ Finish(r, sched.closing[2], events[r])
           /\ seq' = [seq EXCEPT ![r].created = FALSE]
           /\ backend' = backend \ {r}
    /\ sched' = [sched EXCEPT !.closing = <<>>]
    /\ UNCHANGED <<reader, cache, closed, down, faulted>>

-----------------------------------------------------------------------------
(* The scheduler task: choosing an iteration's work *)

\* The task runs: it is not waiting for release_sequence.
At(pc) == sched.pc = pc /\ sched.closing = <<>>

\* The head of _scheduler_loop and of _finish_interrupted's loop over a copy
\* of _active.
Loop ==
    /\ At("loop")
    /\ sched' = IF closed /\ active = <<>>
                THEN [sched EXCEPT !.pc = "exited"]
                ELSE [sched EXCEPT !.pc = "sweep", !.todo = active]
    /\ UNCHANGED <<seq, active, finished, events, reader, holds, cache, backend,
                   wake, closed, down, faulted>>

\* _finish_interrupted: the next sequence that is cancelled or past its deadline.
Sweep ==
    /\ At("sweep")
    /\ \E i \in DOMAIN sched.todo :
          LET r == sched.todo[i] IN
          /\ Interrupted(r)
          /\ \A j \in 1..(i - 1) : ~Interrupted(sched.todo[j])
          /\ Terminate(r, seq[r], Interruption(r),
                       [sched EXCEPT !.todo = SubSeq(@, i + 1, Len(@))], events[r])
    /\ UNCHANGED <<reader, cache, backend, closed, down, faulted>>

\* Mutant: running sequences stay in the waiting set.
WaitingAll == active

\* _sets, in created_at order.
Waiting == Keep(active, {r \in Request : seq[r].phase \in {"QUEUED", "PREFILL"}})
Running == Keep(active, {r \in Request : seq[r].phase = "DECODE"})

\* PrefillDecodePolicy.select: TRUE when the iteration is a decode.  turn is the
\* already flipped _balanced_decode_turn.
DecodeChosen(turn) ==
    CASE Policy = "prefill_first" -> Waiting = <<>>
      [] Policy = "decode_first"  -> Running # <<>>
      [] Policy = "balanced"      -> (turn /\ Running # <<>>) \/ Waiting = <<>>

\* Mutant: cache lengths are not compared.
DecodeIdsMixed == First(Running, MaxBatch)

\* _decision: of the chosen running sequences those with the shortest cache.
DecodeIds ==
    LET chosen == First(Running, MaxBatch)
        target == SmallestOf({seq[r].length : r \in Range(chosen)})
    IN  Keep(chosen, {r \in Request : seq[r].length = target})

\* The scheduler record where _run_prefill continues: the next request of its
\* first loop, the chunk loop, the batched model call, or the next iteration.
ContinuePrefill(s) ==
    IF s.todo # <<>>       THEN [s EXCEPT !.pc = "prefill"]
    ELSE IF s.batch = <<>> THEN [s EXCEPT !.pc = "loop"]
    ELSE IF ChunkSize > 0  THEN [s EXCEPT !.pc = "chunks", !.todo = s.batch, !.batch = <<>>]
    ELSE                        [s EXCEPT !.pc = "call"]

ContinueChunks(s) == [s EXCEPT !.pc = IF s.todo = <<>> THEN "loop" ELSE "chunks"]

ContinueAccepting(s) == [s EXCEPT !.pc = IF s.todo = <<>> THEN "loop" ELSE s.pc]

\* Mutant: the last check of _closed is missing.
SleepAlways == "idle"

\* With nothing to do the task sleeps, unless the engine was closed.
Sleep == IF closed THEN "exited" ELSE "idle"

\* _decision and the branch of _scheduler_loop it leads to.  With nothing to do
\* the task clears _wake and waits for it.
Decide ==
    /\ At("sweep")
    /\ \A r \in Range(sched.todo) : ~Interrupted(r)
    /\ LET turn == IF Policy = "balanced" THEN ~sched.turn ELSE sched.turn
           s == [sched EXCEPT !.todo = <<>>, !.turn = turn]
       IN  IF Waiting = <<>> /\ Running = <<>>
           THEN /\ wake' = FALSE
                /\ sched' = [s EXCEPT !.pc = Sleep]
           ELSE /\ sched' = IF DecodeChosen(turn)
                            THEN [s EXCEPT !.pc = "decode", !.batch = DecodeIds]
                            ELSE ContinuePrefill([s EXCEPT !.todo = First(Waiting, MaxBatch)])
                /\ UNCHANGED wake
    /\ UNCHANGED <<seq, active, finished, events, reader, holds, cache, backend,
                   closed, down, faulted>>

\* _wake.wait() returns.
WakeUp ==
    /\ At("idle")
    /\ wake
    /\ sched' = [sched EXCEPT !.pc = "loop"]
    /\ UNCHANGED <<seq, active, finished, events, reader, holds, cache, backend,
                   wake, closed, down, faulted>>

-----------------------------------------------------------------------------
(* Prefill *)

\* kv_allocator.resize to the exact prompt length: grow, shrink or leave.
ResizeFits(r) ==
    BlocksForTokens(Len(Prompt[r]) + MaxNew[r])
        <= Cardinality(holds[r]) + Cardinality(KV!Available)

\* Mutant: the output tokens are forgotten.
ResizePromptOnly(r) ==
    LET need == BlocksForTokens(Len(Prompt[r]))
        have == Cardinality(holds[r])
    IN  IF have <= need
        THEN KV!Grow(r, Some(need - have, KV!Available))
        ELSE KV!Shrink(r, Some(have - need, holds[r]))

Resize(r) ==
    LET need == BlocksForTokens(Len(Prompt[r]) + MaxNew[r])
        have == Cardinality(holds[r])
    IN  IF have <= need
        THEN KV!Grow(r, Some(need - have, KV!Available))
        ELSE KV!Shrink(r, Some(have - need, holds[r]))

\* The body of _run_prefill's loop up to its model call: phase PREFILL,
\* backend_created and the prefix lookup, of which a hit goes on to be restored.
Lookup(r) ==
    LET hits == IF MaxEntries = 0 THEN {} ELSE Matching(cache, Prompt[r])
        hit  == LongestPrefix(cache, Prompt[r])
    IN  IF hits = {}
        THEN /\ sched' = ContinuePrefill([sched EXCEPT !.todo = Tail(@),
                                                       !.batch = Append(@, r)])
             /\ UNCHANGED cache
        ELSE /\ sched' = [sched EXCEPT !.pc = "restore", !.entry = cache[hit]]
             /\ cache' = MoveToEnd(cache, hit)

BeginPrefill ==
    /\ At("prefill")
    /\ LET r == Head(sched.todo) IN
       /\ \/ /\ ~seq[r].tokenized
             /\ ResizeFits(r)
             /\ Resize(r)
          \/ /\ seq[r].tokenized
             /\ UNCHANGED holds
       /\ seq' = [seq EXCEPT ![r].tokenized = TRUE, ![r].phase = "PREFILL",
                             ![r].created = TRUE]
       /\ Lookup(r)
    /\ UNCHANGED <<active, finished, events, reader, backend, wake, closed, down, faulted>>

\* tokenize raises, or the exact prompt does not fit.
PrefillRejected ==
    /\ At("prefill")
    /\ LET r == Head(sched.todo) IN
       /\ ~seq[r].tokenized
       /\ \/ /\ Faults
             /\ faulted' = faulted \cup {r}
          \/ /\ ~ResizeFits(r)
             /\ UNCHANGED faulted
       /\ Terminate(r, seq[r], "ERROR",
                    ContinuePrefill([sched EXCEPT !.todo = Tail(@)]), events[r])
    /\ UNCHANGED <<reader, cache, backend, closed, down>>

\* The results a model call on n sequences may return: all failures when the
\* backend refuses it, otherwise any when backend calls may fail.
Outcomes(n, refused) ==
    IF refused THEN {[i \in 1..n |-> "fail"]}
    ELSE [1..n -> IF Faults THEN Result ELSE Result \ {"fail"}]

\* The call leaves backend state for the sequences that succeed, and may leave
\* some for those that fail half way.
CallReturns(rs, got, refused) ==
    LET failed == {rs[i] : i \in {j \in DOMAIN rs : got[j] = "fail"}}
    IN  /\ faulted' = IF refused THEN faulted ELSE faulted \cup failed
        /\ \E partial \in SUBSET failed :
              /\ refused => partial = {}
              /\ backend' = backend \cup (Range(rs) \ failed) \cup partial

\* restore_prefix or resume_prefix: refused if the sequence exists.
Restore ==
    /\ At("restore")
    /\ LET r == Head(sched.todo)
           refused == r \in backend
           e == sched.entry
       IN  \E got \in Outcomes(1, refused) :
             /\ CallReturns(<<r>>, got, refused)
             /\ seq' = IF got[1] = "fail" THEN seq
                       ELSE [seq EXCEPT ![r].length =
                                e.length + Len(Prompt[r]) - Len(e.prompt)]
             /\ sched' = [sched EXCEPT !.pc = "acceptRestore", !.got = got]
    /\ UNCHANGED <<active, finished, events, reader, holds, cache, wake, closed, down>>

\* prefill_batch: left padding gives every sequence the longest prompt's length.
PrefillCall ==
    /\ At("call")
    /\ LET rs == sched.batch
           refused == Range(rs) \cap backend # {}
           width == LargestOf({Len(Prompt[r]) : r \in Range(rs)})
       IN  \E got \in Outcomes(Len(rs), refused) :
             /\ CallReturns(rs, got, refused)
             /\ seq' = [r \in Request |->
                          IF \E i \in DOMAIN rs : rs[i] = r /\ got[i] # "fail"
                          THEN [seq[r] EXCEPT !.length = width] ELSE seq[r]]
             /\ sched' = [sched EXCEPT !.pc = "acceptPrefill", !.todo = rs,
                                       !.batch = <<>>, !.got = got]
    /\ UNCHANGED <<active, finished, events, reader, holds, cache, wake, closed, down>>

\* One prefill_chunk call: an inner chunk only grows the backend cache, the
\* last one returns a token.
Chunk ==
    /\ At("chunks")
    /\ LET r == Head(sched.todo)
           size == Len(Prompt[r])
           end == IF seq[r].offset + ChunkSize < size THEN seq[r].offset + ChunkSize ELSE size
       IN  \E got \in Outcomes(1, FALSE) :
             /\ CallReturns(<<r>>, got, FALSE)
             /\ IF got[1] = "fail"
                THEN UNCHANGED seq
                ELSE seq' = [seq EXCEPT ![r].offset = end,
                                        ![r].length = IF end = size THEN size ELSE @]
             /\ sched' = IF got[1] # "fail" /\ end < size
                         THEN ContinueChunks([sched EXCEPT !.todo = Tail(@)])
                         ELSE [sched EXCEPT !.pc = "acceptChunk", !.got = got]
    /\ UNCHANGED <<active, finished, events, reader, holds, cache, wake, closed, down>>

-----------------------------------------------------------------------------
(* Decode and token delivery *)

\* decode_batch: refused if a sequence does not exist.
Decode ==
    /\ At("decode")
    /\ LET rs == sched.batch
           refused == ~(Range(rs) \subseteq backend)
       IN  \E got \in Outcomes(Len(rs), refused) :
             /\ CallReturns(rs, got, refused)
             /\ seq' = [r \in Request |->
                          IF \E i \in DOMAIN rs : rs[i] = r /\ got[i] # "fail"
                          THEN [seq[r] EXCEPT !.length = @ + 1] ELSE seq[r]]
             /\ sched' = [sched EXCEPT !.pc = "acceptDecode", !.todo = rs,
                                       !.batch = <<>>, !.got = got]
    /\ UNCHANGED <<active, finished, events, reader, holds, cache, wake, closed, down>>

Accepting == {"acceptRestore", "acceptPrefill", "acceptChunk", "acceptDecode"}

\* _store_prefix runs before the token of a real prefill is accepted; after a
\* restore only when the hit was partial.
Stores ==
    /\ MaxEntries > 0
    /\ \/ sched.pc \in {"acceptPrefill", "acceptChunk"}
       \/ sched.pc = "acceptRestore" /\ sched.entry.prompt # Prompt[Head(sched.todo)]

\* Where the scheduler goes after the head of todo has been handled.
AfterAccept ==
    LET s == [sched EXCEPT !.todo = Tail(@), !.got = Tail(@), !.entry = <<>>]
    IN  CASE s.pc = "acceptRestore" -> ContinuePrefill(s)
          [] s.pc = "acceptChunk"   -> ContinueChunks(s)
          [] OTHER                  -> ContinueAccepting(s)

\* Mutant: no interruption check after the model call.
VerdictUnchecked(r, result) ==
    CASE result = "fail" -> "ERROR"
      [] result = "end"  -> "EOS"
      [] OTHER -> IF seq[r].generated + 1 >= MaxNew[r] THEN "LENGTH" ELSE "token"

\* _accept_token's verdict on the result, "token" when the sequence goes on.
Verdict(r, result) ==
    CASE result = "fail"                    -> "ERROR"
      [] result # "fail" /\ Interrupted(r)  -> Interruption(r)
      [] result = "end" /\ ~Interrupted(r)  -> "EOS"
      [] OTHER -> IF seq[r].generated + 1 >= MaxNew[r] THEN "LENGTH" ELSE "token"

\* Handling of one result: store the prefix, then fail, complete or deliver.
Accept ==
    /\ At(sched.pc) /\ sched.pc \in Accepting
    /\ LET r == Head(sched.todo)
           result == Head(sched.got)
           verdict == Verdict(r, result)
           delivered == verdict \in {"token", "LENGTH"}
           s == IF delivered
                THEN [seq[r] EXCEPT !.phase = "DECODE", !.generated = @ + 1]
                ELSE seq[r]
           queued == IF delivered THEN Append(events[r], "token") ELSE events[r]
       IN  /\ cache' = IF Stores /\ result # "fail"
                       THEN PutEntry(cache, Prompt[r], seq[r].length, MaxEntries, MaxCached)
                       ELSE cache
           /\ \/ /\ verdict = "token"
                 /\ seq' = [seq EXCEPT ![r] = s]
                 /\ events' = [events EXCEPT ![r] = queued]
                 /\ sched' = AfterAccept
                 /\ UNCHANGED <<active, finished, holds, wake>>
              \/ /\ verdict # "token"
                 /\ Terminate(r, s, verdict, AfterAccept, queued)
    /\ UNCHANGED <<reader, backend, closed, down, faulted>>

\* snapshot_prefix raises inside _run_prefill's try: the sequence fails ...
RestoreSnapshotRaises ==
    /\ SnapshotFaults
    /\ At("acceptRestore")
    /\ Head(sched.got) # "fail"
    /\ Stores
    /\ LET r == Head(sched.todo) IN
       /\ faulted' = faulted \cup {r}
       /\ Terminate(r, seq[r], "ERROR", AfterAccept, events[r])
    /\ UNCHANGED <<reader, cache, backend, closed, down>>

\* ... and outside every try: the exception ends the scheduler task.
SnapshotRaises ==
    /\ SnapshotFaults
    /\ At(sched.pc) /\ sched.pc \in {"acceptPrefill", "acceptChunk"}
    /\ Head(sched.got) # "fail"
    /\ Stores
    /\ faulted' = faulted \cup {Head(sched.todo)}
    /\ sched' = [sched EXCEPT !.pc = "dead"]
    /\ UNCHANGED <<seq, active, finished, events, reader, holds, cache, backend,
                   wake, closed, down>>

-----------------------------------------------------------------------------
(* Shutdown *)

\* shutdown up to its first await.  With no scheduler task nothing has been
\* created in the backend, so the _complete calls do not suspend.
Shutdown ==
    /\ ~closed
    /\ closed' = TRUE
    /\ wake' = TRUE
    /\ down' = IF sched.pc = "off" THEN "stopping" ELSE "waiting"
    /\ IF sched.pc = "off"
       THEN /\ seq' = [r \in Request |-> IF IsActive(r)
                          THEN [seq[r] EXCEPT !.cancelled = TRUE, !.phase = "CANCELLED"]
                          ELSE seq[r]]
            /\ holds' = [r \in {} |-> {}]
            /\ finished' = finished \cup Range(active)
            /\ events' = [r \in Request |-> IF IsActive(r)
                             THEN Append(events[r], "CANCELLED") ELSE events[r]]
            /\ active' = <<>>
       ELSE /\ seq' = [r \in Request |-> IF IsActive(r)
                          THEN [seq[r] EXCEPT !.cancelled = TRUE] ELSE seq[r]]
            /\ UNCHANGED <<active, finished, events, holds>>
    /\ UNCHANGED <<reader, cache, backend, sched, faulted>>

\* The scheduler task has ended, or there never was one: drop the cache and
\* shut the backend down.
ShutdownEnds ==
    /\ down = "stopping" \/ (down = "waiting" /\ sched.pc = "exited")
    /\ cache' = <<>>
    /\ backend' = {}
    /\ down' = "done"
    /\ UNCHANGED <<seq, active, finished, events, reader, holds, sched, wake,
                   closed, faulted>>

\* Awaiting a scheduler task that died raises its exception.
ShutdownRaises ==
    /\ down = "waiting"
    /\ sched.pc = "dead"
    /\ down' = "failed"
    /\ UNCHANGED <<seq, active, finished, events, reader, holds, cache, backend,
                   sched, wake, closed, faulted>>

-----------------------------------------------------------------------------
Scheduler ==
    \/ Loop \/ Sweep \/ Decide \/ WakeUp
    \/ BeginPrefill \/ PrefillRejected \/ Restore \/ PrefillCall \/ Chunk
    \/ Decode \/ Accept \/ Released
    \/ RestoreSnapshotRaises \/ SnapshotRaises

Consumer(r) == ReadEvent(r) \/ ResumeReader(r) \/ ReaderDrained(r)

Caller(r) ==
    \/ Reserve(r) \/ StartStream(r)
    \/ /\ r \in Interruptible
       /\ Cancel(r) \/ Expire(r) \/ CloseReader(r) \/ CancelReader(r)

Next ==
    \/ Scheduler
    \/ \E r \in Request : Caller(r) \/ Consumer(r)
    \/ Shutdown \/ ShutdownEnds \/ ShutdownRaises

Spec == Init /\ [][Next]_vars

\* The scheduler task and the readers run whenever they can: the event loop
\* resumes a task whose await is over and backend calls return.  Callers owe
\* nothing, not even to come back for the next event.
Fairness ==
    /\ WF_vars(Scheduler)
    /\ \A r \in Request : WF_vars(ReadEvent(r)) /\ WF_vars(ReaderDrained(r))
    /\ WF_vars(ShutdownEnds \/ ShutdownRaises)

FairSpec == Spec /\ Fairness

-----------------------------------------------------------------------------
(* Properties *)

\* Every variable has its type.
TypeOK ==
    /\ seq \in [Request ->
          [phase : {"NONE", "QUEUED", "PREFILL", "DECODE"} \cup Terminal,
           cancelled : BOOLEAN, expired : BOOLEAN,
           tokenized : BOOLEAN, created : BOOLEAN,
           offset : Nat, length : Nat, generated : Nat]]
    /\ active \in Seq(Request)
    /\ finished \subseteq Request
    /\ events \in [Request -> Seq(TerminalEvent \cup {"token"})]
    /\ reader \in [Request -> {"none", "get", "yield", "last", "drain", "gone"}]
    /\ DOMAIN holds \subseteq Request
    /\ holds \in [DOMAIN holds -> SUBSET Block]
    /\ cache \in Seq([prompt : Seq(Nat), length : Nat])
    /\ backend \subseteq Request
    /\ sched.pc \in {"off", "loop", "sweep", "idle", "prefill", "restore", "call",
                     "chunks", "decode", "exited", "dead"} \cup Accepting
    /\ sched.todo \in Seq(Request) /\ sched.batch \in Seq(Request)
    /\ sched.got \in Seq(Result)
    /\ sched.turn \in BOOLEAN
    /\ wake \in BOOLEAN /\ closed \in BOOLEAN
    /\ down \in {"no", "waiting", "stopping", "done", "failed"}
    /\ faulted \subseteq Request

\* Whatever ends a sequence (EOS, length, cancellation, deadline, failure,
\* shutdown), its KV blocks and its backend state go with it: exactly the active
\* sequences own blocks, no block has two owners, the backend knows only active
\* sequences that _complete and _fail will release, and the scheduler works only
\* on active sequences.
OwnershipFollowsActive ==
    /\ DOMAIN holds = Range(active)
    /\ \A r \in DOMAIN holds : KV!Exclusive(r)
    /\ backend \subseteq {r \in Range(active) : seq[r].created}
    /\ Range(sched.todo) \cup Range(sched.batch) \subseteq Range(active)
    /\ finished \cap Range(active) = {}

\* The same when prompts are tokenized only at prefill and reservations are
\* guesses: the blocks of a tokenized sequence cover its prompt and every token
\* it may still deliver, so decoding never outgrows the reservation.
BlocksCoverTokens ==
    /\ OwnershipFollowsActive
    /\ \A r \in Range(active) :
          seq[r].tokenized =>
              Len(Prompt[r]) + MaxNew[r] <= Cardinality(holds[r]) * BlockSize

\* A stream carries exactly one terminal event, behind all its tokens, and a
\* reader that has not taken it yet still finds it in the queue.
StreamsEndOnce ==
    \A r \in Request :
        /\ \A i \in DOMAIN events[r] :
              events[r][i] \in TerminalEvent => i = Len(events[r]) /\ Done(r)
        /\ Done(r) /\ reader[r] \in {"none", "get", "yield"} =>
              events[r] # <<>> /\ events[r][Len(events[r])] \in TerminalEvent

\* No sequence delivers more than max_new_tokens tokens, and one that has used
\* them up is never scheduled again.
TokenBudget ==
    \A r \in Request :
        /\ seq[r].generated <= MaxNew[r]
        /\ seq[r].phase = "DECODE" /\ sched.pc \notin Accepting /\ IsActive(r)
              => seq[r].generated \in 1..(MaxNew[r] - 1)

\* No wakeup is lost: the scheduler sleeps only when nothing is active or the
\* event that ends its sleep is already set.
NoLostWakeup == sched.pc = "idle" /\ active # <<>> => wake

\* A decode batch holds live sequences with equal physical cache lengths, at
\* most max_batch_size of them, although sequences join and leave between
\* iterations.
DecodeBatchesAreUniform ==
    sched.pc = "decode" =>
        /\ Len(sched.batch) \in 1..MaxBatch
        /\ \A r \in Range(sched.batch) :
              /\ seq[r].phase = "DECODE"
              /\ r \in backend
              /\ seq[r].length = seq[sched.batch[1]].length

\* With exact prompt token counts a sequence fails only if one of its own
\* backend calls failed: neither the scheduler nor a peer can make it fail.
FailsOnlyOnBackendFault ==
    \A r \in Request : seq[r].phase = "FAILED" => r \in faulted

\* The prefix cache respects both limits and its entries were computed from
\* what they are keyed by: never shorter than the prompt they stand for.
CacheIsBounded ==
    /\ Fits(cache, MaxEntries, MaxCached)
    /\ \A i, j \in DOMAIN cache : cache[i].prompt = cache[j].prompt => i = j
    /\ \A i \in DOMAIN cache : Len(cache[i].prompt) <= cache[i].length

\* After a completed shutdown nothing is left behind and no reservation enters.
ShutdownLeavesNothing ==
    down = "done" => active = <<>> /\ DOMAIN holds = {} /\ backend = {} /\ cache = <<>>

\* The engine's structural invariant, whatever interrupts an iteration: fields
\* keep their types, blocks and backend state belong to the active sequences,
\* token budgets hold, decode batches are uniform, the cache keeps within its
\* limits, no wakeup is lost and shutdown leaves nothing.
EngineInv ==
    /\ TypeOK /\ OwnershipFollowsActive /\ TokenBudget /\ DecodeBatchesAreUniform
    /\ CacheIsBounded /\ NoLostWakeup /\ ShutdownLeavesNothing

TokenQueued(r) ==
    Len(events'[r]) > Len(events[r]) /\ events'[r][Len(events[r]) + 1] = "token"

\* Once a sequence is cancelled or past its deadline no token of it is delivered,
\* even if a model call for it was in flight.
InterruptedIsSilent ==
    [][\A r \in Request : Interrupted(r) => ~TokenQueued(r)]_vars

\* Once the scheduler runs every reserved sequence ends, and a reader waiting for
\* an event, or for its cancelled sequence, is released.
EveryStreamEnds ==
    \A r \in Request :
        /\ IsActive(r) /\ sched.pc # "off" ~> ~IsActive(r)
        /\ reader[r] \in {"get", "drain"} ~> reader[r] \in {"yield", "last", "gone"}

\* shutdown() terminates.
ShutdownCompletes == closed ~> down = "done"

=============================================================================
