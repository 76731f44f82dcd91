---------------------------- MODULE TokenBackend ----------------------------
(***************************************************************************)
(* The Hugging Face token backend (runtime/huggingface/token_backend.py):  *)
(* whole, batched and chunked prefill, single and batched decode, prefix   *)
(* snapshots, release and shutdown.  The engine makes its calls one at a   *)
(* time on one thread (TokenEngine), so a call is a step; the calls may    *)
(* come in any order the engine's bookkeeping allows.                      *)
(*                                                                         *)
(* A DynamicCache is an object that the model extends in place: caches are *)
(* kept by address.  An entry of a cache is the token and the position it  *)
(* was computed for.  Logits are represented by what they depend on: the   *)
(* tokens the model attended to when it computed them.  The sampler may    *)
(* answer any token of the vocabulary.                                     *)
(***************************************************************************)
EXTENDS Integers, Sequences, FiniteSets, Functions, SequencesExt, FiniteSetsExt, SeqFilter

CONSTANTS
    Sequence,      \* sequence ids
    Prompt,        \* the prompt of a sequence
    Vocabulary,    \* tokens the sampler may choose
    MaxNew,        \* bound on the tokens generated for a sequence
    Slot,          \* places of the engine's prefix cache for snapshots
    None

\* _SequenceCache and _PrefixSnapshot; a cache is known by its address.
SequenceCache ==
    [cache : Nat, mask : Seq({0, 1}), position : Nat, last : Nat \cup {None}, logits : Seq(Nat) \cup {None}]
PrefixSnapshot ==
    [cache : Nat, mask : Seq({0, 1}), position : Nat, logits : Seq(Nat), prompt : Seq(Nat)]

ASSUME BackendAssumption ==
    /\ IsFiniteSet(Sequence) /\ IsFiniteSet(Slot) /\ Slot # {}
    /\ Prompt \in [Sequence -> Seq(Nat)] /\ \A s \in Sequence : Prompt[s] # <<>>
    /\ Vocabulary \subseteq Nat
    /\ MaxNew \in Nat \ {0}
    /\ None \notin Nat /\ None \notin SequenceCache /\ None \notin PrefixSnapshot

VARIABLES
    caches,        \* by address: the entries of a cache
    sequences,     \* _sequences: per sequence a _SequenceCache or None
    snapshots,     \* per slot: a _PrefixSnapshot or None
    fed,           \* per sequence: prompt tokens the engine has given
    accepted,      \* per sequence: tokens returned to the engine
    basis,         \* history: the logits the last token was sampled from
    cached,        \* per sequence: the cache length the engine was told
    failed,        \* sequences of a call that raised, which the engine releases
    stopped

backendVars == <<caches, sequences, snapshots, fed, accepted, basis, cached, failed, stopped>>

Address == 1..(Cardinality(Sequence) + Cardinality(Slot))
None0 == [s \in Sequence |-> None]

BackendInit ==
    /\ caches = [x \in Address |-> <<>>]
    /\ sequences = None0
    /\ snapshots = [k \in Slot |-> None]
    /\ fed = [s \in Sequence |-> 0]
    /\ accepted = [s \in Sequence |-> <<>>]
    /\ basis = [s \in Sequence |-> <<>>]
    /\ cached = [s \in Sequence |-> 0]
    /\ failed = {}
    /\ stopped = FALSE

Has(s) == sequences[s] # None
Usable(s) == Has(s) /\ s \notin failed /\ ~stopped
Fresh(s) == ~Has(s) /\ s \notin failed /\ ~stopped
Decodable(s) == Usable(s) /\ accepted[s] # <<>> /\ Len(accepted[s]) < MaxNew

\* Addresses nothing refers to, when the sequences are given.
Free(seqs) ==
    Address \ ({seqs[s].cache : s \in {t \in Sequence : seqs[t] # None}}
                 \cup {snapshots[k].cache : k \in {l \in Slot : snapshots[l] # None}})

\* Nothing refers to the caches in X any more.
Collect(X) == caches' = [x \in Address |-> IF x \in X THEN <<>> ELSE caches[x]]

-----------------------------------------------------------------------------
(* The model, as the calls use it. *)

Ones(n) == [i \in 1..n |-> 1]
Zeros(n) == [i \in 1..n |-> 0]

\* Inputs at positions start, start + 1, ... join the cache.
Extended(cache, input, start) ==
    cache \o [i \in 1..Len(input) |-> [token |-> input[i], position |-> start + i - 1]]

\* What the model attends to: the entries under the mask.
Visible(cache, mask) ==
    LET seen == Keep([i \in DOMAIN cache |-> i], {i \in DOMAIN mask : mask[i] = 1})
    IN  [k \in DOMAIN seen |-> cache[seen[k]]]

Attended(cache, mask) ==
    LET seen == Visible(cache, mask) IN [k \in DOMAIN seen |-> seen[k].token]

-----------------------------------------------------------------------------
(* Prefill. *)

\* The rows of a batch are padded on the left to the longest prompt.
Width(S) == Max({Len(Prompt[s]) : s \in S})

\* Mutant: rows are padded on the right.
PaddedRight(s, w) ==
    [input |-> Prompt[s] \o Zeros(w - Len(Prompt[s])), mask |-> Ones(Len(Prompt[s])) \o Zeros(w - Len(Prompt[s]))]

Padded(s, w) ==
    [input |-> Zeros(w - Len(Prompt[s])) \o Prompt[s], mask |-> Zeros(w - Len(Prompt[s])) \o Ones(Len(Prompt[s]))]

\* prefill, and prefill_batch for several sequences: the rows in done have
\* been stored and answered with the tokens of out.
PrefillRows(S, done, out) ==
    LET at == CHOOSE f \in [done -> Free(sequences)] : IsInjective(f)
        row(s) == Padded(s, Width(S))
        cache(s) == Extended(<<>>, row(s).input, 0)
    IN  /\ caches' = [x \in Address |->
              IF \E s \in done : at[s] = x THEN cache(CHOOSE s \in done : at[s] = x) ELSE caches[x]]
        /\ sequences' = [s \in Sequence |->
              IF s \notin done THEN sequences[s]
              ELSE [cache |-> at[s], mask |-> row(s).mask, position |-> Width(S),
                    last |-> out[s], logits |-> Attended(cache(s), row(s).mask)]]
        /\ fed' = [s \in Sequence |-> IF s \in done THEN Len(Prompt[s]) ELSE fed[s]]
        /\ accepted' = [s \in Sequence |-> IF s \in done THEN <<out[s]>> ELSE accepted[s]]
        /\ basis' = [s \in Sequence |-> IF s \in done THEN Attended(cache(s), row(s).mask) ELSE basis[s]]
        /\ cached' = [s \in Sequence |-> IF s \in done THEN Width(S) ELSE cached[s]]

Prefill(S) ==
    /\ \A s \in S : Fresh(s)
    /\ \E out \in [S -> Vocabulary] : PrefillRows(S, S, out)
    /\ UNCHANGED <<snapshots, failed, stopped>>

\* The model raises and nothing is stored, or sampling raises at some row.
PrefillRaises(S) ==
    /\ \A s \in S : Fresh(s)
    /\ \E done \in (SUBSET S) \ {S} : \E out \in [done -> Vocabulary] : PrefillRows(S, done, out)
    /\ failed' = failed \cup S
    /\ UNCHANGED <<snapshots, stopped>>

\* The cache, mask and start of a chunk: a new sequence's or the existing one's.
Begun(s) ==
    IF Has(s) THEN [cache |-> sequences[s].cache, mask |-> sequences[s].mask]
    ELSE [cache |-> Min(Free(sequences)), mask |-> <<>>]
Entries(s) == IF Has(s) THEN caches[sequences[s].cache] ELSE <<>>

\* prefill_chunk of input for a sequence that is at b, with entries; t is the
\* token sampled when the chunk is the final one, None otherwise.
Chunk(s, b, entries, input, t) ==
    LET now == Extended(entries, input, Len(entries))
        mask == b.mask \o Ones(Len(input))
    IN  /\ caches' = [caches EXCEPT ![b.cache] = now]
        /\ sequences' = [sequences EXCEPT ![s] =
              [cache |-> b.cache, mask |-> mask, position |-> Len(now), last |-> t,
               logits |-> IF t = None THEN None ELSE Attended(now, mask)]]
        /\ IF t = None THEN UNCHANGED <<accepted, basis, cached>>
           ELSE /\ accepted' = [accepted EXCEPT ![s] = <<t>>]
                /\ basis' = [basis EXCEPT ![s] = Attended(now, mask)]
                /\ cached' = [cached EXCEPT ![s] = Len(now)]

\* The engine gives the next n tokens of the prompt; the last chunk samples.
PrefillChunk(s, n) ==
    /\ Fresh(s) \/ (Usable(s) /\ accepted[s] = <<>>)
    /\ fed[s] + n <= Len(Prompt[s])
    /\ fed' = [fed EXCEPT ![s] = @ + n]
    /\ \E t \in IF fed[s] + n = Len(Prompt[s]) THEN Vocabulary ELSE {None} :
          Chunk(s, Begun(s), Entries(s), SubSeq(Prompt[s], fed[s] + 1, fed[s] + n), t)
    /\ UNCHANGED <<snapshots, failed, stopped>>

\* The model raises, having extended the existing cache or not.
ChunkRaises(s, n) ==
    /\ Usable(s) /\ accepted[s] = <<>> /\ fed[s] + n <= Len(Prompt[s])
    /\ \/ UNCHANGED caches
       \/ caches' = [caches EXCEPT ![sequences[s].cache] =
                        Extended(@, SubSeq(Prompt[s], fed[s] + 1, fed[s] + n), Len(@))]
    /\ failed' = failed \cup {s}
    /\ UNCHANGED <<sequences, snapshots, fed, accepted, basis, cached, stopped>>

-----------------------------------------------------------------------------
(* Prefix snapshots. *)

\* Mutant: the cache is not copied.
SnapshotCacheShared(s) == sequences[s].cache

\* copy.deepcopy of a cache: an object of its own
SnapshotCache(s) == Min(Free(sequences))

Snapshot(s, k) ==
    /\ Usable(s) /\ sequences[s].logits # None /\ snapshots[k] = None
    /\ caches' = [caches EXCEPT ![SnapshotCache(s)] = caches[sequences[s].cache]]
    /\ snapshots' = [snapshots EXCEPT ![k] =
          [cache |-> SnapshotCache(s), mask |-> sequences[s].mask, position |-> sequences[s].position,
           logits |-> sequences[s].logits, prompt |-> Prompt[s]]]
    /\ UNCHANGED <<sequences, fed, accepted, basis, cached, failed, stopped>>

\* The engine's prefix cache drops an entry.
Forget(k) ==
    /\ snapshots[k] # None
    /\ snapshots' = [snapshots EXCEPT ![k] = None]
    /\ Collect({snapshots[k].cache})
    /\ UNCHANGED <<sequences, fed, accepted, basis, cached, failed, stopped>>

\* restore_prefix: the whole prompt is cached, and a token is sampled from
\* the logits kept with it.
Restore(s, k) ==
    LET p == snapshots[k]
        x == Min(Free(sequences))
    IN  /\ Fresh(s) /\ p # None /\ p.prompt = Prompt[s]
        /\ caches' = [caches EXCEPT ![x] = caches[p.cache]]
        /\ fed' = [fed EXCEPT ![s] = Len(Prompt[s])]
        /\ basis' = [basis EXCEPT ![s] = p.logits]
        /\ cached' = [cached EXCEPT ![s] = Len(caches[p.cache])]
        /\ \E t \in Vocabulary :
              /\ sequences' = [sequences EXCEPT ![s] =
                    [cache |-> x, mask |-> p.mask, position |-> p.position, last |-> t, logits |-> p.logits]]
              /\ accepted' = [accepted EXCEPT ![s] = <<t>>]
        /\ UNCHANGED <<snapshots, failed, stopped>>

Extends(s, p) == IsStrictPrefix(p.prompt, Prompt[s])

\* Mutant: one token of the prefix is prefilled again.
SuffixOverlaps(s, p) == SubSeq(Prompt[s], Len(p.prompt), Len(Prompt[s]))

Suffix(s, p) == SubSeq(Prompt[s], Len(p.prompt) + 1, Len(Prompt[s]))

\* resume_prefix: the cached prefix, and a final chunk with the rest.
Resume(s, k) ==
    LET p == snapshots[k] IN
    /\ Fresh(s) /\ p # None /\ Extends(s, p)
    /\ fed' = [fed EXCEPT ![s] = Len(Prompt[s])]
    /\ \E t \in Vocabulary :
          Chunk(s, [cache |-> Min(Free(sequences)), mask |-> p.mask], caches[p.cache], Suffix(s, p), t)
    /\ UNCHANGED <<snapshots, failed, stopped>>

\* The chunk raises: the restored prefix stays behind.
ResumeRaises(s, k) ==
    LET p == snapshots[k]
        x == Min(Free(sequences))
    IN  /\ Fresh(s) /\ p # None /\ Extends(s, p)
        /\ caches' = [caches EXCEPT ![x] = caches[p.cache]]
        /\ sequences' = [sequences EXCEPT ![s] =
              [cache |-> x, mask |-> p.mask, position |-> p.position, last |-> None, logits |-> p.logits]]
        /\ failed' = failed \cup {s}
        /\ UNCHANGED <<snapshots, fed, accepted, basis, cached, stopped>>

-----------------------------------------------------------------------------
(* Decode. *)

\* The last token joins each of the rows in done, at the position of the first
\* row of the batch, and a token of out is sampled for it.
DecodeRows(first, done, out) ==
    LET position == sequences[first].position
        mask(s) == sequences[s].mask \o <<1>>
        now(s) == Extended(caches[sequences[s].cache], <<sequences[s].last>>, position)
    IN  /\ caches' = [x \in Address |->
              IF \E s \in done : sequences[s].cache = x
              THEN now(CHOOSE s \in done : sequences[s].cache = x) ELSE caches[x]]
        /\ sequences' = [s \in Sequence |->
              IF s \in done
              THEN [sequences[s] EXCEPT !.mask = mask(s), !.position = @ + 1, !.last = out[s], !.logits = None]
              ELSE sequences[s]]
        /\ accepted' = [s \in Sequence |-> IF s \in done THEN Append(accepted[s], out[s]) ELSE accepted[s]]
        /\ basis' = [s \in Sequence |-> IF s \in done THEN Attended(now(s), mask(s)) ELSE basis[s]]
        /\ cached' = [s \in Sequence |-> IF s \in done THEN Len(now(s)) ELSE cached[s]]

\* The engine batches sequences it was told have equally long caches.
Batch(S) == S # {} /\ (\A s \in S : Decodable(s)) /\ \A s, t \in S : cached[s] = cached[t]

Decode(S) ==
    /\ Batch(S)
    /\ \E first \in S, out \in [S -> Vocabulary] : DecodeRows(first, S, out)
    /\ UNCHANGED <<snapshots, fed, failed, stopped>>

\* decode has extended the mask when the model raises, and perhaps the cache;
\* decode_batch works on copies, and stores row by row when it samples.
DecodeRaises(S) ==
    /\ Batch(S)
    /\ \/ /\ Cardinality(S) = 1
          /\ \E s \in S :
                /\ sequences' = [sequences EXCEPT ![s].mask = Append(@, 1)]
                /\ \/ UNCHANGED caches
                   \/ caches' = [caches EXCEPT ![sequences[s].cache] =
                                    Extended(@, <<sequences[s].last>>, sequences[s].position)]
          /\ UNCHANGED <<accepted, basis, cached>>
       \/ /\ Cardinality(S) > 1
          /\ \E first \in S, done \in (SUBSET S) \ {S} :
                \E out \in [done -> Vocabulary] : DecodeRows(first, done, out)
    /\ failed' = failed \cup S
    /\ UNCHANGED <<snapshots, fed, stopped>>

-----------------------------------------------------------------------------
ReleaseSequence(s) ==
    /\ Has(s) \/ s \in failed
    /\ Collect(IF Has(s) THEN {sequences[s].cache} ELSE {})
    /\ sequences' = [sequences EXCEPT ![s] = None]
    /\ failed' = failed \ {s}
    /\ fed' = [fed EXCEPT ![s] = 0]
    /\ accepted' = [accepted EXCEPT ![s] = <<>>]
    /\ basis' = [basis EXCEPT ![s] = <<>>]
    /\ cached' = [cached EXCEPT ![s] = 0]
    /\ UNCHANGED <<snapshots, stopped>>

\* Every sequence is released and the model unloaded.
Shutdown ==
    /\ ~stopped
    /\ stopped' = TRUE /\ sequences' = None0
    /\ Collect({sequences[s].cache : s \in {t \in Sequence : Has(t)}})
    /\ UNCHANGED <<snapshots, fed, accepted, basis, cached, failed>>

BackendNext ==
    \/ \E S \in (SUBSET Sequence) \ {{}} : Prefill(S) \/ PrefillRaises(S) \/ Decode(S) \/ DecodeRaises(S)
    \/ \E s \in Sequence :
          \/ \E n \in 1..Len(Prompt[s]) : PrefillChunk(s, n) \/ ChunkRaises(s, n)
          \/ \E k \in Slot : Snapshot(s, k) \/ Restore(s, k) \/ Resume(s, k) \/ ResumeRaises(s, k)
          \/ ReleaseSequence(s)
    \/ \E k \in Slot : Forget(k)
    \/ Shutdown

BackendSpec == BackendInit /\ [][BackendNext]_backendVars

-----------------------------------------------------------------------------
(* Properties. *)

Intact == {s \in Sequence : Usable(s)}
Given(s) == SubSeq(Prompt[s], 1, fed[s])

\* The cache of a sequence under its mask spells the prompt so far and every
\* accepted token but the last, at consecutive positions, through padding,
\* splitting into rows, restoring and resuming; and mask, cache position and
\* the length the engine groups by agree with the cache, which is what lets
\* decode_batch use the position of its first row for all.
CacheSpellsSequence ==
    \A s \in Intact :
        LET q == sequences[s]
            c == caches[q.cache]
            v == Visible(c, q.mask)
        IN  /\ Attended(c, q.mask) = Given(s) \o (IF accepted[s] = <<>> THEN <<>> ELSE Front(accepted[s]))
            /\ \A i \in 2..Len(v) : v[i].position = v[i - 1].position + 1
            /\ Len(q.mask) = Len(c) /\ q.position = Len(c)
            /\ accepted[s] # <<>> => q.last = Last(accepted[s]) /\ cached[s] = Len(c)
            /\ \A t \in Intact \ {s} : sequences[t].cache # q.cache

\* Each token is sampled from logits of its own sequence's prompt and tokens
\* so far: never of another row, of padding, or of a snapshot gone stale.
SampledFromOwnHistory ==
    \A s \in Intact :
        accepted[s] # <<>> => basis[s] = Prompt[s] \o Front(accepted[s])

\* A snapshot stays what it was after prefill, however the sequence it was
\* taken from and those restored from it go on or fail.
SnapshotsFrozen ==
    \A k \in Slot :
        snapshots[k] # None =>
            LET p == snapshots[k] IN
            /\ Attended(caches[p.cache], p.mask) = p.prompt
            /\ p.logits = p.prompt
            /\ Len(p.mask) = Len(caches[p.cache]) /\ p.position = Len(p.mask)

=============================================================================
