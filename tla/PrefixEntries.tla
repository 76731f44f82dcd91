--------------------------- MODULE PrefixEntries ---------------------------
(***************************************************************************)
(* The entries of the prefix cache (inference/prefix_cache.py) as a pure   *)
(* data type: the OrderedDict of cached prompts, least recently used       *)
(* first.  An entry is a record [prompt, length]: the cached token         *)
(* sequence and the length of the backend cache snapshotted with it.       *)
(***************************************************************************)
EXTENDS Naturals, Sequences, FiniteSets, SeqFilter, Functions

IsPrefixOf(s, t) ==
    /\ Len(s) <= Len(t)
    /\ \A i \in 1..Len(s) : s[i] = t[i]

\* The positions of the entries that are prefixes of prompt.
Matching(entries, prompt) ==
    {i \in DOMAIN entries : IsPrefixOf(entries[i].prompt, prompt)}

\* longest_prefix: the position of the longest one.  Prompts are distinct
\* keys, so there is only one.
LongestPrefix(entries, prompt) ==
    CHOOSE i \in Matching(entries, prompt) :
        \A j \in Matching(entries, prompt) :
            Len(entries[j].prompt) <= Len(entries[i].prompt)

WithoutPosition(entries, i) ==
    SubSeq(entries, 1, i - 1) \o SubSeq(entries, i + 1, Len(entries))

\* _entries.move_to_end after a hit.
MoveToEnd(entries, i) == Append(WithoutPosition(entries, i), entries[i])

WithoutKey(entries, prompt) ==
    Keep(entries, {e \in Range(entries) : e.prompt # prompt})

\* The sum of the cached prompt lengths (_cached_tokens).
CachedTokens(entries) ==
    LET sum[i \in 0..Len(entries)] ==
            IF i = 0 THEN 0 ELSE sum[i - 1] + Len(entries[i].prompt)
    IN  sum[Len(entries)]

Fits(entries, maxEntries, maxTokens) ==
    Len(entries) <= maxEntries /\ CachedTokens(entries) <= maxTokens

\* The eviction loop: drop from the front until both limits hold.
Evicted(entries, maxEntries, maxTokens) ==
    LET drops == {n \in 0..Len(entries) :
                    Fits(SubSeq(entries, n + 1, Len(entries)), maxEntries, maxTokens)}
        fewest == CHOOSE n \in drops : \A m \in drops : n <= m
    IN  SubSeq(entries, fewest + 1, Len(entries))

\* put: a prompt over the token budget bypasses the cache; otherwise it
\* replaces an equal key, becomes the most recently used and others make room.
PutEntry(entries, prompt, length, maxEntries, maxTokens) ==
    IF Len(prompt) > maxTokens
    THEN entries
    ELSE Evicted(Append(WithoutKey(entries, prompt),
                        [prompt |-> prompt, length |-> length]),
                 maxEntries, maxTokens)

=============================================================================
