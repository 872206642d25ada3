--------------------------- MODULE EmbeddingIndex ---------------------------
(***************************************************************************)
(* semantic.rs: embeddings by key, searched for the nearest.  An embedding *)
(* is a model value; how alike two of them are is a given table of scores, *)
(* in which a pair without a score has different dimensions or a zero      *)
(* vector.  An index is its ttl (an Option: a set of at most one element)  *)
(* and its entries, one per key.                                           *)
(***************************************************************************)
EXTENDS Naturals, FiniteSets

CONSTANTS
    Embeddings,   \* what a caller may send, malformed vectors included
    Malformed,    \* the ones that are empty or not finite
    Score         \* Score[a][b]: cosine similarity in percent, an Option

\* Embedding::new
IsValid(e) == e \in Embeddings \ Malformed

cosine_similarity(a, b) == Score[a][b]

new(ttl) == [ttl |-> ttl, entries |-> {}]

remove(x, key) == [x EXCEPT !.entries = {e \in @ : e.key # key}]

\* A key that is already there gets the new embedding and a new age.
insert(x, key, embedding) ==
    [x EXCEPT !.entries = remove(x, key).entries \cup {[key |-> key, embedding |-> embedding, age |-> 0]}]

evict_expired_Never(x) == x
evict_expired(x) == [x EXCEPT !.entries = {e \in @ : \A ttl \in x.ttl : e.age < ttl}]

\* nearest, on an index that evict_expired has been applied to: the entries with
\* the best score.  max_by keeps one of them, and the map has no order.
nearest(x, embedding) ==
    LET hits == UNION {{[key |-> e.key, score |-> s] : s \in cosine_similarity(embedding, e.embedding)} :
                         e \in x.entries}
    IN {h \in hits : \A g \in hits : g.score <= h.score}

Age(x, cap) == [x EXCEPT !.entries = {[e EXCEPT !.age = IF @ < cap THEN @ + 1 ELSE @] : e \in @}]

=============================================================================
