----------------------------- MODULE MCKeyCache -----------------------------
(* Small instances of KeyCache. *)
EXTENDS KeyCache

CONSTANTS h1, h2, r1

\* keys.go on Warmed: the cache has completed its first full pass, so every
\* handle has been fetched once and a fresh pod never serves partial team keys.
\* (For an index that does not change.)
WarmMeansFetched == alive /\ warmed => \A h \in index : entries[h] # Absent
=============================================================================
