------------------------------ MODULE MCSearch ------------------------------
(* Instances of Search for TLC. *)
EXTENDS Search, TLC

CONSTANTS e1, e2, s1, s2, a, b, q1

MCEmbedders == <<e1, e2>>
MCOneEmbedder == <<e1>>
MCRerankers == <<s1, s2>>
MCOneReranker == <<s1>>
MCRequestSymmetry == Permutations(Requests)

\* What a page needs to be reranked, or not: all of it, or the query vector alone.
MCDocumented == {"single", "many"}
MCUndocumented == {"undocumented"}
=============================================================================
