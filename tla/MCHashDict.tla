----------------------------- MODULE MCHashDict -----------------------------
(* Instances of HashDict for TLC: two spellings of one name, and a second name
   that shares buckets with it when the numbers of the wordlists differ by one. *)
EXTENDS HashDict

MCFold == [n \in {"a", "A", "b"} |-> IF n = "b" THEN "B" ELSE "A"]
MCKey == [k \in {"A", "B"} |-> IF k = "A" THEN 5 ELSE 4]

(* One word fewer than makes a table with four buckets grow, and words enough
   that it grows in the middle of the first addall. *)
MCStart == {<<"a", "b", "A", "a", "b", "A", "a">>,
            <<"a", "A", "b", "A", "b", "A", "a", "b">>}
=============================================================================
