------------------------------- MODULE MCHash -------------------------------
(***************************************************************************)
(* Instance of HashTable for TLC: names of several lengths, two of them    *)
(* with codes that never part, one too long for a bucket, one that differs *)
(* from another in its case only.                                          *)
(***************************************************************************)
EXTENDS HashTable

Name(text, low, len, hash) == [text |-> text, low |-> low, len |-> len, hash |-> hash]
Stored == {Name("date", "date", 4, 0), Name("cookie", "cookie", 6, 0),
           Name("connect", "connect", 7, 2), Name("if-range", "if-range", 8, 12),
           Name("too-long", "too-long", 31, 1)}
AllNames == Stored \cup {Name("Date", "date", 4, 6), Name("host", "host", 4, 0)}
AllTables ==
  UNION {{t \in [1 .. n -> Stored] : \A i, j \in 1 .. n : t[i] = t[j] => i = j} :
           n \in 1 .. 3}
=============================================================================
