-------------------------- MODULE FatDirectoryMC --------------------------
(***************************************************************************)
(* A small volume for TLC: two long names whose first numbered short forms *)
(* are one and the same, one of two parts and one of one, and a name in    *)
(* 8.3 form; or the long name of two parts and the 8.3 one alone.          *)
(***************************************************************************)
EXTENDS FatDirectory

MCName == {"a", "b", "c"}
MCPair == {"a", "c"}
MCShort == {"A~1", "A~2", "B~2", "A", "B", "C"}
MCLossy == {"a", "b"}

PartsOf(N) == [n \in N |-> CASE n = "a" -> 2 [] n = "b" -> 1 [] n = "c" -> 0]
ShortOf(N) == [n \in N |-> CASE n = "a" -> "A" [] n = "b" -> "B" [] n = "c" -> "C"]
NumberOf(N) == [n \in N |-> <<"A~1", IF n = "b" THEN "B~2" ELSE "A~2">>]

MCParts == PartsOf(MCName)
MCShortOf == ShortOf(MCName)
MCNumber == NumberOf(MCName)

PairLossy == {"a"}
PairParts == PartsOf(MCPair)
PairShort == ShortOf(MCPair)
PairNumber == NumberOf(MCPair)

\* All but the last answer, which no action reads.
Relevant == <<table, free, volume, cdir, scanned, shortCache, lastTable, lastIdx, listing,
              faults, trouble>>
============================================================================
