------------------------- MODULE MCVariantCoverage -------------------------
(* VariantCoverage for TLC: the runs old, first and second all want the      *)
(* variant k, second also when it is known to be unresolved.  The snapshot   *)
(* of old states other content for it; that of second has a row of the       *)
(* variant l too, which nobody queues and only an ambiguous match names.     *)
EXTENDS VariantCoverage

CONSTANTS old, first, second

MCCandidates == {"oldK", "newK", "newL"}
MCKeyOf == [x \in MCCandidates |-> IF x = "newL" THEN "l" ELSE "k"]
MCContentOf == [x \in MCCandidates |-> x]
MCBatch == [r \in Runs |-> IF r = old THEN {"oldK"} ELSE {"newK"}]
MCSnapshot == [r \in Runs |-> MCBatch[r] \cup (IF r = second THEN {"newL"} ELSE {})]
MCOutcomes == [r \in Runs |-> {"enriched"} \cup (IF r = first THEN {"unresolved"} ELSE {})]
MCMaxTries == [r \in Runs |-> IF r = first THEN 2 ELSE 1]
=============================================================================
