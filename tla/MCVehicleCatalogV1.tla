------------------------ MODULE MCVehicleCatalogV1 ------------------------
(* VehicleCatalogV1 for TLC.  The first model is spelled in two ways that   *)
(* the merge takes for one and the evidence for two: under the dotted one   *)
(* the engines agent may contradict itself or know foreign sources only,    *)
(* under the other trims has a record.  The second model is also known by   *)
(* an alias; nothing is stated of it, and a verifier may believe it.        *)
EXTENDS VehicleCatalogV1

MCModels == {1, 2}
MCNames == {"ID.4", "ID 4", "Buzz", "Microbus"}
MCCalled == [m \in MCModels |-> IF m = 1 THEN <<"ID 4">> ELSE <<"Buzz", "Microbus">>]
MCEvidenceKey == [n \in MCNames |-> n]
MCMergeKey == [n \in MCNames |-> IF n = "ID.4" THEN "ID 4" ELSE n]

Item(name, states, israeli, confidence) ==
    [name |-> name, filed |-> name, states |-> states, variant |-> "any",
     israeli |-> israeli, confidence |-> confidence]
Petrol == Item("ID.4", "petrol", TRUE, 2)
Diesel == Item("ID.4", "diesel", FALSE, 1)
Years == Item("ID 4", "years", TRUE, 1)
Alias == Item("Microbus", "nothing", FALSE, 2)
Empty == Item("Buzz", "nothing", TRUE, 1)
MCRecords == {Petrol, Diesel, Years, Alias, Empty}

MCOffers == [am \in {"engines", "trims"} \X MCModels |->
    CASE am = <<"engines", 1>> -> {{Petrol}, {Diesel}, {Petrol, Diesel}}
      [] am = <<"trims", 1>> -> {{Years}}
      [] am = <<"engines", 2>> -> {{Alias}}
      [] OTHER -> {{Empty, Missing}}]

Says(list, name, status) == [list |-> list, name |-> name, status |-> status]
MCReplies == {{Says("verified_models", "ID.4", "verified")},
              {Says("verified_models", "ID 4", "verified"), Says("rejected_data_points", "ID.4", "none")},
              {Says("needs_review", "Microbus", "verified")}}
=============================================================================
