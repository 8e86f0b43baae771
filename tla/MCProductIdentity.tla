------------------------ MODULE MCProductIdentity -------------------------
(***************************************************************************)
(* Four SPUs of three stores with one recall identity.  At first SPUs 1, 3 *)
(* and 4 share a barcode and are a clique.  Then SKU 1 moves to SPU 2, of  *)
(* the same store and another voltage, which conflicts with SPU 3, and SPU *)
(* 1 is confirmed with 3 by another barcode but not with 4, so that 1, 3   *)
(* and 4 are a chain and no clique.                                        *)
(***************************************************************************)
EXTENDS ProductIdentity, TLC

MCSpus == 1..4
MCSkus == 1..4
MCStore == <<"A", "A", "B", "C">>
MCSkuStore == <<"A", "A", "B", "C">>
MCListed == <<1, 1, 3, 4>>
MCCurated == {"material", "power"}
MCHard == {"voltage"}
MCSupplied == {2}
MCListings == {[store |-> "A", skus |-> {2}]}

Material == [id |-> "material", value |-> "steel"]
Power == [id |-> "power", value |-> "1500W"]
Voltage(v) == [id |-> "voltage", value |-> v]
Answer(attributes, barcodes) ==
    [skus |-> DOMAIN barcodes, recall |-> "kettle", attributes |-> attributes, barcodes |-> barcodes]

MCAnswers ==
    << <<Answer({Material, Power, Voltage("220V")}, 1 :> {"gtin1"}),
         Answer({}, <<>>),
         Answer({Material, Voltage("220V")}, 3 :> {"gtin1", "gtin2"}),
         Answer({Material, Power}, 4 :> {"gtin1"})>>,
       <<Answer({Material, Voltage("220V")}, 2 :> {"gtin2"}),
         Answer({Material, Power, Voltage("110V")}, 1 :> {"gtin1"}),
         Answer({Material, Voltage("220V")}, 3 :> {"gtin1", "gtin2"}),
         Answer({Material, Power}, 4 :> {"gtin1"})>> >>

MCSymmetry == Permutations(Loads) \union Permutations(Observations) \union Permutations(Applies)
=============================================================================
