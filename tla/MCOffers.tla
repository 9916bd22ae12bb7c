------------------------------ MODULE MCOffers ------------------------------
(* Offers on small instances. *)
EXTENDS Offers, TLC

CONSTANTS a1, a2, i1, anything, sdxl, custom

BuiltinModels == anything :> "sd15" @@ sdxl :> "sdxl"
DefaultModels == "sd15" :> anything @@ "sdxl" :> sdxl
=============================================================================
