------------------------------ MODULE MCPromotion ------------------------------
(* Instances of PromotionPipeline for TLC. *)
EXTENDS PromotionPipeline
=============================================================================
