----------------------------- MODULE MCAssetRecord -----------------------------
(* Instances of AssetRecord for TLC. *)
EXTENDS AssetRecord
===============================================================================
