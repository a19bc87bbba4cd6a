-------------------------- MODULE MCWorkCollection --------------------------
(* Instances of WorkCollection for TLC: an import of an artist and a unit of  *)
(* a subscription, which keeps only the metadata of works with one page.      *)
EXTENDS WorkCollection

MCRule == [s \in Snapshot |->
  CASE s.pages = 1 -> "Ignore" [] s.pages = 2 -> "MetadataOnly" [] OTHER -> "Download"]
MCTarget == [c \in Collector |-> Work]
=============================================================================
