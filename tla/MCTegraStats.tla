----------------------------- MODULE MCTegraStats -----------------------------
(* Instance of TegraStats for TLC: a line with every field, one with none, and *)
(* two that have one field each.                                             *)
EXTENDS TegraStats

MCMatches == <<{"gpu", "rail"}, {}, {"rail"}, {"gpu"}>>
===============================================================================
