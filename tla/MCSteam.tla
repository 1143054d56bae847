------------------------------ MODULE MCSteam ------------------------------
(* A catalogue of two pages, one of its games below the floor, and a      *)
(* bucket whose penalty, as with the defaults, lasts longer than filling. *)
EXTENDS Steam

SomeReviews == <<5, 9, 7, 1>>
=============================================================================
