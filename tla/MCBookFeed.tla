------------------------------ MODULE MCBookFeed ------------------------------
(* Three levels of which a snapshot has two, four changes, one or two      *)
(* breaks: a level can enter and leave the best ones while nobody listens. *)
EXTENDS BookFeed
=============================================================================
