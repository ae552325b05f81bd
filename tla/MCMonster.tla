----------------------------- MODULE MCMonster -----------------------------
(* One chain a sequence; a stop of one point, a trail that can lift it by  *)
(* two.                                                                    *)
EXTENDS Monster
MCTickets == 1..4
=============================================================================
