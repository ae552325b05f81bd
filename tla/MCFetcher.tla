----------------------------- MODULE MCFetcher -----------------------------
(* A small day of the Fetcher: two losses in a row pause it, three units   *)
(* lost stop it, two units won lock it.                                    *)
EXTENDS Fetcher

MCResults == {-2, -1, 1}

=============================================================================
