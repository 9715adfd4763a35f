--------------------------- MODULE MCMigrations ---------------------------
(* Four files of which two make the baseline; an old image with three of   *)
(* them and a new one with all four.                                       *)
EXTENDS Migrations, TLC

CONSTANTS old, new

MCImages == old :> 3 @@ new :> 4
=============================================================================
