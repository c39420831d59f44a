---------------------------- MODULE MCAutonomy ----------------------------
(* Two threads that evaluate; one zone with lights and music. *)
EXTENDS AutonomyExecutor, TLC

CONSTANTS t1, t2

MCThreads == {t1, t2}
MCSymmetry == Permutations(MCThreads)
MCZones == {"kitchen"}
MCModules == {"mood", "licht", "musik"}
\* Nothing was configured, or the mood module was switched off for good.
MCStoredRows == { [m \in MCModules |-> NoRow],
                  [m \in MCModules |-> IF m = "mood" THEN "off" ELSE NoRow] }
MCMoods == {"relax", "alert"}
MCMusical == {"relax"}
MCTargets == << <<"kitchen", "licht">>, <<"kitchen", "musik">> >>
MCLightTargets == << <<"kitchen", "licht">> >>
=============================================================================
