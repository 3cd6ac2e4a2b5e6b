------------------------------- MODULE MCMedia -------------------------------
(* Two assets, a product and two overlapping sweep passes, one of which may  *)
(* die anywhere.  Its names are its own, so that the module can stand beside *)
(* the other stores of the catalog.                                          *)
CONSTANTS Assets, Displays, Sweepers, BatchSize, MaxCrashes

VARIABLES asset, object, url, links, checked, sweeper, lateUploads, crashes

Images == INSTANCE Media WITH Products <- Displays, late <- lateUploads

ASSUME ImagesAssumption == Images!MediaAssumption

mediaVars == <<asset, object, url, links, checked, sweeper, lateUploads, crashes>>

MediaSpec == Images!FairSpec

(* ImagesHaveObjects of Media: an attached asset has its bytes and a link its asset, whatever uploads, *)
(* confirmations, attachments and sweeps are under way together.                                       *)
ImagesHaveObjects == Images!ImagesHaveObjects

(* Reclaimed of Media: what is not on a product is reclaimed in the end.                               *)
Reclaimed == Images!Reclaimed
=============================================================================
