------------------------------ MODULE MCSessions ------------------------------
(***************************************************************************)
(* The accounts of the user-service: the sessions of a user, the links     *)
(* mailed to an address, and the pin of the id layout a process boots      *)
(* against.  They are explored side by side and not interleaved.           *)
(***************************************************************************)
EXTENDS Sessions, TLC

CONSTANTS MaxLinks, MaxLinkTime, LinkTtl, LinkGrace, Processes, Layouts, MaxDbFaults

(* The layout versions of the builds are positive; 0 is a database without a pin. *)
ASSUME LinkBounds == {MaxLinks, MaxLinkTime, LinkTtl, LinkGrace} \subseteq Nat
ASSUME LayoutsArePositive == Layouts \subseteq Nat \ {0} /\ Layouts # {} /\ MaxDbFaults \in Nat

VARIABLES part, account, links, mailed, linkReq, applied, clock,
          pin, minted, build, boot, unverified, dbFaults

linkVars == <<account, links, mailed, linkReq, applied, clock>>
pinVars == <<pin, minted, build, boot, unverified, dbFaults>>

Link == INSTANCE AccountLinks
          WITH LinkRequests <- Requests, MaxTime <- MaxLinkTime, Ttl <- LinkTtl, Grace <- LinkGrace

Pin == INSTANCE LayoutPin

Symmetry == Permutations(Requests) \union Permutations(Processes)

(* Where nobody boots, one build is enough. *)
OneBuild == [p \in Processes |-> [layout |-> CHOOSE l \in Layouts : TRUE, pinBootstrap |-> TRUE]]

MCInit ==
  /\ Init /\ Link!Init
  /\ Pin!Init
  /\ \/ part = "pin"
     \/ part \in {"sessions", "links"} /\ build = OneBuild

MCNext ==
  /\ UNCHANGED part
  /\ \/ part = "sessions" /\ Next /\ UNCHANGED <<linkVars, pinVars>>
     \/ part = "links" /\ Link!Next /\ UNCHANGED <<vars, pinVars>>
     \/ part = "pin" /\ Pin!Next /\ UNCHANGED <<vars, linkVars>>

MCSpec == MCInit /\ [][MCNext]_<<part, vars, linkVars, pinVars>>

(* LinksHold of AccountLinks: of the mailed links of a kind at most one works, and none works twice.   *)
LinksHold == Link!LinksHold

(* PinHolds of LayoutPin: first boots of different builds race to one pin, and users follow it.        *)
PinHolds == Pin!PinHolds
===============================================================================
