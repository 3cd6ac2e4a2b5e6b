------------------------------- MODULE Media -------------------------------
(* Media assets: an upload ticket, a PUT straight to the bucket, its           *)
(* confirmation, attaching to and detaching from a product inside that         *)
(* product's transaction, and the sweeps that reclaim what nobody attached.    *)
(* Rows and links are Postgres, objects the bucket; no transaction spans both. *)
(* Time appears as what it does: a signed URL dies before its PENDING row      *)
(* expires (assertUrlDiesBeforeRow), other expiries and stale claims come at   *)
(* any time after they are set.                                                *)
EXTENDS FiniteSets, Naturals

CONSTANTS
  Assets,      \* asset ids, one upload each
  Products,    \* products with images
  Sweepers,    \* sweep passes that may overlap: replicas, or one timed out
  BatchSize,   \* assets one pass claims
  MaxCrashes   \* bound: interrupted or failed passes

(* Assumed where the module is instantiated. *)
MediaAssumption == BatchSize \in Nat \ {0} /\ MaxCrashes \in Nat

VARIABLES
  asset,    \* per asset: its row
  object,   \* per asset: whether the bucket holds its key
  url,      \* per asset: its signed URL, an upload through it, or neither
  links,    \* product_images
  checked,  \* per asset: a confirmation that has read the row and the object
  sweeper,  \* per sweeper: its pass
  late,     \* assets an upload reached when their row was claimed or gone
  crashes   \* bound

vars == <<asset, object, url, links, checked, sweeper, late, crashes>>

NoRow == [status |-> "NONE", expired |-> FALSE]
IdleSweep == [pc |-> "idle", ids |-> {}, half |-> {}]

(* Nothing leaves SWEEPING but the row's deletion. *)
Transitions ==
  {<<"PENDING", "READY">>, <<"READY", "ATTACHED">>, <<"ATTACHED", "DETACHED">>,
   <<"PENDING", "SWEEPING">>, <<"READY", "SWEEPING">>, <<"DETACHED", "SWEEPING">>}
Reclaimable == {"PENDING", "READY", "DETACHED"}

Init ==
  /\ asset = [a \in Assets |-> NoRow]
  /\ object = [a \in Assets |-> FALSE]
  /\ url = [a \in Assets |-> "unsigned"]
  /\ links = {} /\ late = {} /\ crashes = 0
  /\ checked = [a \in Assets |-> FALSE]
  /\ sweeper = [s \in Sweepers |-> IdleSweep]

Row(status) == [status |-> status, expired |-> FALSE]

-----------------------------------------------------------------------------
(* InitiateUploadUseCase: the PENDING row, then the signed URL. *)
Initiate(a) ==
  /\ asset[a].status = "NONE" /\ url[a] = "unsigned"
  /\ asset' = [asset EXCEPT ![a] = Row("PENDING")]
  /\ url' = [url EXCEPT ![a] = "signed"]
  /\ UNCHANGED <<object, links, checked, sweeper, late, crashes>>

(* A PUT the bucket accepted while the URL was valid; it may land much later. *)
StartPut(a) ==
  /\ url[a] = "signed"
  /\ url' = [url EXCEPT ![a] = "putting"]
  /\ UNCHANGED <<asset, object, links, checked, sweeper, late, crashes>>

LandPut(a) ==
  /\ url[a] \in {"putting", "expiredPutting"}
  /\ object' = [object EXCEPT ![a] = TRUE]
  /\ url' = [url EXCEPT ![a] = IF @ = "putting" THEN "signed" ELSE "expired"]
  /\ late' = IF asset[a].status \in {"NONE", "SWEEPING"} THEN late \union {a} ELSE late
  /\ UNCHANGED <<asset, links, checked, sweeper, crashes>>

UrlExpires(a) ==
  /\ url[a] \in {"signed", "putting"}
  /\ url' = [url EXCEPT ![a] = IF @ = "putting" THEN "expiredPutting" ELSE "expired"]
  /\ UNCHANGED <<asset, object, links, checked, sweeper, late, crashes>>

(* CompleteUploadUseCase reads the row and the object's head; an object of the *)
(* wrong size or type is refused, and that asset is left to the sweep...       *)
CheckUpload(a) ==
  /\ <<asset[a].status, "READY">> \in Transitions /\ ~checked[a]
  /\ object[a]
  /\ checked' = [checked EXCEPT ![a] = TRUE]
  /\ UNCHANGED <<asset, object, url, links, sweeper, late, crashes>>

MarksReady(a) == asset[a].status = "PENDING"

(* ...and marks it READY if it is PENDING still, with a new expiry. *)
MarkReady(a) ==
  /\ checked[a]
  /\ checked' = [checked EXCEPT ![a] = FALSE]
  /\ asset' = IF MarksReady(a) THEN [asset EXCEPT ![a] = Row("READY")] ELSE asset
  /\ UNCHANGED <<object, url, links, sweeper, late, crashes>>

-----------------------------------------------------------------------------
(* attachImage and detachImage: link row and asset row, one transaction, the *)
(* asset's status read under its row lock.                                   *)

Attach(p, a) ==
  /\ <<p, a>> \notin links
  /\ <<asset[a].status, "ATTACHED">> \in Transitions
  /\ links' = links \union {<<p, a>>}
  /\ asset' = [asset EXCEPT ![a] = Row("ATTACHED")]
  /\ UNCHANGED <<object, url, checked, sweeper, late, crashes>>

(* A link whose asset row is gone is dropped on its own. *)
Detach(p, a) ==
  /\ <<p, a>> \in links
  /\ links' = links \ {<<p, a>>}
  /\ asset[a] # NoRow => <<asset[a].status, "DETACHED">> \in Transitions
  /\ asset' = [asset EXCEPT ![a] = IF @ = NoRow THEN @ ELSE Row("DETACHED")]
  /\ UNCHANGED <<object, url, checked, sweeper, late, crashes>>

-----------------------------------------------------------------------------
(* Expiry: of a reclaimable row, and of a claim older than the sweep timeout. *)
Expires(a) ==
  /\ asset[a].status \in Reclaimable \union {"SWEEPING"} /\ ~asset[a].expired
  /\ asset[a].status = "PENDING" => url[a] \notin {"signed", "putting"}
  /\ asset' = [asset EXCEPT ![a].expired = TRUE]
  /\ UNCHANGED <<object, url, links, checked, sweeper, late, crashes>>

(* Defect: a claim that never comes back to rows an earlier pass left SWEEPING. *)
EligibleUnclaimed(a) == asset[a].status \in Reclaimable /\ asset[a].expired
Eligible(a) == asset[a].status \in Reclaimable \union {"SWEEPING"} /\ asset[a].expired

(* claimForSweep's subquery, in the statement's snapshot. *)
SelectBatch(s) ==
  /\ sweeper[s].pc = "idle"
  /\ \E ids \in SUBSET {a \in Assets : Eligible(a)} :
       /\ ids # {} /\ Cardinality(ids) <= BatchSize
       /\ sweeper' = [sweeper EXCEPT ![s] =
            [pc |-> "claim", ids |-> ids, half |-> {}]]
  /\ UNCHANGED <<asset, object, url, links, checked, late, crashes>>

(* Defect: an UPDATE by id alone, without repeating the predicate. *)
ClaimsSelected(a) == asset[a].status # "NONE"
(* Each row is rechecked as the UPDATE finds it. *)
Claims(a) == Eligible(a)

Claim(s) ==
  LET won == {a \in sweeper[s].ids : Claims(a)} IN
  /\ sweeper[s].pc = "claim"
  /\ asset' = [a \in Assets |-> IF a \in won THEN Row("SWEEPING") ELSE asset[a]]
  /\ sweeper' = [sweeper EXCEPT ![s] =
       IF won = {} THEN IdleSweep ELSE [pc |-> "drop", ids |-> won, half |-> {}]]
  /\ UNCHANGED <<object, url, links, checked, late, crashes>>

DropObject(a) == object' = [object EXCEPT ![a] = FALSE] /\ UNCHANGED asset
(* deleteClaimed, guarded on SWEEPING. *)
DropRow(a) ==
  /\ asset' = IF asset[a].status = "SWEEPING" THEN [asset EXCEPT ![a] = NoRow] ELSE asset
  /\ UNCHANGED object

(* The object first, its row after. *)
ObjectFirst(step, a) == IF step = "first" THEN DropObject(a) ELSE DropRow(a)

(* One asset of the batch at a time; half holds the one between its two steps. *)
SweepStep(s) ==
  \E a \in sweeper[s].ids :
    /\ sweeper[s].pc = "drop"
    /\ \/ /\ sweeper[s].half = {}
          /\ ObjectFirst("first", a)
          /\ sweeper' = [sweeper EXCEPT ![s].half = {a}]
       \/ /\ sweeper[s].half = {a}
          /\ ObjectFirst("second", a)
          /\ sweeper' = [sweeper EXCEPT ![s] =
               IF @.ids = {a} THEN IdleSweep
               ELSE [pc |-> "drop", ids |-> @.ids \ {a}, half |-> {}]]
    /\ UNCHANGED <<url, links, checked, late, crashes>>

(* A bucket error, a timeout, or the process: what it claimed stays SWEEPING. *)
SweepDies(s) ==
  /\ sweeper[s].pc # "idle" /\ crashes < MaxCrashes
  /\ crashes' = crashes + 1
  /\ sweeper' = [sweeper EXCEPT ![s] = IdleSweep]
  /\ UNCHANGED <<asset, object, url, links, checked, late>>

-----------------------------------------------------------------------------
Next ==
  \/ \E a \in Assets :
       \/ Initiate(a) \/ StartPut(a) \/ LandPut(a) \/ UrlExpires(a)
       \/ CheckUpload(a) \/ MarkReady(a) \/ Expires(a)
       \/ \E p \in Products : Attach(p, a) \/ Detach(p, a)
  \/ \E s \in Sweepers : SelectBatch(s) \/ Claim(s) \/ SweepStep(s) \/ SweepDies(s)

(* Time passes, and the retention scheduler keeps starting passes that end.  *)
Fairness ==
  /\ \A a \in Assets : WF_vars(UrlExpires(a)) /\ WF_vars(Expires(a))
  /\ \A s \in Sweepers : WF_vars(SelectBatch(s) \/ Claim(s) \/ SweepStep(s))

FairSpec == Init /\ [][Next]_vars /\ Fairness

-----------------------------------------------------------------------------
(* storage:verify, the three ways bucket, rows and links can disagree.       *)

OrphanObjects == {a \in Assets : object[a] /\ asset[a].status = "NONE"}
MissingObjects == {a \in Assets : asset[a].status = "ATTACHED" /\ ~object[a]}
DanglingLinks == {l \in links : asset[l[2]].status = "NONE"}

-----------------------------------------------------------------------------
(* Properties.                                                               *)

(* No product ever shows a broken image or silently loses one: an ATTACHED   *)
(* asset has its bytes, a link its ATTACHED asset, whatever confirmation,    *)
(* attach, detach and sweep were under way together (drizzle-media-asset     *)
(* claimForSweep, lockStatus).  Bytes no row points at come only from an     *)
(* upload that landed on a claimed or deleted row: a sweep that dies leaves  *)
(* its row, never its object.                                                *)
ImagesHaveObjects ==
  /\ MissingObjects = {} /\ DanglingLinks = {}
  /\ \A l \in links : asset[l[2]].status = "ATTACHED"
  /\ OrphanObjects \subseteq late

(* Whatever is not on a product is reclaimed in the end, the leftovers of a  *)
(* pass that died too (claimForSweep's stale claims).                        *)
Reclaimed == \A a \in Assets : []<>(asset[a].status \in {"NONE", "ATTACHED"})
=============================================================================
