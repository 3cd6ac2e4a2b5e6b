----------------------------- MODULE AccountLinks -----------------------------
(***************************************************************************)
(* The mailed links of one address: a signup, the links that verify the    *)
(* address and reset the password, each with its own row, and the requests *)
(* that issue and redeem them.  No transaction spans two statements of a   *)
(* request, and no request waits for its mail.                             *)
(***************************************************************************)
EXTENDS Integers, FiniteSets

CONSTANTS
  LinkRequests,        \* requests of the user-service about this address
  MaxLinks, MaxTime,   \* bounds
  Ttl,                 \* life of a link (auth.emailVerificationTtl, auth.passwordResetTtl)
  Grace                \* how long the sweep keeps a spent row (retention.authTokenGraceDays)

VARIABLES
  account,  \* the row of the address: whether there is one, when it was verified, its password
  links,    \* per link: its row
  mailed,   \* the links that are in the mail box of the address
  linkReq,  \* per request: the statement it runs next, for a link of a kind
  applied,  \* history: per link, how often what it is for was done
  clock

linkVars == <<account, links, mailed, linkReq, applied, clock>>

Kinds == {"verify", "reset"}
Links == 1 .. MaxLinks
Never == -1

NoAccount == [registered |-> 0, verifiedAt |-> Never, password |-> 0]
NoLink == [kind |-> "none", expiresAt |-> 0, consumedAt |-> Never, swept |-> FALSE]
Resting == [pc |-> "idle", kind |-> "none", link |-> 0]

There(l) == links[l].kind # "none" /\ ~links[l].swept
NextLink == Cardinality({l \in Links : links[l].kind # "none"}) + 1

-----------------------------------------------------------------------------
(* Issuing a link *)

IssueNext(q, kind) == linkReq' = [linkReq EXCEPT ![q] = [Resting EXCEPT !.pc = "issue", !.kind = kind]]
Answered(q) == linkReq' = [linkReq EXCEPT ![q] = Resting]

(* The unique index on the address decides between signups: the one that inserts goes on to issue a   *)
(* link, the others conflict.                                                                         *)
execute(q) ==
  /\ linkReq[q] = Resting /\ account.registered = 0
  /\ account' = [account EXCEPT !.registered = 1]
  /\ IssueNext(q, "verify")
  /\ UNCHANGED <<links, mailed, applied, clock>>

resendVerification(q) ==
  /\ linkReq[q] = Resting /\ account.registered = 1 /\ account.verifiedAt = Never
  /\ IssueNext(q, "verify")
  /\ UNCHANGED <<account, links, mailed, applied, clock>>

forgotPassword(q) ==
  /\ linkReq[q] = Resting /\ account.registered = 1
  /\ IssueNext(q, "reset")
  /\ UNCHANGED <<account, links, mailed, applied, clock>>

(* The row is inserted under an id the id-service minted; without one nothing is issued. *)
create(q) ==
  /\ linkReq[q].pc = "issue"
  /\ \/ /\ NextLink \in Links
        /\ links' = [links EXCEPT ![NextLink] =
                       [NoLink EXCEPT !.kind = linkReq[q].kind, !.expiresAt = clock + Ttl]]
        /\ linkReq' = [linkReq EXCEPT ![q].pc = "supersede", ![q].link = NextLink]
     \/ Answered(q) /\ UNCHANGED links
  /\ UNCHANGED <<account, mailed, applied, clock>>

\* Defect: an earlier link keeps working beside the new one.
NoneSuperseded(q) == {}

(* What a new link retires: every unconsumed link of its kind but itself, expired or not. *)
Superseded(q) ==
  {l \in Links : There(l) /\ links[l].kind = linkReq[q].kind /\ links[l].consumedAt = Never
                          /\ l # linkReq[q].link}

(* Only then is the link sent; a mail that cannot be sent is lost. *)
invalidateOthersForUser(q) ==
  /\ linkReq[q].pc = "supersede"
  /\ links' = [l \in Links |-> IF l \in Superseded(q) THEN [links[l] EXCEPT !.consumedAt = clock]
                                                      ELSE links[l]]
  /\ mailed' \in {mailed, mailed \union {linkReq[q].link}}
  /\ Answered(q)
  /\ UNCHANGED <<account, applied, clock>>

-----------------------------------------------------------------------------
(* Redeeming a link *)

(* The guard of the UPDATE that consumes. *)
Redeemable(l) == There(l) /\ links[l].consumedAt = Never /\ clock < links[l].expiresAt

(* A link that is not redeemable is answered 400 and changes nothing. *)
consume(q, l) ==
  /\ linkReq[q] = Resting /\ l \in mailed /\ Redeemable(l)
  /\ links' = [links EXCEPT ![l].consumedAt = clock]
  /\ linkReq' = [linkReq EXCEPT ![q] = [pc |-> "apply", kind |-> links[l].kind, link |-> l]]
  /\ UNCHANGED <<account, mailed, applied, clock>>

Applies(q) == applied' = [applied EXCEPT ![linkReq[q].link] = @ + 1] /\ Answered(q)

(* The first verification keeps its stamp. *)
markEmailVerified(q) ==
  /\ linkReq[q].pc = "apply" /\ linkReq[q].kind = "verify"
  /\ account' = [account EXCEPT !.verifiedAt = IF @ = Never THEN clock ELSE @]
  /\ Applies(q)
  /\ UNCHANGED <<links, mailed, clock>>

reset(q) ==
  /\ linkReq[q].pc = "apply" /\ linkReq[q].kind = "reset"
  /\ account' = [account EXCEPT !.password = linkReq[q].link]
  /\ Applies(q)
  /\ UNCHANGED <<links, mailed, clock>>

-----------------------------------------------------------------------------
(* The sweep, time and a crash *)

Spent(l) == LET cutoff == clock - Grace IN
  There(l) /\ (links[l].expiresAt < cutoff \/ (links[l].consumedAt # Never /\ links[l].consumedAt < cutoff))

deleteSpentBefore ==
  /\ \E l \in Links : Spent(l)
  /\ links' = [l \in Links |-> IF Spent(l) THEN [links[l] EXCEPT !.swept = TRUE] ELSE links[l]]
  /\ UNCHANGED <<account, mailed, linkReq, applied, clock>>

Tick == clock < MaxTime /\ clock' = clock + 1 /\ UNCHANGED <<account, links, mailed, linkReq, applied>>

(* The process dies under a request, between two of its statements. *)
Crash(q) ==
  /\ linkReq[q] # Resting
  /\ Answered(q)
  /\ UNCHANGED <<account, links, mailed, applied, clock>>

-----------------------------------------------------------------------------

Init ==
  /\ account = NoAccount /\ links = [l \in Links |-> NoLink] /\ mailed = {}
  /\ linkReq = [q \in LinkRequests |-> Resting]
  /\ applied = [l \in Links |-> 0] /\ clock = 0

Next ==
  \/ \E q \in LinkRequests :
       \/ execute(q) \/ resendVerification(q) \/ forgotPassword(q) \/ create(q) \/ invalidateOthersForUser(q)
       \/ \E l \in Links : consume(q, l)
       \/ markEmailVerified(q) \/ reset(q) \/ Crash(q)
  \/ deleteSpentBefore \/ Tick

Spec == Init /\ [][Next]_linkVars

-----------------------------------------------------------------------------

(* However requests, crashes and mails interleave, at most one mailed link of a kind works at a time, *)
(* no link does its work twice, and what a link did was proved by a mail: an address is verified and  *)
(* a password replaced only by a link that reached the mail box.                                      *)
LinksHold ==
  /\ \A k \in Kinds : Cardinality({l \in mailed : links[l].kind = k /\ Redeemable(l)}) <= 1
  /\ \A l \in Links : applied[l] <= 1 /\ (applied[l] = 1 => l \in mailed)
  /\ account.verifiedAt # Never => \E l \in mailed : links[l].kind = "verify" /\ applied[l] = 1
===============================================================================
