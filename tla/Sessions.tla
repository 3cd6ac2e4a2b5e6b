-------------------------------- MODULE Sessions --------------------------------
(***************************************************************************)
(* One account of the user-service: its password, its refresh tokens and   *)
(* the session epoch stamped into its access tokens.                       *)
(*                                                                         *)
(* Every write of refresh tokens or credentials runs under an advisory     *)
(* lock on the user, so users do not interact and one is modelled; a       *)
(* transaction under the lock is one action.  What a request read before   *)
(* its transaction is kept in req and may be stale.  Only the bump after a *)
(* reuse runs outside the lock.                                            *)
(*                                                                         *)
(* Access tokens never expire here and a denylisted one stays acceptable,  *)
(* which only makes the promises harder to keep.  How the epoch reaches    *)
(* the services that verify access tokens is in SessionEpoch.              *)
(***************************************************************************)
EXTENDS Integers, FiniteSets

CONSTANTS
  Requests,                  \* concurrent requests
  RefreshTtl, ReuseGrace,
  TokenGrace, RefreshGrace,  \* how long the sweep leaves expired and revoked rows
  MaxTokens, MaxHashes, MaxEpoch, MaxTime, MaxCrashes \* bounds

ASSUME GraceAssumption ==
  /\ RefreshTtl \in Nat \ {0} /\ ReuseGrace \in Nat /\ TokenGrace \in Nat
  /\ RefreshGrace \in Nat /\ ReuseGrace < RefreshGrace

ASSUME SessionBounds == {MaxTokens, MaxHashes, MaxEpoch, MaxTime, MaxCrashes} \subseteq Nat

VARIABLES
  now,
  user,       \* its row: password hash (0: no row) and token_epoch
  row,        \* refresh_tokens, in the order of their insertion
  access,     \* per refresh token: the epoch of the access token issued with it
  req,        \* per request: where it is and what it has read
  stolen,     \* history: families found reused whose epoch bump committed
  crashes

vars == <<now, user, row, access, req, stolen, crashes>>

Tokens == 1 .. MaxTokens
None == -1

Idle == [pc |-> "idle", token |-> 0, saw |-> 0]
NoRow == [family |-> 0, cred |-> 0, expiresAt |-> 0, revokedAt |-> 0, replaced |-> FALSE, swept |-> FALSE]

Issued == {t \in Tokens : row[t].family # 0}
Fresh(t) == t \in Tokens /\ Issued = 1 .. t - 1
There == {t \in Issued : ~row[t].swept}
Live == {t \in There : row[t].revokedAt = 0}
Families == {row[t].family : t \in Issued}
LiveOf(f) == {t \in Live : row[t].family = f}

(* A row; the first of a family lends the family its number. *)
Inserted(f, cred) == [NoRow EXCEPT !.family = f, !.cred = cred, !.expiresAt = now + RefreshTtl]
Revoked(ts) == [t \in Tokens |-> IF t \in ts THEN [row[t] EXCEPT !.revokedAt = now] ELSE row[t]]

Goes(q, pc, token, saw) == req' = [req EXCEPT ![q] = [pc |-> pc, token |-> token, saw |-> saw]]
Ends(q) == req' = [req EXCEPT ![q] = Idle]

-----------------------------------------------------------------------------
(* Registration and login *)

(* The unique email index decides between two; the loser gets a 409. *)
register(q) ==
  /\ req[q].pc = "idle" /\ user.hash = 0
  /\ user' = [user EXCEPT !.hash = 1]
  /\ UNCHANGED <<now, row, access, req, stolen, crashes>>

(* findByEmail and the check of the password: the hash it was checked against is kept. *)
login(q) ==
  /\ req[q].pc = "idle" /\ user.hash # 0
  /\ Goes(q, "login", 0, user.hash)
  /\ UNCHANGED <<now, user, row, access, stolen, crashes>>

\* Defect: the login stores its session without looking at the hash again.
createUnchecked(q, t) ==
  /\ Fresh(t)
  /\ row' = [row EXCEPT ![t] = Inserted(t, req[q].saw)]
  /\ access' = [access EXCEPT ![t] = user.epoch]

create(q, t) ==
  /\ Fresh(t) /\ user.hash = req[q].saw
  /\ row' = [row EXCEPT ![t] = Inserted(t, req[q].saw)]
  /\ access' = [access EXCEPT ![t] = user.epoch]

(* The transaction under the user lock, and the pair signed after it with what it read. *)
issuePair(q) ==
  /\ req[q].pc = "login"
  /\ \/ \E t \in Tokens : create(q, t)
     \/ user.hash # req[q].saw /\ UNCHANGED <<row, access>>
  /\ Ends(q)
  /\ UNCHANGED <<now, user, stolen, crashes>>

-----------------------------------------------------------------------------
(* Refresh and logout *)

rotatable(t) == row[t].revokedAt = 0 /\ ~row[t].replaced /\ now < row[t].expiresAt

(* Whether a successor is minted is decided here. *)
findOwner(q, t) ==
  /\ req[q].pc = "idle" /\ t \in There
  /\ Goes(q, "rotate", t, IF rotatable(t) THEN 1 ELSE 0)
  /\ UNCHANGED <<now, user, row, access, stolen, crashes>>

Replayed(t) == row[t].replaced /\ now - row[t].revokedAt <= ReuseGrace

\* Defect: the rotation trusts what was read before the lock.
RetiredWhenRead(q) == req[q].saw = 0

Retired(q) == LET t == req[q].token IN row[t].revokedAt # 0 \/ row[t].replaced

Successor(t, s) ==
  row' = [row EXCEPT ![s] = Inserted(row[t].family, row[t].cred),
                     ![t].revokedAt = now, ![t].replaced = TRUE]

(* Retired token presented: whatever is still live in its family is revoked. *)
Reuse(q, t) ==
  /\ row' = Revoked(LiveOf(row[t].family))
  /\ IF LiveOf(row[t].family) # {} THEN Goes(q, "bump", t, 0) ELSE Ends(q)
  /\ UNCHANGED access

(* One transaction under the user lock; the access token is signed after it with the epoch it read.   *)
(* A token that was not rotatable when it was looked up is not so later, so one that is has a         *)
(* successor id.                                                                                      *)
rotate(q) ==
  LET t == req[q].token IN
  /\ req[q].pc = "rotate"
  /\ \/ /\ t \notin There \/ Replayed(t)
        /\ Ends(q) /\ UNCHANGED <<row, access>>
     \/ t \in There /\ ~Replayed(t) /\ Retired(q) /\ Reuse(q, t)
     \/ /\ t \in There /\ ~Replayed(t) /\ ~Retired(q) /\ row[t].expiresAt <= now
        /\ row' = Revoked({t})
        /\ Ends(q) /\ UNCHANGED access
     \/ /\ t \in There /\ ~Replayed(t) /\ ~Retired(q) /\ now < row[t].expiresAt /\ req[q].saw = 1
        /\ \E s \in Tokens : /\ Fresh(s) /\ Successor(t, s)
                             /\ access' = [access EXCEPT ![s] = user.epoch]
        /\ Ends(q)
  /\ UNCHANGED <<now, user, stolen, crashes>>

\* Defect: the reuse path forgets the bump.
NotBumped == user.epoch

Bumped == user.epoch + 1

(* The bump after a reuse: its own update, outside the user lock. *)
bump(q) ==
  /\ req[q].pc = "bump" /\ user.epoch < MaxEpoch
  /\ user' = [user EXCEPT !.epoch = Bumped]
  /\ stolen' = stolen \cup {row[req[q].token].family}
  /\ Ends(q)
  /\ UNCHANGED <<now, row, access, crashes>>

revokeFamily(f) == LiveOf(f) # {} /\ row' = Revoked(LiveOf(f))

(* logout, or the end of one session by its id.  The owner and the family read before the lock never *)
(* change.                                                                                           *)
logout(q, t) ==
  /\ req[q].pc = "idle" /\ t \in There
  /\ revokeFamily(row[t].family)
  /\ UNCHANGED <<now, user, access, req, stolen, crashes>>

-----------------------------------------------------------------------------
(* Logout everywhere, password change and password reset *)

(* change-password: findById and the check of the current password. *)
changePassword(q) ==
  /\ req[q].pc = "idle" /\ user.hash # 0
  /\ Goes(q, "change", 0, user.hash)
  /\ UNCHANGED <<now, user, row, access, stolen, crashes>>

(* reset-password: the mailed link was still live and is spent now; the new hash is computed next. *)
reset(q) ==
  /\ req[q].pc = "idle" /\ user.hash # 0
  /\ Goes(q, "reset", 0, 0)
  /\ UNCHANGED <<now, user, row, access, stolen, crashes>>

(* The epoch, the new hash and the revoke commit together. *)
revokeAllForUser(hash) ==
  /\ user.epoch < MaxEpoch /\ hash <= MaxHashes
  /\ user' = [user EXCEPT !.epoch = @ + 1, !.hash = hash]
  /\ row' = Revoked(Live)

revokeAll(q) ==
  /\ req[q].pc = "idle" /\ user.hash # 0
  /\ revokeAllForUser(user.hash)
  /\ UNCHANGED <<now, access, req, stolen, crashes>>

(* A change is refused when the hash it verified has been replaced; a reset never is. *)
replacePassword(q) ==
  /\ req[q].pc \in {"change", "reset"}
  /\ IF req[q].pc = "change" /\ user.hash # req[q].saw
     THEN UNCHANGED <<user, row>>
     ELSE revokeAllForUser(user.hash + 1)
  /\ Ends(q)
  /\ UNCHANGED <<now, access, stolen, crashes>>

-----------------------------------------------------------------------------
(* The sweep, time and crashes *)

Collectable(t) ==
  \/ row[t].revokedAt = 0 /\ row[t].expiresAt < now - TokenGrace
  \/ row[t].revokedAt # 0 /\ row[t].revokedAt < now - RefreshGrace

deleteCollectable ==
  /\ \E t \in There : Collectable(t) /\ row' = [row EXCEPT ![t].swept = TRUE]
  /\ UNCHANGED <<now, user, access, req, stolen, crashes>>

Tick ==
  /\ now < MaxTime
  /\ now' = now + 1
  /\ UNCHANGED <<user, row, access, req, stolen, crashes>>

(* The user-service dies with the requests it has in hand. *)
Crash ==
  /\ crashes < MaxCrashes /\ crashes' = crashes + 1
  /\ req' = [q \in Requests |-> Idle]
  /\ UNCHANGED <<now, user, row, access, stolen>>

-----------------------------------------------------------------------------

Init ==
  /\ now = 1
  /\ user = [hash |-> 0, epoch |-> 0]
  /\ row = [t \in Tokens |-> NoRow]
  /\ access = [t \in Tokens |-> None]
  /\ req = [q \in Requests |-> Idle]
  /\ stolen = {} /\ crashes = 0

(* The routes that open an account or a session, or replace the password... *)
Request(q) ==
  \/ register(q) \/ login(q) \/ issuePair(q)
  \/ changePassword(q) \/ reset(q) \/ replacePassword(q)

(* ...and those that keep or end the sessions there are. *)
SessionRequest(q) ==
  \/ \E t \in Tokens : findOwner(q, t) \/ logout(q, t)
  \/ rotate(q) \/ bump(q) \/ revokeAll(q)

Next ==
  \/ \E q \in Requests : Request(q) \/ SessionRequest(q)
  \/ deleteCollectable \/ Tick \/ Crash

Spec == Init /\ [][Next]_vars

-----------------------------------------------------------------------------

(* "Rotation leaves exactly one live leaf per family": the session list shows a session once, and no  *)
(* two tokens of a session can both be rotated, however many requests present which of them.  And no  *)
(* live token outlives the password its session was opened with, also not one a login stores that     *)
(* verified the old password while it was being replaced.                                             *)
OneLiveLeaf ==
  /\ \A f \in Families : Cardinality(LiveOf(f)) <= 1
  /\ \A t \in Live : row[t].cred = user.hash

(* A session that ended (logout, reuse, a new password, expiry) never gets a live token again,        *)
(* whatever refresh was in flight when it ended.                                                      *)
EndedStaysEnded == [][\A f \in Families : LiveOf(f) = {} => LiveOf(f)' = {}]_vars

(* Once the bump that follows a reuse has committed, no access token of that session, the one the     *)
(* thief rotated out included, is at the current epoch.                                               *)
TheftEndsAccess == \A t \in Issued : row[t].family \in stolen => access[t] < user.epoch

===============================================================================
