---------------------------- MODULE SessionsProofs ----------------------------
(***************************************************************************)
(* An account, for any number of requests, tokens and passwords and any    *)
(* lifetimes: its sessions (Sessions), its mailed links (AccountLinks) and *)
(* the layout pin of the processes that serve it (LayoutPin).              *)
(***************************************************************************)
EXTENDS MCSessions, TLAPS, FiniteSetTheorems

RowRecord ==
  [family : Nat, cred : Nat, expiresAt : Nat, revokedAt : Nat, replaced : BOOLEAN, swept : BOOLEAN]

RequestRecord ==
  [pc : {"idle", "login", "rotate", "bump", "change", "reset"}, token : Nat, saw : Nat]

SessionTypes ==
  /\ now \in Nat \ {0}
  /\ user \in [hash : Nat, epoch : Nat]
  /\ row \in [Tokens -> RowRecord]
  /\ access \in [Tokens -> Int]
  /\ req \in [Requests -> RequestRecord]
  /\ stolen \subseteq Nat
  /\ crashes \in Nat

(* No session before the account, and no login of one either. *)
AccountFirst ==
  /\ user.hash = 0 => Issued = {}
  /\ \A q \in Requests : req[q].pc = "login" => req[q].saw # 0

(* A family is named after its first token. *)
FamiliesAreIssued ==
  /\ \A t \in Issued : row[t].family \in Issued
  /\ stolen \subseteq Issued

OneLeafPerFamily == \A s, t \in Live : row[s].family = row[t].family => s = t

UnderThePassword == \A t \in Live : row[t].cred = user.hash

EpochsAreReached == \A t \in Issued : access[t] <= user.epoch

(* A stolen family, and one whose theft is about to be told, has no token left to rotate. *)
TheftFreezes ==
  /\ \A t \in Issued : row[t].family \in stolen => t \notin Live /\ access[t] < user.epoch
  /\ \A q \in Requests : req[q].pc = "bump" =>
       /\ req[q].token \in Issued
       /\ \A t \in Live : row[t].family # row[req[q].token].family

SessionInv ==
  SessionTypes /\ AccountFirst /\ FamiliesAreIssued /\ OneLeafPerFamily /\ UnderThePassword /\ EpochsAreReached /\ TheftFreezes

LEMMA AtMostOne ==
  ASSUME NEW S, \A x, y \in S : x = y
  PROVE  Cardinality(S) <= 1
<1>1. CASE S = {}
  BY <1>1, FS_EmptySet
<1>2. ASSUME NEW x \in S
      PROVE  Cardinality(S) <= 1
  <2>1. S = {x}
    OBVIOUS
  <2> QED
    BY <2>1, FS_Singleton
<1> QED
  BY <1>1, <1>2

-----------------------------------------------------------------------------
(* What the writes of refresh_tokens do to the issued and the live tokens. *)

SameNames(ts) == \A t \in ts : row'[t].family = row[t].family /\ row'[t].cred = row[t].cred

LEMMA InsertOne ==
  ASSUME SessionTypes, NEW t \in Tokens, Fresh(t), NEW f \in Nat \ {0}, NEW c \in Nat,
         row' = [row EXCEPT ![t] = Inserted(f, c)]
  PROVE  /\ row' \in [Tokens -> RowRecord]
         /\ t \notin Issued /\ Issued' = Issued \union {t} /\ Live' = Live \union {t}
         /\ row'[t].family = f /\ row'[t].cred = c /\ SameNames(Tokens \ {t})
<1> DEFINE r == Inserted(f, c)
<1>0. now + RefreshTtl \in Nat
  BY GraceAssumption DEF SessionTypes
<1>1. /\ r \in RowRecord
      /\ r.family = f /\ r.cred = c /\ r.revokedAt = 0 /\ r.swept = FALSE
  BY <1>0 DEF Inserted, NoRow, RowRecord
<1>2. row' = [row EXCEPT ![t] = r]
  OBVIOUS
<1> HIDE DEF r
<1>3. row' \in [Tokens -> RowRecord]
  BY <1>1, <1>2 DEF SessionTypes
<1>4. row'[t] = r /\ \A x \in Tokens \ {t} : row'[x] = row[x]
  BY <1>2 DEF SessionTypes
<1>5. t \notin Issued
  BY SessionBounds DEF Fresh, Tokens
<1>6. Issued' = Issued \union {t} /\ Live' = Live \union {t}
  BY <1>1, <1>4 DEF Issued, There, Live
<1> QED
  BY <1>1, <1>3, <1>4, <1>5, <1>6 DEF SameNames

LEMMA RevokeSome ==
  ASSUME SessionTypes, NEW ts \in SUBSET Live, row' = Revoked(ts)
  PROVE  /\ row' \in [Tokens -> RowRecord]
         /\ Issued' = Issued /\ Live' = Live \ ts /\ SameNames(Tokens)
<1>1. now \in Nat /\ now # 0
  BY DEF SessionTypes
<1>2. \A t \in Tokens : /\ row'[t] \in RowRecord
                        /\ row'[t].family = row[t].family /\ row'[t].cred = row[t].cred
                        /\ row'[t].swept = row[t].swept
                        /\ row'[t].revokedAt = IF t \in ts THEN now ELSE row[t].revokedAt
  BY <1>1 DEF SessionTypes, Revoked, RowRecord
<1>3. row' \in [Tokens -> RowRecord]
  BY <1>2 DEF Revoked
<1>4. Issued' = Issued
  BY <1>2 DEF Issued
<1>5. Live' = Live \ ts
  BY <1>1, <1>2, <1>4 DEF Live, There, Issued
<1> QED
  BY <1>2, <1>3, <1>4, <1>5 DEF SameNames

LEMMA ReplaceOne ==
  ASSUME SessionTypes, NEW t \in Live, NEW s \in Tokens, Fresh(s), Successor(t, s)
  PROVE  /\ row' \in [Tokens -> RowRecord]
         /\ s \notin Issued /\ Issued' = Issued \union {s} /\ Live' = (Live \ {t}) \union {s}
         /\ row'[s].family = row[t].family /\ row'[s].cred = row[t].cred /\ SameNames(Tokens \ {s})
<1> DEFINE r == Inserted(row[t].family, row[t].cred)
           u == [row[t] EXCEPT !.revokedAt = now, !.replaced = TRUE]
<1>1. t \in Tokens /\ t \in Issued /\ row[t] \in RowRecord /\ row[t].family # 0
  BY DEF Live, There, Issued, SessionTypes
<1>2. s \notin Issued
  BY SessionBounds DEF Fresh, Tokens
<1>3. now \in Nat /\ now # 0 /\ now + RefreshTtl \in Nat
  BY GraceAssumption DEF SessionTypes
<1>4. /\ r \in RowRecord
      /\ r.family = row[t].family /\ r.cred = row[t].cred /\ r.revokedAt = 0 /\ r.swept = FALSE
  BY <1>1, <1>3 DEF Inserted, NoRow, RowRecord
<1>5. /\ u \in RowRecord
      /\ u.family = row[t].family /\ u.cred = row[t].cred /\ u.revokedAt = now /\ u.swept = row[t].swept
  BY <1>1, <1>3 DEF RowRecord
<1>6. row' = [row EXCEPT ![s] = r, ![t] = u]
  BY <1>1, <1>2 DEF Successor, SessionTypes
<1> HIDE DEF r, u
<1>7. row' \in [Tokens -> RowRecord]
  BY <1>1, <1>4, <1>5, <1>6 DEF SessionTypes
<1>8. row'[s] = r /\ row'[t] = u /\ \A x \in Tokens \ {s, t} : row'[x] = row[x]
  BY <1>1, <1>2, <1>6 DEF SessionTypes
<1>9. Issued' = Issued \union {s}
  BY <1>1, <1>4, <1>5, <1>8 DEF Issued
<1>10. Live' = (Live \ {t}) \union {s}
  BY <1>1, <1>2, <1>3, <1>4, <1>5, <1>8 DEF Live, There, Issued
<1> QED
  BY <1>1, <1>2, <1>4, <1>5, <1>7, <1>8, <1>9, <1>10 DEF SameNames

LEMMA SweepOne ==
  ASSUME SessionTypes, deleteCollectable
  PROVE  /\ row' \in [Tokens -> RowRecord]
         /\ Issued' = Issued /\ Live' \subseteq Live /\ SameNames(Tokens)
<1>1. PICK t \in There : row' = [row EXCEPT ![t].swept = TRUE]
  BY DEF deleteCollectable
<1>2. t \in Tokens
  BY DEF There, Issued
<1>3. \A x \in Tokens : /\ row'[x] \in RowRecord
                        /\ row'[x].family = row[x].family /\ row'[x].cred = row[x].cred
                        /\ row'[x].revokedAt = row[x].revokedAt
                        /\ row[x].swept => row'[x].swept
  BY <1>1, <1>2 DEF SessionTypes, RowRecord
<1>4. row' \in [Tokens -> RowRecord]
  BY <1>1, <1>3 DEF SessionTypes
<1>5. Issued' = Issued
  BY <1>3 DEF Issued
<1>6. Live' \subseteq Live
  BY <1>3 DEF Live, There, Issued
<1> QED
  BY <1>3, <1>4, <1>5, <1>6 DEF SameNames

-----------------------------------------------------------------------------
(* Sessions: one step per kind of request. *)

LEMMA RequestsTyped ==
  ASSUME SessionTypes, NEW q \in Requests,
         NEW pc \in {"idle", "login", "rotate", "bump", "change", "reset"}, NEW t \in Nat, NEW saw \in Nat,
         Goes(q, pc, t, saw)
  PROVE  /\ req' \in [Requests -> RequestRecord]
         /\ req'[q].pc = pc /\ req'[q].token = t /\ req'[q].saw = saw
         /\ \A x \in Requests \ {q} : req'[x] = req[x]
  BY DEF SessionTypes, RequestRecord, Goes

LEMMA EndsTyped ==
  ASSUME SessionTypes, NEW q \in Requests, Ends(q)
  PROVE  /\ req' \in [Requests -> RequestRecord]
         /\ req'[q].pc = "idle" /\ \A x \in Requests \ {q} : req'[x] = req[x]
  BY DEF SessionTypes, RequestRecord, Ends, Idle

(* Neither a reuse to be told nor a login of an account that does not exist. *)
Harmless(q) == req'[q].pc # "bump" /\ (req'[q].pc = "login" => req'[q].saw # 0)

(* A step that starts or drops requests and touches no row. *)
LEMMA RowsKept ==
  ASSUME SessionInv, UNCHANGED <<user, row, access, stolen>>, SessionTypes',
         \A q \in Requests : req'[q] = req[q] \/ Harmless(q)
  PROVE  SessionInv'
<1>1. Issued' = Issued /\ Live' = Live
  BY DEF Issued, Live, There
<1> QED
  BY <1>1 DEF Harmless, SessionInv, AccountFirst, FamiliesAreIssued, OneLeafPerFamily, UnderThePassword, EpochsAreReached, TheftFreezes

(* A step that ends sessions, at an epoch that is the same or the next. *)
LEMMA RowsEnded ==
  ASSUME SessionInv, SessionTypes', UNCHANGED <<access, stolen>>,
         Issued' = Issued, Live' \subseteq Live, SameNames(Tokens),
         user'.epoch >= user.epoch, user'.hash = user.hash \/ (user'.hash # 0 /\ Live' = {}),
         \A q \in Requests : \/ req'[q] = req[q] \/ Harmless(q)
                             \/ /\ req'[q].pc = "bump" /\ req'[q].token \in Issued
                                /\ \A t \in Live' : row[t].family # row[req'[q].token].family
  PROVE  SessionInv'
<1>1. Live' \subseteq Issued /\ Issued \subseteq Tokens
  BY DEF Live, There, Issued
<1>2. user.epoch \in Nat /\ user'.epoch \in Nat /\ \A t \in Tokens : access[t] \in Int
  BY DEF SessionInv, SessionTypes
<1>a. AccountFirst'
  BY DEF Harmless, SessionInv, AccountFirst
<1>3. FamiliesAreIssued'
  BY <1>1 DEF SessionInv, FamiliesAreIssued, SameNames
<1>4. OneLeafPerFamily'
  BY <1>1 DEF SessionInv, OneLeafPerFamily, SameNames
<1>5. UnderThePassword'
  BY <1>1 DEF SessionInv, UnderThePassword, SameNames
<1>6. EpochsAreReached'
  BY <1>1, <1>2 DEF SessionInv, EpochsAreReached
<1>7. TheftFreezes'
  <2>1. \A t \in Issued' : row'[t].family \in stolen' => t \notin Live' /\ access'[t] < user'.epoch
    BY <1>1, <1>2 DEF SessionInv, TheftFreezes, SameNames
  <2>2. ASSUME NEW q \in Requests, req'[q].pc = "bump"
        PROVE  /\ req'[q].token \in Issued
               /\ \A t \in Live' : row'[t].family # row'[req'[q].token].family
    BY <1>1, <2>2 DEF Harmless, SessionInv, TheftFreezes, SameNames
  <2> QED
    BY <2>1, <2>2 DEF TheftFreezes
<1> QED
  BY <1>a, <1>3, <1>4, <1>5, <1>6, <1>7 DEF SessionInv

(* A step that stores a new token, of a new family or in place of the live token of its family. *)
LEMMA RowsExtended ==
  ASSUME SessionInv, SessionTypes', UNCHANGED <<user, stolen>>,
         NEW s \in Tokens, s \notin Issued, Issued' = Issued \union {s}, SameNames(Tokens \ {s}),
         Live' \subseteq Live \union {s}, user.hash # 0, row'[s].cred = user.hash, row'[s].family \in Issued',
         \A t \in Live' : row'[t].family = row'[s].family => t = s,
         row'[s].family \notin stolen,
         \A q \in Requests : req[q].pc = "bump" => row'[s].family # row[req[q].token].family,
         \A t \in Tokens : access'[t] = IF t = s THEN user.epoch ELSE access[t],
         \A q \in Requests : req'[q] = req[q] \/ Harmless(q)
  PROVE  SessionInv'
<1>1. Live \subseteq Issued /\ Issued \subseteq Tokens /\ Live' \subseteq Issued'
  BY DEF Live, There, Issued
<1>2. user.epoch \in Nat /\ \A t \in Tokens : access[t] \in Int
  BY DEF SessionInv, SessionTypes
<1>a. AccountFirst'
  BY DEF Harmless, SessionInv, AccountFirst
<1>3. FamiliesAreIssued'
  BY <1>1 DEF SessionInv, FamiliesAreIssued, SameNames
<1>4. OneLeafPerFamily'
  BY <1>1 DEF SessionInv, OneLeafPerFamily, SameNames
<1>5. UnderThePassword'
  BY <1>1 DEF SessionInv, UnderThePassword, SameNames
<1>6. EpochsAreReached'
  BY <1>1, <1>2 DEF SessionInv, EpochsAreReached
<1>7. TheftFreezes'
  <2>1. \A t \in Issued' : row'[t].family \in stolen' => t \notin Live' /\ access'[t] < user'.epoch
    BY <1>1, <1>2 DEF SessionInv, TheftFreezes, SameNames
  <2>2. ASSUME NEW q \in Requests, req'[q].pc = "bump"
        PROVE  /\ req'[q].token \in Issued'
               /\ \A t \in Live' : row'[t].family # row'[req'[q].token].family
    BY <1>1, <2>2 DEF Harmless, SessionInv, TheftFreezes, SameNames
  <2> QED
    BY <2>1, <2>2 DEF TheftFreezes
<1> QED
  BY <1>a, <1>3, <1>4, <1>5, <1>6, <1>7 DEF SessionInv

LEMMA IssueKeeps ==
  ASSUME SessionInv, NEW q \in Requests, issuePair(q)
  PROVE  SessionInv'
<1>1. SessionTypes
  BY DEF SessionInv
<1>2. /\ req' \in [Requests -> RequestRecord]
      /\ req'[q].pc = "idle" /\ \A x \in Requests \ {q} : req'[x] = req[x]
  BY <1>1, EndsTyped DEF issuePair
<1>3. CASE UNCHANGED <<row, access>>
  BY <1>1, <1>2, <1>3, RowsKept DEF issuePair, SessionTypes, Harmless
<1>4. ASSUME NEW t \in Tokens, create(q, t)
      PROVE  SessionInv'
  <2>1. t \in Nat \ {0} /\ req[q].saw \in Nat
    BY <1>1, SessionBounds DEF SessionTypes, RequestRecord, Tokens
  <2>0. user.hash # 0
    BY <1>4 DEF SessionInv, AccountFirst, create, issuePair
  <2>2. /\ row' \in [Tokens -> RowRecord]
        /\ t \notin Issued /\ Issued' = Issued \union {t} /\ Live' = Live \union {t}
        /\ row'[t].family = t /\ row'[t].cred = user.hash /\ SameNames(Tokens \ {t})
    BY <1>1, <1>4, <2>1, InsertOne DEF create
  <2>3. SessionTypes'
    BY <1>1, <1>2, <1>4, <2>2 DEF SessionTypes, create, issuePair
  <2>4. \A x \in Tokens : access'[x] = IF x = t THEN user.epoch ELSE access[x]
    BY <1>1, <1>4 DEF create, SessionTypes
  <2>5. Live \subseteq Issued /\ Issued \subseteq Tokens
    BY DEF Live, There, Issued
  <2>6. /\ t \notin stolen
        /\ \A x \in Requests : req[x].pc = "bump" => t # row[req[x].token].family
        /\ \A x \in Live' : row'[x].family = t => x = t
    BY <2>2, <2>5 DEF SessionInv, FamiliesAreIssued, TheftFreezes, SameNames
  <2> QED
    BY <1>2, <2>0, <2>2, <2>3, <2>4, <2>6, RowsExtended DEF issuePair, Harmless
<1> QED
  BY <1>3, <1>4 DEF issuePair

LEMMA RotateKeeps ==
  ASSUME SessionInv, NEW q \in Requests, rotate(q)
  PROVE  SessionInv'
<1> DEFINE t == req[q].token
<1>1. SessionTypes /\ t \in Nat
  BY DEF SessionInv, SessionTypes, RequestRecord
<1>2. Ends(q) => /\ req' \in [Requests -> RequestRecord]
                 /\ req'[q].pc = "idle" /\ \A x \in Requests \ {q} : req'[x] = req[x]
  BY <1>1, EndsTyped
<1>3. Live \subseteq Issued /\ Issued \subseteq Tokens /\ There \subseteq Issued
  BY DEF Live, There, Issued
<1>u. UNCHANGED <<now, user, stolen, crashes>>
  BY DEF rotate
<1>4. CASE Ends(q) /\ UNCHANGED <<row, access>>
  BY <1>1, <1>2, <1>4, <1>u, RowsKept DEF SessionTypes, Harmless
<1>5. CASE t \in There /\ Reuse(q, t)
  <2>1. LiveOf(row[t].family) \subseteq Live
    BY DEF LiveOf
  <2>2. /\ row' \in [Tokens -> RowRecord]
        /\ Issued' = Issued /\ Live' = Live \ LiveOf(row[t].family) /\ SameNames(Tokens)
    BY <1>1, <1>5, <2>1, RevokeSome DEF Reuse
  <2>3. Goes(q, "bump", t, 0) => /\ req' \in [Requests -> RequestRecord]
                                 /\ req'[q].pc = "bump" /\ req'[q].token = t
                                 /\ \A x \in Requests \ {q} : req'[x] = req[x]
    BY <1>1, RequestsTyped
  <2>4. Ends(q) \/ Goes(q, "bump", t, 0)
    BY <1>5 DEF Reuse
  <2>5. SessionTypes' /\ UNCHANGED <<access, user, stolen>>
    BY <1>1, <1>2, <1>5, <1>u, <2>2, <2>3, <2>4 DEF SessionTypes, Reuse
  <2>6. \A x \in Live' : row[x].family # row[t].family
    BY <2>2 DEF LiveOf
  <2>7. user.epoch \in Nat
    BY <1>1 DEF SessionTypes
  <2>8. \A x \in Requests : \/ req'[x] = req[x] \/ Harmless(x)
                            \/ /\ req'[x].pc = "bump" /\ req'[x].token \in Issued
                               /\ \A y \in Live' : row[y].family # row[req'[x].token].family
    BY <1>2, <1>3, <1>5, <2>3, <2>4, <2>6 DEF Harmless
  <2> QED
    BY <2>2, <2>5, <2>7, <2>8, RowsEnded
<1>6. CASE t \in There /\ ~Retired(q) /\ row' = Revoked({t}) /\ Ends(q) /\ UNCHANGED access
  <2>1. t \in Live
    BY <1>6 DEF Retired, Live
  <2>2. /\ row' \in [Tokens -> RowRecord]
        /\ Issued' = Issued /\ Live' = Live \ {t} /\ SameNames(Tokens)
    BY <1>1, <1>6, <2>1, RevokeSome
  <2>3. SessionTypes' /\ user.epoch \in Nat
    BY <1>1, <1>2, <1>6, <1>u, <2>2 DEF SessionTypes
  <2> QED
    BY <1>2, <1>6, <1>u, <2>2, <2>3, RowsEnded DEF Harmless
<1>7. ASSUME t \in There, ~Retired(q), Ends(q),
             NEW s \in Tokens, Fresh(s), Successor(t, s), access' = [access EXCEPT ![s] = user.epoch]
      PROVE  SessionInv'
  <2>1. t \in Live
    BY <1>7 DEF Retired, Live
  <2>2. /\ row' \in [Tokens -> RowRecord]
        /\ s \notin Issued /\ Issued' = Issued \union {s} /\ Live' = (Live \ {t}) \union {s}
        /\ row'[s].family = row[t].family /\ row'[s].cred = row[t].cred /\ SameNames(Tokens \ {s})
    BY <1>1, <1>7, <2>1, ReplaceOne
  <2>3. SessionTypes'
    <3>1. user.epoch \in Nat /\ access' \in [Tokens -> Int]
      BY <1>1, <1>7 DEF SessionTypes
    <3> QED
      BY <1>1, <1>2, <1>7, <1>u, <2>2, <3>1 DEF SessionTypes
  <2>4. \A x \in Tokens : access'[x] = IF x = s THEN user.epoch ELSE access[x]
    BY <1>1, <1>7 DEF SessionTypes
  <2>5. user.hash # 0 /\ row'[s].cred = user.hash /\ row'[s].family \in Issued'
    BY <1>3, <2>1, <2>2 DEF SessionInv, AccountFirst, UnderThePassword, FamiliesAreIssued
  <2>6. \A x \in Live' : row'[x].family = row'[s].family => x = s
    BY <1>3, <2>1, <2>2 DEF SessionInv, OneLeafPerFamily, SameNames
  <2>7. /\ row'[s].family \notin stolen
        /\ \A x \in Requests : req[x].pc = "bump" => row'[s].family # row[req[x].token].family
    BY <1>3, <2>1, <2>2 DEF SessionInv, TheftFreezes
  <2> QED
    BY <1>2, <1>7, <1>u, <2>2, <2>3, <2>4, <2>5, <2>6, <2>7, RowsExtended DEF Harmless
<1> QED
  BY <1>4, <1>5, <1>6, <1>7 DEF rotate

LEMMA BumpKeeps ==
  ASSUME SessionInv, NEW q \in Requests, bump(q)
  PROVE  SessionInv'
<1> DEFINE f == row[req[q].token].family
<1>1. SessionTypes /\ Ends(q) /\ UNCHANGED <<now, row, access, crashes>>
  BY DEF SessionInv, bump
<1>2. /\ req' \in [Requests -> RequestRecord]
      /\ req'[q].pc = "idle" /\ \A x \in Requests \ {q} : req'[x] = req[x]
  BY <1>1, EndsTyped
<1>3. /\ user' \in [hash : Nat, epoch : Nat]
      /\ user'.hash = user.hash /\ user'.epoch = user.epoch + 1 /\ user.epoch \in Nat
  BY <1>1 DEF bump, Bumped, SessionTypes
<1>4. Live \subseteq Issued /\ Issued \subseteq Tokens /\ Issued' = Issued /\ Live' = Live
  BY <1>1 DEF Live, There, Issued
<1>5. /\ req[q].token \in Issued /\ f \in Issued /\ stolen' = stolen \union {f}
      /\ \A t \in Live : row[t].family # f
  BY DEF SessionInv, TheftFreezes, FamiliesAreIssued, bump
<1>6. SessionTypes'
  <2>1. Tokens \subseteq Nat
    BY SessionBounds DEF Tokens
  <2>2. stolen' \subseteq Nat
    BY <1>1, <1>4, <1>5, <2>1 DEF SessionTypes
  <2> QED
    BY <1>1, <1>2, <1>3, <2>2 DEF SessionTypes
<1>7. AccountFirst' /\ FamiliesAreIssued' /\ OneLeafPerFamily' /\ UnderThePassword'
  BY <1>1, <1>2, <1>3, <1>4, <1>5
     DEF SessionInv, AccountFirst, FamiliesAreIssued, OneLeafPerFamily, UnderThePassword
<1>8. EpochsAreReached'
  BY <1>1, <1>3, <1>4 DEF SessionInv, SessionTypes, EpochsAreReached
<1>9. TheftFreezes'
  <2>1. \A t \in Issued' : row'[t].family \in stolen' => t \notin Live' /\ access'[t] < user'.epoch
    BY <1>1, <1>3, <1>4, <1>5 DEF SessionInv, SessionTypes, EpochsAreReached, TheftFreezes
  <2>2. ASSUME NEW x \in Requests, req'[x].pc = "bump"
        PROVE  /\ req'[x].token \in Issued'
               /\ \A t \in Live' : row'[t].family # row'[req'[x].token].family
    BY <1>1, <1>2, <1>4, <2>2 DEF SessionInv, TheftFreezes
  <2> QED
    BY <2>1, <2>2 DEF TheftFreezes
<1> QED
  BY <1>6, <1>7, <1>8, <1>9 DEF SessionInv

(* Every live token is revoked with the epoch raised and the password replaced, in one commit. *)
LEMMA RevokeAllKeeps ==
  ASSUME SessionInv, NEW hash \in Nat \ {0}, revokeAllForUser(hash), UNCHANGED <<now, access, stolen, crashes>>,
         req' \in [Requests -> RequestRecord],
         \A q \in Requests : req'[q] = req[q] \/ Harmless(q)
  PROVE  SessionInv'
<1>1. SessionTypes
  BY DEF SessionInv
<1>2. /\ row' \in [Tokens -> RowRecord]
      /\ Issued' = Issued /\ Live' = {} /\ SameNames(Tokens)
  BY <1>1, RevokeSome DEF revokeAllForUser
<1>3. user' \in [hash : Nat, epoch : Nat] /\ user'.epoch >= user.epoch /\ user'.hash # 0
  <2>1. user \in [hash : Nat, epoch : Nat] /\ user' = [user EXCEPT !.epoch = @ + 1, !.hash = hash]
    BY <1>1 DEF revokeAllForUser, SessionTypes
  <2>2. user.epoch \in Nat /\ user'.epoch = user.epoch + 1 /\ user'.hash = hash
    BY <2>1
  <2>3. user' = [hash |-> hash, epoch |-> user.epoch + 1]
    BY <2>1
  <2>4. user.epoch + 1 \in Nat /\ user.epoch + 1 >= user.epoch
    BY <2>2
  <2>5. user' \in [hash : Nat, epoch : Nat]
    BY <2>3, <2>4
  <2> QED
    BY <2>2, <2>4, <2>5
<1>4. SessionTypes'
  BY <1>1, <1>2, <1>3 DEF SessionTypes
<1> QED
  BY <1>2, <1>3, <1>4, RowsEnded

LEMMA LogoutKeeps ==
  ASSUME SessionInv, NEW q \in Requests, NEW t \in Tokens, logout(q, t)
  PROVE  SessionInv'
<1>1. SessionTypes /\ UNCHANGED <<now, user, access, req, stolen, crashes>>
  BY DEF SessionInv, logout
<1>2. LiveOf(row[t].family) \subseteq Live
  BY DEF LiveOf
<1>3. /\ row' \in [Tokens -> RowRecord]
      /\ Issued' = Issued /\ Live' \subseteq Live /\ SameNames(Tokens)
  BY <1>1, <1>2, RevokeSome DEF logout, revokeFamily
<1>4. SessionTypes' /\ user.epoch \in Nat
  BY <1>1, <1>3 DEF SessionTypes
<1> QED
  BY <1>1, <1>3, <1>4, RowsEnded

LEMMA ReplacePasswordKeeps ==
  ASSUME SessionInv, NEW q \in Requests, replacePassword(q)
  PROVE  SessionInv'
<1>1. SessionTypes /\ UNCHANGED <<now, access, stolen, crashes>> /\ Ends(q)
  BY DEF SessionInv, replacePassword
<1>2. /\ req' \in [Requests -> RequestRecord]
      /\ req'[q].pc = "idle" /\ \A x \in Requests \ {q} : req'[x] = req[x]
  BY <1>1, EndsTyped
<1>3. CASE UNCHANGED <<user, row>>
  BY <1>1, <1>2, <1>3, RowsKept DEF SessionTypes, Harmless
<1>4. CASE revokeAllForUser(user.hash + 1)
  <2>1. user.hash + 1 \in Nat \ {0}
    BY <1>1 DEF SessionTypes
  <2> QED
    BY <1>1, <1>2, <1>4, <2>1, RevokeAllKeeps DEF Harmless
<1> QED
  BY <1>3, <1>4 DEF replacePassword

LEMMA OtherRequestsKeep ==
  ASSUME SessionInv, NEW q \in Requests,
         register(q) \/ login(q) \/ changePassword(q) \/ reset(q) \/ \E t \in Tokens : findOwner(q, t)
  PROVE  SessionInv'
<1>1. SessionTypes
  BY DEF SessionInv
<1>2. CASE register(q)
  <2>1. user \in [hash : Nat, epoch : Nat] /\ user' = [user EXCEPT !.hash = 1] /\ user.hash = 0
    BY <1>1, <1>2 DEF register, SessionTypes
  <2>2. UNCHANGED <<now, row, access, req, stolen, crashes>>
    BY <1>2 DEF register
  <2>3. Issued = {} /\ Live = {} /\ Issued' = {} /\ Live' = {}
    BY <2>1, <2>2 DEF SessionInv, AccountFirst, Issued, Live, There
  <2>4. SessionTypes' /\ user'.hash # 0 /\ user'.epoch = user.epoch /\ user.epoch \in Nat
    BY <1>1, <2>1, <2>2 DEF SessionTypes
  <2> QED
    BY <2>2, <2>3, <2>4, RowsEnded DEF SameNames
<1>3. ASSUME NEW t \in Tokens, findOwner(q, t)
      PROVE  SessionInv'
  <2>1. t \in Nat /\ (IF rotatable(t) THEN 1 ELSE 0) \in Nat
    BY SessionBounds DEF Tokens
  <2>2. /\ req' \in [Requests -> RequestRecord]
        /\ req'[q].pc = "rotate" /\ \A x \in Requests \ {q} : req'[x] = req[x]
    BY <1>1, <1>3, <2>1, RequestsTyped DEF findOwner
  <2> QED
    BY <1>1, <1>3, <2>2, RowsKept DEF findOwner, SessionTypes, Harmless
<1>4. CASE login(q) \/ changePassword(q) \/ reset(q)
  <2>1. 0 \in Nat /\ user.hash \in Nat
    BY <1>1 DEF SessionTypes
  <2>2. /\ req' \in [Requests -> RequestRecord]
        /\ Harmless(q) /\ \A x \in Requests \ {q} : req'[x] = req[x]
    BY <1>1, <1>4, <2>1, RequestsTyped DEF login, changePassword, reset, Harmless
  <2> QED
    BY <1>1, <1>4, <2>2, RowsKept DEF login, changePassword, reset, SessionTypes
<1> QED
  BY <1>2, <1>3, <1>4

LEMMA SessionInvStep ==
  ASSUME SessionInv, [Next]_vars
  PROVE  SessionInv'
<1>1. SessionTypes
  BY DEF SessionInv
<1>2. ASSUME NEW q \in Requests, Request(q)
      PROVE  SessionInv'
  BY <1>2, IssueKeeps, ReplacePasswordKeeps, OtherRequestsKeep DEF Request
<1>3. ASSUME NEW q \in Requests, SessionRequest(q)
      PROVE  SessionInv'
  <2>1. CASE revokeAll(q)
    <3>1. user.hash \in Nat \ {0} /\ req' \in [Requests -> RequestRecord]
      BY <1>1, <2>1 DEF revokeAll, SessionTypes
    <3> QED
      BY <2>1, <3>1, RevokeAllKeeps DEF revokeAll
  <2> QED
    BY <1>3, <2>1, RotateKeeps, BumpKeeps, LogoutKeeps, OtherRequestsKeep DEF SessionRequest
<1>4. CASE deleteCollectable
  <2>1. UNCHANGED <<now, user, access, req, stolen, crashes>>
    BY <1>4 DEF deleteCollectable
  <2>2. SessionTypes' /\ user.epoch \in Nat
    BY <1>1, <1>4, <2>1, SweepOne DEF SessionTypes
  <2> QED
    BY <1>1, <1>4, <2>1, <2>2, SweepOne, RowsEnded
<1>5. CASE Tick
  BY <1>1, <1>5, RowsKept DEF Tick, SessionTypes
<1>6. CASE Crash
  <2>1. req' \in [Requests -> RequestRecord] /\ \A q \in Requests : Harmless(q)
    BY <1>6 DEF Crash, Idle, RequestRecord, Harmless
  <2> QED
    BY <1>1, <1>6, <2>1, RowsKept DEF Crash, SessionTypes
<1>7. CASE UNCHANGED vars
  BY <1>1, <1>7, RowsKept DEF vars, SessionTypes
<1> QED
  BY <1>2, <1>3, <1>4, <1>5, <1>6, <1>7 DEF Next

LEMMA SessionInvInit ==
  Init => SessionInv
<1> SUFFICES ASSUME Init
             PROVE  SessionInv
  OBVIOUS
<1>1. Issued = {} /\ Live = {}
  BY DEF Init, NoRow, Issued, Live, There
<1>2. SessionTypes
  BY DEF Init, SessionTypes, NoRow, Idle, None, RowRecord, RequestRecord
<1>3. \A q \in Requests : req[q].pc = "idle"
  BY DEF Init, Idle
<1> QED
  BY <1>1, <1>2, <1>3
     DEF Init, SessionInv, AccountFirst, FamiliesAreIssued, OneLeafPerFamily, UnderThePassword,
         EpochsAreReached, TheftFreezes

(* The invariant of refresh_tokens and the requests about them (drizzle-refresh-token.repository.ts). *)
THEOREM SessionsAreConsistent == Spec => []SessionInv
<1> QED
  BY SessionInvInit, SessionInvStep, PTL DEF Spec

(* Rotation leaves at most one live leaf per family, under the current password, whatever is presented *)
(* concurrently.                                                                                      *)
THEOREM OneLiveLeafHolds == Spec => []OneLiveLeaf
<1>1. SessionInv => OneLiveLeaf
  <2> SUFFICES ASSUME SessionInv, NEW f \in Families
               PROVE  Cardinality(LiveOf(f)) <= 1
    BY DEF OneLiveLeaf, SessionInv, UnderThePassword
  <2>1. \A s, t \in LiveOf(f) : s = t
    BY DEF SessionInv, OneLeafPerFamily, LiveOf
  <2> QED
    BY <2>1, AtMostOne
<1> QED
  BY <1>1, SessionsAreConsistent, PTL

(* Once the bump that follows a reuse has committed, no access token of the stolen session is current. *)
THEOREM TheftAlwaysEndsAccess == Spec => []TheftEndsAccess
<1>1. SessionInv => TheftEndsAccess
  BY DEF SessionInv, TheftFreezes, TheftEndsAccess
<1> QED
  BY <1>1, SessionsAreConsistent, PTL

(* What a step does to the live tokens: it ends some, or adds one of a new session or of a live one. *)
TokensStep ==
  \/ Live' \subseteq Live /\ SameNames(Tokens)
  \/ \E s \in Tokens :
       /\ s \notin Issued /\ Live' \subseteq Live \union {s} /\ SameNames(Tokens \ {s})
       /\ row'[s].family = s \/ \E t \in Live : row'[s].family = row[t].family

LEMMA NextIsTokensStep ==
  ASSUME SessionInv, [Next]_vars
  PROVE  TokensStep
<1>1. SessionTypes
  BY DEF SessionInv
<1>2. ASSUME UNCHANGED row
      PROVE  TokensStep
  BY <1>2 DEF TokensStep, SameNames, Live, There, Issued
<1>3. ASSUME NEW ts \in SUBSET Live, row' = Revoked(ts)
      PROVE  TokensStep
  BY <1>1, <1>3, RevokeSome DEF TokensStep
<1>4. ASSUME NEW q \in Requests, NEW t \in Tokens, create(q, t)
      PROVE  TokensStep
  <2>1. t \in Nat \ {0} /\ req[q].saw \in Nat
    BY <1>1, SessionBounds DEF SessionTypes, RequestRecord, Tokens
  <2>2. t \notin Issued /\ Live' = Live \union {t} /\ row'[t].family = t /\ SameNames(Tokens \ {t})
    BY <1>1, <1>4, <2>1, InsertOne DEF create
  <2> QED
    BY <2>2 DEF TokensStep
<1>5. ASSUME NEW q \in Requests, rotate(q)
      PROVE  TokensStep
  <2> DEFINE t == req[q].token
  <2>1. CASE t \in There /\ ~Retired(q)
    <3>1. t \in Live
      BY <2>1 DEF Retired, Live
    <3>2. ASSUME NEW s \in Tokens, Fresh(s), Successor(t, s)
          PROVE  TokensStep
      <4>1. /\ s \notin Issued /\ Live' = (Live \ {t}) \union {s}
            /\ row'[s].family = row[t].family /\ SameNames(Tokens \ {s})
        BY <1>1, <3>1, <3>2, ReplaceOne
      <4> QED
        BY <3>1, <4>1 DEF TokensStep
    <3>3. CASE row' = Revoked({t})
      BY <1>3, <3>1, <3>3
    <3> QED
      BY <1>2, <1>5, <2>1, <3>2, <3>3 DEF rotate
  <2>2. CASE Reuse(q, t)
    <3>1. LiveOf(row[t].family) \subseteq Live
      BY DEF LiveOf
    <3> QED
      BY <1>3, <2>2, <3>1 DEF Reuse
  <2> QED
    BY <1>2, <1>5, <2>1, <2>2 DEF rotate
<1>6. ASSUME NEW q \in Requests, Request(q)
      PROVE  TokensStep
  <2>1. CASE issuePair(q)
    BY <1>2, <1>4, <2>1 DEF issuePair
  <2>2. CASE replacePassword(q)
    BY <1>2, <1>3, <2>2 DEF replacePassword, revokeAllForUser
  <2> QED
    BY <1>2, <1>6, <2>1, <2>2 DEF Request, register, login, changePassword, reset
<1>7. ASSUME NEW q \in Requests, SessionRequest(q)
      PROVE  TokensStep
  <2>1. CASE revokeAll(q)
    BY <1>3, <2>1 DEF revokeAll, revokeAllForUser
  <2>2. ASSUME NEW t \in Tokens, logout(q, t)
        PROVE  TokensStep
    <3>1. LiveOf(row[t].family) \subseteq Live
      BY DEF LiveOf
    <3> QED
      BY <1>3, <2>2, <3>1 DEF logout, revokeFamily
  <2>3. CASE bump(q) \/ \E t \in Tokens : findOwner(q, t)
    BY <1>2, <2>3 DEF bump, findOwner
  <2> QED
    BY <1>5, <1>7, <2>1, <2>2, <2>3 DEF SessionRequest
<1>8. CASE deleteCollectable
  BY <1>1, <1>8, SweepOne DEF TokensStep
<1>9. CASE Tick \/ Crash \/ UNCHANGED vars
  BY <1>2, <1>9 DEF Tick, Crash, vars
<1> QED
  BY <1>6, <1>7, <1>8, <1>9 DEF Next

(* A session that ended never gets a live token again, whatever refresh was in flight when it ended. *)
THEOREM SessionsStayEnded == Spec => EndedStaysEnded
<1>1. ASSUME SessionInv, [Next]_vars, NEW f \in Families, LiveOf(f) = {}
      PROVE  LiveOf(f)' = {}
  <2>1. \A t \in Live : t \in Issued /\ t \in Tokens /\ row[t].family # f
    BY <1>1 DEF LiveOf, Live, There, Issued
  <2>2. TokensStep
    BY <1>1, NextIsTokensStep
  <2>3. f \in Issued
    BY <1>1 DEF Families, SessionInv, FamiliesAreIssued
  <2>4. \A t \in Live' : row'[t].family # f
    BY <2>1, <2>2, <2>3 DEF TokensStep, SameNames
  <2> QED
    BY <2>4 DEF LiveOf
<1>2. SessionInv /\ [Next]_vars => [\A f \in Families : LiveOf(f) = {} => LiveOf(f)' = {}]_vars
  BY <1>1
<1> QED
  BY <1>2, SessionsAreConsistent, PTL DEF Spec, EndedStaysEnded

-----------------------------------------------------------------------------
(* LayoutPin *)

PinTypes ==
  /\ pin \in Layouts \union {Pin!NoPin}
  /\ minted \subseteq Layouts
  /\ build \in [Processes -> [layout : Layouts, pinBootstrap : BOOLEAN]]
  /\ boot \in [Processes -> {"read", "users", "pin", "reread", "serving", "refused"}]
  /\ unverified \in BOOLEAN

(* Only a process that knows the pin serves, and the pin a loser reads again is there. *)
PinIsKnown ==
  /\ \A p \in Processes : boot[p] = "reread" => pin # Pin!NoPin
  /\ ~unverified => /\ minted \subseteq {pin}
                    /\ pin = Pin!NoPin => minted = {}
                    /\ \A p \in Processes : boot[p] = "serving" => pin = build[p].layout

PinInv == PinTypes /\ PinIsKnown

LEMMA PinInvStep ==
  ASSUME PinInv, [Pin!Next]_pinVars
  PROVE  PinInv'
<1>0. Pin!NoPin = 0 /\ 0 \notin Layouts
  BY LayoutsArePositive DEF Pin!NoPin
<1>1. ASSUME NEW p \in Processes, Pin!readPin(p)
      PROVE  PinInv'
  BY <1>0, <1>1 DEF PinInv, PinTypes, PinIsKnown, Pin!readPin, Pin!assertLayoutMatches, Pin!ServesUnverified, Pin!Goes
<1>2. ASSUME NEW p \in Processes, Pin!holdsUsers(p)
      PROVE  PinInv'
  BY <1>0, <1>2 DEF PinInv, PinTypes, PinIsKnown, Pin!holdsUsers, Pin!ServesUnverified, Pin!Goes
<1>3. ASSUME NEW p \in Processes, Pin!bootstrapPin(p)
      PROVE  PinInv'
  BY <1>0, <1>3 DEF PinInv, PinTypes, PinIsKnown, Pin!bootstrapPin, Pin!LosesTheRace, Pin!Goes
<1>4. ASSUME NEW p \in Processes, Pin!rereadPin(p)
      PROVE  PinInv'
  BY <1>0, <1>4 DEF PinInv, PinTypes, PinIsKnown, Pin!rereadPin, Pin!assertLayoutMatches, Pin!ServesUnverified, Pin!Goes
<1>5. ASSUME NEW p \in Processes, Pin!register(p)
      PROVE  PinInv'
  BY <1>0, <1>5 DEF PinInv, PinTypes, PinIsKnown, Pin!register
<1>6. ASSUME NEW p \in Processes, Pin!Restart(p)
      PROVE  PinInv'
  BY <1>0, <1>6 DEF PinInv, PinTypes, PinIsKnown, Pin!Restart, Pin!Goes
<1>7. CASE UNCHANGED pinVars
  BY <1>7 DEF PinInv, PinTypes, PinIsKnown, pinVars
<1> QED
  BY <1>1, <1>2, <1>3, <1>4, <1>5, <1>6, <1>7 DEF Pin!Next

(* However first boots of different builds race, every user is minted under the pinned layout, unless *)
(* a process was let through unverified (identity-key.guard.ts).                                      *)
THEOREM PinAlwaysHolds == Pin!Init /\ [][Pin!Next]_pinVars => []PinHolds
<1>1. Pin!Init => PinInv
  BY DEF Pin!Init, Pin!NoPin, PinInv, PinTypes, PinIsKnown
<1>2. PinInv /\ [Pin!Next]_pinVars => PinInv'
  BY PinInvStep
<1>3. PinInv => PinHolds
  BY DEF PinInv, PinIsKnown, PinHolds, Pin!PinHolds
<1> QED
  BY <1>1, <1>2, <1>3, PTL

-----------------------------------------------------------------------------
(* AccountLinks *)

LinkRecord ==
  [kind : Link!Kinds \union {"none"}, expiresAt : Nat, consumedAt : Nat \union {Link!Never}, swept : BOOLEAN]

LinkRequestRecord ==
  [pc : {"idle", "issue", "supersede", "apply"}, kind : Link!Kinds \union {"none"}, link : Nat]

LinkTypes ==
  /\ account \in [registered : {0, 1}, verifiedAt : Nat \union {Link!Never}, password : Nat]
  /\ links \in [Link!Links -> LinkRecord]
  /\ linkReq \in [Requests -> LinkRequestRecord]
  /\ applied \in [Link!Links -> Nat]
  /\ clock \in Nat

Made == {l \in Link!Links : links[l].kind # "none"}
Consumed(l) == links[l].consumedAt # Link!Never

LinksInOrder == \E n \in 0 .. MaxLinks : Made = 1 .. n

(* A link is mailed after the earlier ones of its kind were retired. *)
OneWorks ==
  /\ mailed \subseteq Made
  /\ \A l, m \in mailed :
       Link!There(l) /\ ~Consumed(l) /\ Link!There(m) /\ ~Consumed(m) /\ links[l].kind = links[m].kind => l = m

(* A request carries a link of its kind, and one that applies a link consumed it first, alone. *)
RequestsCarry ==
  /\ \A q \in Requests :
       /\ linkReq[q].pc = "issue" => linkReq[q].kind \in Link!Kinds
       /\ linkReq[q].pc \in {"supersede", "apply"} =>
            /\ linkReq[q].link \in Made /\ links[linkReq[q].link].kind = linkReq[q].kind
       /\ linkReq[q].pc = "apply" =>
            /\ linkReq[q].link \in mailed /\ Consumed(linkReq[q].link) /\ applied[linkReq[q].link] = 0
  /\ \A q, r \in Requests :
       linkReq[q].pc = "apply" /\ linkReq[r].pc = "apply" /\ linkReq[q].link = linkReq[r].link => q = r

AppliedWhenConsumed ==
  \A l \in Link!Links : applied[l] # 0 => applied[l] = 1 /\ l \in mailed /\ Consumed(l)

VerifiedByMail ==
  account.verifiedAt # Link!Never => \E l \in mailed : links[l].kind = "verify" /\ applied[l] = 1

LinkInv == LinkTypes /\ LinksInOrder /\ OneWorks /\ RequestsCarry /\ AppliedWhenConsumed /\ VerifiedByMail

(* The rows of the links stay, consumed ones consumed and swept ones swept. *)
Aged(l) ==
  /\ links'[l] \in LinkRecord
  /\ links'[l].kind = links[l].kind
  /\ Consumed(l) => links'[l].consumedAt # Link!Never
  /\ links[l].swept => links'[l].swept

LEMMA LinksAge ==
  ASSUME LinkInv, LinkTypes', \A l \in Link!Links : Aged(l), UNCHANGED mailed
  PROVE  LinksInOrder' /\ OneWorks'
<1>1. Made' = Made /\ Made \subseteq Link!Links
  BY DEF Made, Aged
<1>2. LinksInOrder'
  BY <1>1 DEF LinkInv, LinksInOrder
<1>3. OneWorks'
  BY <1>1 DEF LinkInv, OneWorks, Aged, Consumed, Link!There
<1> QED
  BY <1>2, <1>3

(* The next link has the number after the ones there are. *)
LEMMA NextLinkIsNew ==
  ASSUME LinkInv, NEW k \in Link!Kinds, Link!NextLink \in Link!Links,
         NEW r \in LinkRecord, r.kind = k, links' = [links EXCEPT ![Link!NextLink] = r]
  PROVE  /\ Link!NextLink \notin Made /\ Made' = Made \union {Link!NextLink}
         /\ LinksInOrder'
         /\ \A l \in Link!Links \ {Link!NextLink} : links'[l] = links[l]
         /\ links' \in [Link!Links -> LinkRecord] /\ links'[Link!NextLink].kind = k
<1>1. PICK n \in 0 .. MaxLinks : Made = 1 .. n
  BY DEF LinkInv, LinksInOrder
<1>2. n \in Nat /\ MaxLinks \in Nat
  BY LinkBounds
<1>3. Cardinality(Made) = n
  BY <1>1, <1>2, FS_Interval
<1>4. Link!NextLink = n + 1
  BY <1>2, <1>3 DEF Link!NextLink, Made, Link!Cardinality, Cardinality
<1>5. k # "none"
  BY DEF Link!Kinds
<1>6. /\ links' \in [Link!Links -> LinkRecord] /\ links'[n + 1].kind = k
      /\ \A l \in Link!Links \ {n + 1} : links'[l] = links[l]
  BY <1>4 DEF LinkInv, LinkTypes
<1>7. Made' = Made \union {n + 1}
  BY <1>4, <1>5, <1>6 DEF Made
<1>8. Made' = 1 .. n + 1 /\ n + 1 \in 0 .. MaxLinks /\ n + 1 \notin Made
  BY <1>1, <1>2, <1>4, <1>7 DEF Link!Links
<1>9. LinksInOrder'
  BY <1>8 DEF LinksInOrder
<1> QED
  BY <1>4, <1>6, <1>7, <1>8, <1>9

LEMMA LinkRequestsTyped ==
  ASSUME LinkTypes, NEW q \in Requests, NEW r \in LinkRequestRecord, linkReq' = [linkReq EXCEPT ![q] = r]
  PROVE  /\ linkReq' \in [Requests -> LinkRequestRecord]
         /\ linkReq'[q] = r /\ \A x \in Requests \ {q} : linkReq'[x] = linkReq[x]
  BY DEF LinkTypes

LEMMA AnsweredTyped ==
  ASSUME LinkTypes, NEW q \in Requests, Link!Answered(q)
  PROVE  /\ linkReq' \in [Requests -> LinkRequestRecord]
         /\ linkReq'[q].pc = "idle" /\ \A x \in Requests \ {q} : linkReq'[x] = linkReq[x]
<1>1. Link!Resting \in LinkRequestRecord /\ Link!Resting.pc = "idle"
  BY DEF Link!Resting, LinkRequestRecord
<1> QED
  BY <1>1, LinkRequestsTyped DEF Link!Answered

(* A step that answers or drops requests and applies no link. *)
LEMMA LinkRequestsDropped ==
  ASSUME LinkInv, LinkTypes', \A l \in Link!Links : Aged(l), UNCHANGED <<mailed, applied>>,
         account'.verifiedAt = account.verifiedAt,
         \A q \in Requests : \/ linkReq'[q] = linkReq[q] \/ linkReq'[q].pc = "idle"
                             \/ linkReq'[q].pc = "issue" /\ linkReq'[q].kind \in Link!Kinds
  PROVE  LinkInv'
<1>1. Made' = Made /\ Made \subseteq Link!Links /\ mailed \subseteq Link!Links
  BY DEF Made, Aged, LinkInv, OneWorks
<1>2. RequestsCarry'
  BY <1>1 DEF LinkInv, RequestsCarry, Aged, Consumed
<1>3. AppliedWhenConsumed' /\ VerifiedByMail'
  BY <1>1 DEF LinkInv, AppliedWhenConsumed, VerifiedByMail, Aged, Consumed
<1> QED
  BY <1>2, <1>3, LinksAge DEF LinkInv

LEMMA LinksSame ==
  ASSUME LinkTypes, UNCHANGED links
  PROVE  \A l \in Link!Links : Aged(l)
  BY DEF LinkTypes, Aged, Consumed

LEMMA IssueRequestsKeep ==
  ASSUME LinkInv, NEW q \in Requests,
         Link!execute(q) \/ Link!resendVerification(q) \/ Link!forgotPassword(q) \/ Link!Crash(q)
  PROVE  LinkInv'
<1>1. LinkTypes /\ UNCHANGED <<links, mailed, applied, clock>>
  BY DEF LinkInv, Link!execute, Link!resendVerification, Link!forgotPassword, Link!Crash
<1>2. ASSUME NEW k \in Link!Kinds, Link!IssueNext(q, k)
      PROVE  /\ linkReq' \in [Requests -> LinkRequestRecord]
             /\ linkReq'[q].pc = "issue" /\ linkReq'[q].kind \in Link!Kinds
             /\ \A x \in Requests \ {q} : linkReq'[x] = linkReq[x]
  <2> DEFINE r == [Link!Resting EXCEPT !.pc = "issue", !.kind = k]
  <2>1. r \in LinkRequestRecord /\ r.pc = "issue" /\ r.kind = k
    BY DEF Link!Resting, LinkRequestRecord
  <2>2. linkReq' = [linkReq EXCEPT ![q] = r]
    BY <1>2 DEF Link!IssueNext
  <2> HIDE DEF r
  <2> QED
    BY <1>1, <2>1, <2>2, LinkRequestsTyped
<1>3. "verify" \in Link!Kinds /\ "reset" \in Link!Kinds
  BY DEF Link!Kinds
<1>4. /\ linkReq' \in [Requests -> LinkRequestRecord]
      /\ linkReq'[q].pc = "idle" \/ (linkReq'[q].pc = "issue" /\ linkReq'[q].kind \in Link!Kinds)
      /\ \A x \in Requests \ {q} : linkReq'[x] = linkReq[x]
  BY <1>1, <1>2, <1>3, AnsweredTyped
     DEF Link!execute, Link!resendVerification, Link!forgotPassword, Link!Crash
<1>5. /\ account' \in [registered : {0, 1}, verifiedAt : Nat \union {Link!Never}, password : Nat]
      /\ account'.verifiedAt = account.verifiedAt
  BY <1>1 DEF LinkTypes, Link!execute, Link!resendVerification, Link!forgotPassword, Link!Crash
<1>6. LinkTypes'
  BY <1>1, <1>4, <1>5 DEF LinkTypes
<1> QED
  BY <1>1, <1>4, <1>5, <1>6, LinksSame, LinkRequestsDropped

LEMMA CreateKeeps ==
  ASSUME LinkInv, NEW q \in Requests, Link!create(q)
  PROVE  LinkInv'
<1>1. LinkTypes /\ UNCHANGED <<account, mailed, applied, clock>> /\ linkReq[q].pc = "issue"
  BY DEF LinkInv, Link!create
<1>2. CASE Link!Answered(q) /\ UNCHANGED links
  <2>1. LinkTypes'
    BY <1>1, <1>2, AnsweredTyped DEF LinkTypes
  <2> QED
    BY <1>1, <1>2, <2>1, AnsweredTyped, LinksSame, LinkRequestsDropped
<1>3. CASE /\ Link!NextLink \in Link!Links
           /\ links' = [links EXCEPT ![Link!NextLink] =
                          [Link!NoLink EXCEPT !.kind = linkReq[q].kind, !.expiresAt = clock + LinkTtl]]
           /\ linkReq' = [linkReq EXCEPT ![q].pc = "supersede", ![q].link = Link!NextLink]
  <2> DEFINE n == Link!NextLink
             k == linkReq[q].kind
             r == [Link!NoLink EXCEPT !.kind = linkReq[q].kind, !.expiresAt = clock + LinkTtl]
             s == [linkReq[q] EXCEPT !.pc = "supersede", !.link = n]
  <2>1. k \in Link!Kinds /\ linkReq[q] \in LinkRequestRecord /\ clock + LinkTtl \in Nat
    BY <1>1, LinkBounds DEF LinkInv, RequestsCarry, LinkTypes
  <2>2. r \in LinkRecord /\ r.kind = k
    BY <2>1 DEF Link!NoLink, LinkRecord
  <2>3. links' = [links EXCEPT ![n] = r] /\ n \in Link!Links
    BY <1>3
  <2>4. n \in Nat
    BY <2>3, LinkBounds DEF Link!Links
  <2>5. s \in LinkRequestRecord /\ s.pc = "supersede" /\ s.kind = k /\ s.link = n
    BY <2>1, <2>4 DEF LinkRequestRecord
  <2>6. linkReq' = [linkReq EXCEPT ![q] = s]
    BY <1>1, <1>3 DEF LinkTypes
  <2> HIDE DEF s
  <2>7. /\ linkReq' \in [Requests -> LinkRequestRecord]
        /\ linkReq'[q].pc = "supersede" /\ linkReq'[q].kind = k /\ linkReq'[q].link = n
        /\ \A x \in Requests \ {q} : linkReq'[x] = linkReq[x]
    BY <1>1, <2>5, <2>6, LinkRequestsTyped
  <2> HIDE DEF r, k, n
  <2>9. /\ n \notin Made /\ Made' = Made \union {n} /\ LinksInOrder'
        /\ \A l \in Link!Links \ {n} : links'[l] = links[l]
        /\ links' \in [Link!Links -> LinkRecord] /\ links'[n].kind = k
    BY <2>1, <2>2, <2>3, NextLinkIsNew DEF n
  <2>10. mailed \subseteq Made /\ Made \subseteq Link!Links
    BY DEF LinkInv, OneWorks, Made
  <2>11. LinkTypes'
    BY <1>1, <2>7, <2>9 DEF LinkTypes
  <2>12. OneWorks'
    BY <1>1, <2>9, <2>10 DEF LinkInv, OneWorks, Consumed, Link!There
  <2>13. RequestsCarry'
    BY <1>1, <2>7, <2>9, <2>10 DEF LinkInv, RequestsCarry, Consumed
  <2>14. AppliedWhenConsumed' /\ VerifiedByMail'
    BY <1>1, <2>9, <2>10 DEF LinkInv, AppliedWhenConsumed, VerifiedByMail, Consumed
  <2> QED
    BY <2>9, <2>11, <2>12, <2>13, <2>14 DEF LinkInv
<1> QED
  BY <1>2, <1>3 DEF Link!create

LEMMA InvalidateKeeps ==
  ASSUME LinkInv, NEW q \in Requests, Link!invalidateOthersForUser(q)
  PROVE  LinkInv'
<1> DEFINE n == linkReq[q].link
<1>1. /\ LinkTypes /\ UNCHANGED <<account, applied, clock>>
      /\ Link!Answered(q) /\ mailed' \in {mailed, mailed \union {n}}
      /\ n \in Made /\ links[n].kind = linkReq[q].kind
  BY DEF LinkInv, RequestsCarry, Link!invalidateOthersForUser
<1>2. /\ linkReq' \in [Requests -> LinkRequestRecord]
      /\ linkReq'[q].pc = "idle" /\ \A x \in Requests \ {q} : linkReq'[x] = linkReq[x]
  BY <1>1, AnsweredTyped
<1>3. clock \in Nat /\ clock # Link!Never
  BY <1>1 DEF LinkTypes, Link!Never
<1>4. links' = [l \in Link!Links |-> IF l \in Link!Superseded(q) THEN [links[l] EXCEPT !.consumedAt = clock]
                                                                 ELSE links[l]]
  BY DEF Link!invalidateOthersForUser
<1>5. \A l \in Link!Links : Aged(l) /\ links'[l].swept = links[l].swept
  BY <1>1, <1>3, <1>4 DEF LinkTypes, LinkRecord, Aged, Consumed
<1>6. \A l \in Link!Superseded(q) : links'[l].consumedAt # Link!Never
  BY <1>1, <1>3, <1>4 DEF Link!Superseded, LinkTypes, LinkRecord
<1>7. links' \in [Link!Links -> LinkRecord]
  BY <1>4, <1>5 DEF Aged
<1>8. LinkTypes' /\ Made' = Made /\ mailed \subseteq Made /\ mailed' \subseteq Made /\ Made \subseteq Link!Links
  BY <1>1, <1>2, <1>5, <1>7 DEF LinkTypes, Made, Aged, LinkInv, OneWorks
<1>9. LinksInOrder'
  BY <1>8 DEF LinkInv, LinksInOrder
<1>10. OneWorks'
  <2>1. ASSUME NEW l \in mailed', Link!There(l)', ~Consumed(l)', links'[l].kind = links[n].kind
        PROVE  l = n
    <3>1. l \in Link!Links /\ Link!There(l) /\ ~Consumed(l) /\ links[l].kind = linkReq[q].kind
      BY <1>1, <1>5, <1>8, <2>1 DEF Aged, Consumed, Link!There
    <3> QED
      BY <1>6, <2>1, <3>1 DEF Link!Superseded, Consumed
  <2>2. ASSUME NEW l \in mailed', NEW m \in mailed',
               Link!There(l)', ~Consumed(l)', Link!There(m)', ~Consumed(m)', links'[l].kind = links'[m].kind
        PROVE  l = m
    <3>1. CASE l \in mailed /\ m \in mailed
      BY <1>5, <1>8, <2>2, <3>1 DEF LinkInv, OneWorks, Aged, Consumed, Link!There
    <3>2. CASE l = n \/ m = n
      BY <1>5, <1>8, <2>1, <2>2, <3>2 DEF Aged
    <3> QED
      BY <1>1, <3>1, <3>2
  <2> QED
    BY <1>8, <2>2 DEF OneWorks
<1>11. RequestsCarry'
  BY <1>1, <1>2, <1>5, <1>8 DEF LinkInv, RequestsCarry, Aged, Consumed
<1>12. AppliedWhenConsumed' /\ VerifiedByMail'
  BY <1>1, <1>5, <1>8 DEF LinkInv, AppliedWhenConsumed, VerifiedByMail, Aged, Consumed
<1> QED
  BY <1>8, <1>9, <1>10, <1>11, <1>12 DEF LinkInv

LEMMA ConsumeKeeps ==
  ASSUME LinkInv, NEW q \in Requests, NEW l \in Link!Links, Link!consume(q, l)
  PROVE  LinkInv'
<1> DEFINE r == [pc |-> "apply", kind |-> links[l].kind, link |-> l]
<1>1. /\ LinkTypes /\ UNCHANGED <<account, mailed, applied, clock>>
      /\ l \in mailed /\ ~Consumed(l) /\ links' = [links EXCEPT ![l].consumedAt = clock]
      /\ linkReq' = [linkReq EXCEPT ![q] = r]
  BY DEF LinkInv, Link!consume, Link!Redeemable, Consumed
<1>2. /\ clock \in Nat /\ clock # Link!Never
      /\ mailed \subseteq Made /\ Made \subseteq Link!Links /\ Link!Links \subseteq Nat
  BY <1>1, LinkBounds DEF LinkTypes, Link!Never, LinkInv, OneWorks, Made, Link!Links
<1>3. r \in LinkRequestRecord
  BY <1>1, <1>2 DEF LinkTypes, LinkRecord, LinkRequestRecord
<1>4. /\ linkReq' \in [Requests -> LinkRequestRecord]
      /\ linkReq'[q] = r /\ \A x \in Requests \ {q} : linkReq'[x] = linkReq[x]
  BY <1>1, <1>3, LinkRequestsTyped
<1>5. links' \in [Link!Links -> LinkRecord] /\ links'[l].consumedAt # Link!Never /\ \A m \in Link!Links : Aged(m)
  BY <1>1, <1>2 DEF LinkTypes, LinkRecord, Aged, Consumed
<1>6. LinkTypes' /\ Made' = Made
  BY <1>1, <1>4, <1>5 DEF LinkTypes, Made, Aged
<1>7. LinksInOrder' /\ OneWorks'
  BY <1>1, <1>5, <1>6, LinksAge
<1>8. applied[l] = 0 /\ \A x \in Requests : linkReq[x].pc = "apply" => linkReq[x].link # l
  BY <1>1 DEF LinkInv, AppliedWhenConsumed, RequestsCarry
<1>9. RequestsCarry'
  BY <1>1, <1>2, <1>4, <1>5, <1>6, <1>8 DEF LinkInv, RequestsCarry, Aged, Consumed
<1>10. AppliedWhenConsumed' /\ VerifiedByMail'
  BY <1>1, <1>2, <1>5 DEF LinkInv, AppliedWhenConsumed, VerifiedByMail, Aged, Consumed
<1> QED
  BY <1>6, <1>7, <1>9, <1>10 DEF LinkInv

(* What the link is for is done once: the row was consumed before, by this request alone. *)
LEMMA AppliesKeeps ==
  ASSUME LinkInv, NEW q \in Requests, Link!markEmailVerified(q) \/ Link!reset(q)
  PROVE  LinkInv'
<1> DEFINE n == linkReq[q].link
<1>1. /\ LinkTypes /\ UNCHANGED <<links, mailed, clock>>
      /\ Link!Answered(q) /\ applied' = [applied EXCEPT ![n] = @ + 1]
      /\ linkReq[q].pc = "apply"
  BY DEF LinkInv, Link!markEmailVerified, Link!reset, Link!Applies
<1>2. /\ n \in Made /\ n \in mailed /\ Consumed(n) /\ applied[n] = 0 /\ links[n].kind = linkReq[q].kind
      /\ Made \subseteq Link!Links /\ n \in Nat
  BY <1>1 DEF LinkInv, RequestsCarry, Made, LinkTypes, LinkRequestRecord
<1>3. /\ linkReq' \in [Requests -> LinkRequestRecord]
      /\ linkReq'[q].pc = "idle" /\ \A x \in Requests \ {q} : linkReq'[x] = linkReq[x]
  BY <1>1, AnsweredTyped
<1>4. applied' \in [Link!Links -> Nat] /\ \A l \in Link!Links : applied'[l] = IF l = n THEN 1 ELSE applied[l]
  BY <1>1, <1>2 DEF LinkTypes
<1>5. account' \in [registered : {0, 1}, verifiedAt : Nat \union {Link!Never}, password : Nat]
  BY <1>1, <1>2 DEF LinkTypes, Link!markEmailVerified, Link!reset
<1>6. LinkTypes' /\ Made' = Made /\ mailed \subseteq Link!Links
  BY <1>1, <1>2, <1>3, <1>4, <1>5 DEF LinkTypes, Made, LinkInv, OneWorks
<1>7. LinksInOrder' /\ OneWorks'
  BY <1>1, <1>6, LinksSame, LinksAge
<1>8. RequestsCarry'
  BY <1>1, <1>2, <1>3, <1>4, <1>6 DEF LinkInv, RequestsCarry, Consumed
<1>9. AppliedWhenConsumed'
  BY <1>1, <1>2, <1>4 DEF LinkInv, AppliedWhenConsumed, Consumed
<1>10. VerifiedByMail'
  <2>1. CASE Link!markEmailVerified(q)
    BY <1>1, <1>2, <1>4, <2>1 DEF VerifiedByMail, Link!markEmailVerified
  <2>2. CASE Link!reset(q)
    <3>1. account'.verifiedAt = account.verifiedAt
      BY <1>1, <2>2 DEF LinkTypes, Link!reset
    <3>2. \A l \in mailed : applied[l] = 1 => applied'[l] = 1
      BY <1>4, <1>6
    <3> QED
      BY <1>1, <3>1, <3>2 DEF LinkInv, VerifiedByMail
  <2> QED
    BY <2>1, <2>2
<1> QED
  BY <1>6, <1>7, <1>8, <1>9, <1>10 DEF LinkInv

LEMMA LinkInvStep ==
  ASSUME LinkInv, [Link!Next]_(Link!linkVars)
  PROVE  LinkInv'
<1>1. LinkTypes
  BY DEF LinkInv
<1>2. CASE Link!deleteSpentBefore
  <2>1. /\ UNCHANGED <<account, mailed, linkReq, applied, clock>>
        /\ links' = [l \in Link!Links |-> IF Link!Spent(l) THEN [links[l] EXCEPT !.swept = TRUE] ELSE links[l]]
    BY <1>2 DEF Link!deleteSpentBefore
  <2>2. \A l \in Link!Links : Aged(l)
    BY <1>1, <2>1 DEF LinkTypes, LinkRecord, Aged, Consumed
  <2>3. links' \in [Link!Links -> LinkRecord]
    BY <2>1, <2>2 DEF Aged
  <2>4. LinkTypes'
    BY <1>1, <2>1, <2>3 DEF LinkTypes
  <2> QED
    BY <2>1, <2>2, <2>4, LinkRequestsDropped
<1>3. CASE Link!Tick \/ UNCHANGED Link!linkVars
  <2>1. UNCHANGED <<account, links, mailed, linkReq, applied>> /\ LinkTypes'
    BY <1>1, <1>3 DEF LinkTypes, Link!Tick, Link!linkVars
  <2> QED
    BY <1>1, <2>1, LinksSame, LinkRequestsDropped
<1> QED
  BY <1>2, <1>3, IssueRequestsKeep, CreateKeeps, InvalidateKeeps, ConsumeKeeps, AppliesKeeps DEF Link!Next

LEMMA LinkInvInit ==
  Link!Init => LinkInv
<1> SUFFICES ASSUME Link!Init
             PROVE  LinkInv
  OBVIOUS
<1>1. LinkTypes
  BY DEF Link!Init, Link!NoAccount, Link!NoLink, Link!Resting, LinkTypes, LinkRecord, LinkRequestRecord
<1>2. Made = {} /\ \A q \in Requests : linkReq[q].pc = "idle"
  BY DEF Link!Init, Link!NoLink, Link!Resting, Made
<1>3. 0 \in 0 .. MaxLinks /\ {} = 1 .. 0
  BY LinkBounds
<1> QED
  BY <1>1, <1>2, <1>3
     DEF Link!Init, Link!NoAccount, LinkInv, LinksInOrder, OneWorks, RequestsCarry, AppliedWhenConsumed, VerifiedByMail

(* Of the mailed links of a kind at most one works, none does its work twice, and an address is       *)
(* verified only by a link that reached its mail box.                                                 *)
THEOREM LinksAlwaysHold == Link!Spec => []LinksHold
<1>1. LinkInv => LinksHold
  <2> SUFFICES ASSUME LinkInv
               PROVE  Link!LinksHold
    BY DEF LinksHold
  <2>1. ASSUME NEW k \in Link!Kinds
        PROVE  Cardinality({l \in mailed : links[l].kind = k /\ Link!Redeemable(l)}) <= 1
    <3>1. \A l, m \in {x \in mailed : links[x].kind = k /\ Link!Redeemable(x)} : l = m
      BY DEF LinkInv, OneWorks, Link!Redeemable, Consumed
    <3> QED
      BY <3>1, AtMostOne
  <2>2. \A l \in Link!Links : applied[l] <= 1 /\ (applied[l] = 1 => l \in mailed)
    BY DEF LinkInv, LinkTypes, AppliedWhenConsumed
  <2>3. account.verifiedAt # Link!Never => \E l \in mailed : links[l].kind = "verify" /\ applied[l] = 1
    BY DEF LinkInv, VerifiedByMail
  <2> QED
    BY <2>1, <2>2, <2>3 DEF Link!LinksHold, Link!Cardinality, Cardinality
<1> QED
  BY <1>1, LinkInvInit, LinkInvStep, PTL DEF Link!Spec
===============================================================================
