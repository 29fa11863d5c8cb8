---------------------------- MODULE SingleUseProofs ----------------------------
(***************************************************************************)
(* Proofs about the protocols that let one thing be used once: the key of  *)
(* a command (Idempotency), the credential of a provider (ProviderToken),  *)
(* codes and tokens (McpOAuth), the version of a tab that its user saw     *)
(* (TabCheckout), for any number of requests.  They share no state; each   *)
(* has its invariant, and the theorem that follows from it.                *)
(***************************************************************************)
EXTENDS McpOAuth, ProviderToken, Idempotency, TabCheckout, FiniteSetTheorems, SequenceTheorems, TLAPS

(* Sets of which all elements are equal.                                   *)
LEMMA AtMostOne ==
  ASSUME NEW S, IsFiniteSet(S), \A x, y \in S : x = y
  PROVE  Cardinality(S) <= 1
  <1>1. CASE S = {}
    BY <1>1, FS_EmptySet
  <1>2. CASE S # {}
    <2>1. PICK x \in S : TRUE
      BY <1>2
    <2>2. S = {x}
      BY <2>1
    <2> QED
      BY <2>2, FS_Singleton
  <1> QED
    BY <1>1, <1>2

----------------------------------------------------------------------------
(* Idempotency.                                                            *)

KeyRows ==
  record \in [status : {"none", "PENDING", "COMPLETED", "FAILED"},
              hash : {BodyOf[c] : c \in Commands} \cup {NoAnswer},
              answer : Commands \cup {NoAnswer}, live : BOOLEAN]

(* Whoever passed the comparison of contents sent the one that is stored,  *)
(* and a stored answer is an effect of that content.                       *)
OneContent ==
  /\ \A c \in Commands : command[c].at \in {"reclaim", "run", "complete", "fail"} => record.hash = BodyOf[c]
  /\ \A c \in Commands : command[c].at \in {"look", "reclaim", "run", "complete", "fail"} => record.status # "none"
  /\ \A c \in Commands : Stands(c, "complete") => c \in effects
  /\ record.status = "COMPLETED" => record.answer \in effects /\ BodyOf[record.answer] = record.hash

Truthful == \A c \in Answered : command[c].answer \in effects /\ BodyOf[command[c].answer] = BodyOf[c]

(* Until a key expires under a request: the record is PENDING while one    *)
(* request holds it, and COMPLETED with what was last committed and saved. *)
HoldsKey(c) == command[c].at \in {"run", "complete", "fail"}
Alone ==
  /\ \A c \in Commands : HoldsKey(c) => record.status = "PENDING" /\ record.live
  /\ \A c, d \in Commands : HoldsKey(c) /\ HoldsKey(d) => c = d
  /\ \A c \in Commands : Stands(c, "reclaim") /\ record.status = "COMPLETED" => record.live
  /\ \A c \in effects \ unsaved : Stands(c, "complete") \/ (record.status = "COMPLETED" /\ record.answer = c)
  /\ \A c \in Answered : record.status = "COMPLETED" /\ record.answer = command[c].answer

KeyInv == KeyTypeOK /\ KeyRows /\ OneContent /\ Truthful /\ (overtaken \/ Alone)

LEMMA KeyStart == KeyInit => KeyInv
  <1> SUFFICES ASSUME KeyInit PROVE KeyInv
    OBVIOUS
  <1> USE IdempotencyAssumption DEF KeyInit
  <1>1. KeyTypeOK
    BY DEF KeyTypeOK
  <1>2. KeyRows
    BY DEF KeyRows
  <1>3. OneContent
    BY DEF OneContent, Stands
  <1>4. Truthful /\ Alone
    BY DEF Truthful, Alone, HoldsKey, Stands, Answered
  <1> QED
    BY <1>1, <1>2, <1>3, <1>4 DEF KeyInv

(* The step of a request, the record apart.                                *)
LEMMA CommandMoves ==
  ASSUME KeyInv, NEW c \in Commands, NEW at \in {"look", "reclaim", "run", "complete", "fail", "ended"}, Steps(c, at)
  PROVE  /\ command' \in [Commands -> [at : {"new", "look", "reclaim", "run", "complete", "fail", "ended"},
                                       answer : Commands \cup {NoAnswer}]]
         /\ command'[c].at = at /\ command'[c].answer = command[c].answer
         /\ \A d \in Commands \ {c} : command'[d] = command[d]
         /\ \A d \in Commands : command'[d].answer = command[d].answer
         /\ Answered' = Answered /\ Answered \subseteq Commands
  BY DEF KeyInv, KeyTypeOK, Steps, Answered

LEMMA ClaimKeeps ==
  ASSUME KeyInv, NEW c \in Commands, Claimed(c), Steps(c, "run"), UNCHANGED <<effects, overtaken, unsaved>>,
         record.status = "none" \/ (Stands(c, "reclaim") /\ (record.status = "FAILED" \/ ~record.live))
  PROVE  KeyInv'
  <1>1. /\ record'.status = "PENDING" /\ record'.hash = BodyOf[c] /\ record'.answer = NoAnswer /\ record'.live = TRUE
        /\ KeyRows'
    BY DEF Claimed, KeyRows
  <1> HIDE DEF Claimed
  <1>2. KeyTypeOK'
    BY <1>1, CommandMoves DEF KeyInv, KeyTypeOK
  <1>3. OneContent'
    BY <1>1, CommandMoves DEF KeyInv, OneContent, Stands
  <1>4. Truthful'
    BY CommandMoves DEF KeyInv, Truthful
  <1>5. overtaken' \/ Alone'
    <2> SUFFICES ASSUME Alone PROVE Alone'
      BY DEF KeyInv
    <2>1. \A d \in Commands : ~HoldsKey(d)
      BY DEF KeyInv, OneContent, Alone, HoldsKey, Stands
    <2>2. record.status # "COMPLETED"
      BY DEF Alone
    <2> QED
      <3>1. effects \ unsaved = {} /\ Answered = {}
        BY <2>1, <2>2 DEF Alone, HoldsKey, Stands, KeyInv, KeyTypeOK
      <3> QED
        BY <1>1, <2>1, <3>1, CommandMoves DEF Alone, HoldsKey, Stands
  <1> QED
    BY <1>1, <1>2, <1>3, <1>4, <1>5 DEF KeyInv

(* A request that changes nothing else goes on.                            *)
LEMMA MoveKeeps ==
  ASSUME KeyInv, NEW c \in Commands, NEW at \in {"look", "reclaim", "ended"}, Steps(c, at), ~HoldsKey(c),
         UNCHANGED <<record, effects, overtaken, unsaved>>,
         at # "ended" => record.status # "none",
         at = "reclaim" => record.hash = BodyOf[c] /\ record.status # "COMPLETED"
  PROVE  KeyInv'
  <1>1. KeyTypeOK' /\ KeyRows'
    BY CommandMoves DEF KeyInv, KeyTypeOK, KeyRows
  <1>2. OneContent'
    BY CommandMoves DEF KeyInv, OneContent, Stands
  <1>3. Truthful'
    BY CommandMoves DEF KeyInv, Truthful
  <1>4. Alone => Alone'
    BY CommandMoves, SMTT(30) DEF Alone, HoldsKey, Stands, KeyInv, KeyTypeOK
  <1> QED
    BY <1>1, <1>2, <1>3, <1>4 DEF KeyInv

LEMMA KeyStep ==
  ASSUME KeyInv, [KeyNext]_keyVars
  PROVE  KeyInv'
  <1>1. ASSUME NEW c \in Commands, Insert(c)
        PROVE  KeyInv'
    <2>1. CASE record.status = "none"
      BY <1>1, <2>1, ClaimKeeps DEF Insert
    <2>2. CASE record.status # "none"
      BY <1>1, <2>2, MoveKeeps DEF Insert, HoldsKey, Stands
    <2> QED
      BY <2>1, <2>2
  <1>2. ASSUME NEW c \in Commands, Look(c)
        PROVE  KeyInv'
    <2>1. UNCHANGED <<record, effects, overtaken, unsaved>>
      BY <1>2 DEF Look
    <2>4. record.status # "none"
      BY <1>2 DEF Look, KeyInv, OneContent, Stands
    <2>2. ASSUME NEW at \in {"reclaim", "ended"}, Steps(c, at),
                 at = "reclaim" => record.hash = BodyOf[c] /\ record.status # "COMPLETED" /\ record.status # "none"
          PROVE  KeyInv'
      BY <1>2, <2>1, <2>2, <2>4, MoveKeeps DEF Look, HoldsKey, Stands
    <2>3. CASE Told(c, record.answer) /\ record.hash = BodyOf[c] /\ record.status = "COMPLETED"
      <3>1. /\ command' \in [Commands -> [at : {"new", "look", "reclaim", "run", "complete", "fail", "ended"},
                                          answer : Commands \cup {NoAnswer}]]
            /\ command'[c] = [at |-> "ended", answer |-> record.answer]
            /\ \A d \in Commands \ {c} : command'[d] = command[d]
        BY <2>3 DEF Told, KeyInv, KeyTypeOK, KeyRows
      <3> QED
        BY <2>1, <2>3, <3>1 DEF KeyInv, KeyTypeOK, KeyRows, OneContent, Truthful, Alone, HoldsKey, Stands, Answered
    <2> QED
      BY <1>2, <2>2, <2>3, <2>4 DEF Look, Refused
  <1>3. ASSUME NEW c \in Commands, Reclaim(c)
        PROVE  KeyInv'
    <2>1. CASE record.status = "FAILED" \/ ~record.live
      BY <1>3, <2>1, ClaimKeeps DEF Reclaim
    <2>2. CASE ~(record.status = "FAILED" \/ ~record.live)
      BY <1>3, <2>2, MoveKeeps DEF Reclaim, Refused, HoldsKey, Stands
    <2> QED
      BY <2>1, <2>2
  <1> USE IdempotencyAssumption
      DEF KeyInv, KeyTypeOK, KeyRows, OneContent, Truthful, Alone, HoldsKey, Stands, Answered, Steps, Refused
  <1>4. ASSUME NEW c \in Commands, Handle(c)
        PROVE  KeyInv'
    BY <1>4 DEF Handle
  <1>5. ASSUME NEW c \in Commands, Complete(c)
        PROVE  KeyInv'
    BY <1>5 DEF Complete, Told
  <1>6. ASSUME NEW c \in Commands, CompleteFails(c)
        PROVE  KeyInv'
    BY <1>6 DEF CompleteFails
  <1>7. ASSUME NEW c \in Commands, Fail(c)
        PROVE  KeyInv'
    BY <1>7 DEF Fail
  <1>8. ASSUME NEW c \in Commands, CrashCommand(c)
        PROVE  KeyInv'
    BY <1>8 DEF CrashCommand
  <1>9. CASE KeyExpires
    BY <1>9 DEF KeyExpires, Busy
  <1>10. CASE UNCHANGED keyVars
    BY <1>10 DEF keyVars
  <1> QED
    BY <1>1, <1>2, <1>3, <1>4, <1>5, <1>6, <1>7, <1>8, <1>9, <1>10 DEF KeyNext

LEMMA KeySafe == KeyInv => CommandOnce
  <1> SUFFICES ASSUME KeyInv PROVE CommandOnce
    OBVIOUS
  <1>1. RunOnce
    <2> SUFFICES ASSUME Alone PROVE Cardinality(effects \ unsaved) <= 1
      BY DEF RunOnce, KeyInv
    <2>1. IsFiniteSet(effects \ unsaved)
      BY IdempotencyAssumption, FS_Subset DEF KeyInv, KeyTypeOK
    <2>2. \A c, d \in effects \ unsaved : c = d
      BY DEF KeyInv, KeyTypeOK, Alone, HoldsKey, Stands
    <2> QED
      BY <2>1, <2>2, AtMostOne
  <1>2. AnswersAgree
    BY DEF KeyInv, Truthful, Alone, AnswersAgree
  <1> QED
    BY <1>1, <1>2 DEF KeyInv, CommandOnce

(* A key stands for one command and one answer: the command does not run   *)
(* again unless its first run was not recorded or the key expired under a  *)
(* request, and whoever is answered is told of an effect of what he sent   *)
(* (claim of IdempotencyService and the interceptor around the handler).   *)
THEOREM KeysCorrect == KeySpec => []CommandOnce
  <1>1. KeyInit => KeyInv
    BY KeyStart
  <1>2. KeyInv /\ [KeyNext]_keyVars => KeyInv'
    BY KeyStep
  <1>3. KeyInv => CommandOnce
    BY KeySafe
  <1> QED
    BY <1>1, <1>2, <1>3, PTL DEF KeySpec

----------------------------------------------------------------------------
(* ProviderToken.                                                          *)

CredentialRow == [token : Nat, status : {"ACTIVE", "ROTATED", "REVOKED"}]
Renewal == [at : {"new", "read", "mark", "send", "store", "catch", "release", "ended"}, id : Nat, token : Nat]
Attempt == [at : {"none", "PENDING", "EXPIRED", "CONSUMING", "exchanged", "replacing", "COMPLETED", "FAILED"},
            token : Nat, replaces : SUBSET Nat]

(* The refresh uses the credential it read.                                *)
ProviderShapes ==
  /\ credential \in Seq(CredentialRow)
  /\ renew \in [Renewers -> Renewal]
  /\ consent \in [Consents -> Attempt]
  /\ \A w \in Renewers : renew[w].at \in {"mark", "send", "store"} => renew[w].id \in Credentials

(* A token is in one place: a credential, or with whoever was just given   *)
(* it; and what was just given has not been used.                          *)
GivenTo(c) == consent[c].at \in {"exchanged", "replacing"}
Waiting    == {c \in Consents : GivenTo(c)} \cup {w \in Renewers : AtR(w, "store")}
TokenOf(x) == IF x \in Consents THEN consent[x].token ELSE renew[x].token
Unspent    == \A x \in Waiting : TokenOf(x) \in valid
OnePlace   ==
  /\ \A i, j \in Credentials : credential[i].token = credential[j].token => i = j
  /\ \A i \in Credentials, x \in Waiting : credential[i].token # TokenOf(x)
  /\ \A x, y \in Waiting : TokenOf(x) = TokenOf(y) => x = y

(* Until a lease runs out under its owner, who refreshes holds the lock,   *)
(* and what it is about to send works as far as the database can tell.     *)
LockedRun ==
  /\ \A w \in Running : lock.owner = w /\ lock.live
  /\ \A w \in Renewers : renew[w].at \in {"mark", "send"} =>
       credential[renew[w].id].token \in valid \/ renew[w].id \in lost
  /\ wasted \subseteq lost

ProviderInv ==
  /\ ProviderTypeOK /\ ProviderShapes /\ Unspent /\ OnePlace
  /\ CredentialWorks /\ DisconnectHolds
  /\ overrun \/ LockedRun

LEMMA ProviderStarts == ProviderInit => ProviderInv
  <1> SUFFICES ASSUME ProviderInit PROVE ProviderInv
    OBVIOUS
  <1> USE ProviderTokenAssumption DEF ProviderInit
  <1>1. credential = << >> /\ Credentials = {} /\ ActiveIds = {} /\ Running = {}
    BY DEF Credentials, ActiveIds, Running, Resting
  <1>2. ProviderShapes
    BY <1>1, EmptySeq DEF ProviderShapes, Renewal, Attempt, Resting
  <1>3. ProviderTypeOK
    <2>1. lock \in [owner : Renewers \cup {Nobody}, live : BOOLEAN]
      OBVIOUS
    <2>2. \A w \in Renewers : ~AtR(w, "store")
      BY DEF AtR, Resting
    <2>3. left \in BOOLEAN /\ overrun \in BOOLEAN
      OBVIOUS
    <2>4. given \in 0..TokenBound /\ valid \subseteq 1..given /\ lost \cup wasted \subseteq Credentials
      OBVIOUS
    <2>5. status = "PENDING_AUTHORIZATION"
      OBVIOUS
    <2> HIDE DEF ProviderInit
    <2> QED
      BY <1>1, <2>1, <2>2, <2>3, <2>4, <2>5 DEF ProviderTypeOK
  <1>5. Unspent /\ OnePlace
    <2>1. Waiting = {}
      BY DEF Waiting, GivenTo, AtR, Resting
    <2> QED
      BY <1>1, <2>1 DEF Unspent, OnePlace
  <1>4. CredentialWorks /\ DisconnectHolds /\ LockedRun
    BY <1>1 DEF CredentialWorks, DisconnectHolds, LockedRun, Resting
  <1> QED
    BY <1>2, <1>3, <1>4, <1>5 DEF ProviderInv

(* What a step of a refresh, of an authorization, and of the credentials is. *)
LEMMA Renews ==
  ASSUME ProviderShapes, NEW w \in Renewers,
         NEW at \in {"new", "read", "mark", "send", "store", "catch", "release", "ended"}, Moves(w, at)
  PROVE  /\ renew' \in [Renewers -> Renewal]
         /\ renew'[w].at = at /\ renew'[w].id = renew[w].id /\ renew'[w].token = renew[w].token
         /\ \A v \in Renewers \ {w} : renew'[v] = renew[v]
  BY DEF ProviderShapes, Moves, Renewal

LEMMA Consenting ==
  ASSUME ProviderShapes, NEW c \in Consents,
         NEW at \in {"PENDING", "EXPIRED", "CONSUMING", "COMPLETED", "FAILED"}, Acts(c, at)
  PROVE  /\ consent' \in [Consents -> Attempt]
         /\ consent'[c].at = at
         /\ \A d \in Consents \ {c} : consent'[d] = consent[d]
  BY DEF ProviderShapes, Acts, Attempt

LEMMA RotatedRows ==
  ASSUME ProviderShapes, NEW ids, NEW to \in {"ROTATED", "REVOKED"}
  PROVE  /\ Rotated(ids, to) \in Seq(CredentialRow) /\ Len(Rotated(ids, to)) = Len(credential)
         /\ Credentials = 1..Len(credential) /\ Len(credential) \in Nat
         /\ \A i \in Credentials : Rotated(ids, to)[i].token = credential[i].token
         /\ \A i \in Credentials : Rotated(ids, to)[i].status = IF i \in ids THEN to ELSE credential[i].status
  <1>1. Credentials = 1..Len(credential) /\ Len(credential) \in Nat /\ \A i \in Credentials : credential[i] \in CredentialRow
    BY LenProperties, ElementOfSeq DEF ProviderShapes, Credentials
  <1>2. \A i \in Credentials : Rotated(ids, to)[i] \in CredentialRow
    BY <1>1 DEF Rotated, CredentialRow
  <1>3. Rotated(ids, to) \in [1..Len(credential) -> CredentialRow]
    BY <1>1, <1>2 DEF Rotated
  <1>4. Rotated(ids, to) \in Seq(CredentialRow) /\ Len(Rotated(ids, to)) = Len(credential)
    <2>1. Rotated(ids, to) \in Seq(CredentialRow)
      BY <1>1, <1>3, IsASeq
    <2>2. DOMAIN Rotated(ids, to) = 1..Len(credential)
      BY <1>1 DEF Rotated
    <2> QED
      BY <1>1, <2>1, <2>2, LenProperties
  <1> QED
    BY <1>1, <1>4 DEF Rotated, CredentialRow

LEMMA Grown ==
  ASSUME ProviderShapes, NEW ids, NEW n \in Nat, credential' = Append(Rotated(ids, "ROTATED"), Fresh(n))
  PROVE  /\ credential' \in Seq(CredentialRow)
         /\ Credentials' = Credentials \cup {Len(credential) + 1} /\ Len(credential) + 1 \notin Credentials
         /\ credential'[Len(credential) + 1].token = n /\ credential'[Len(credential) + 1].status = "ACTIVE"
         /\ \A i \in Credentials' : credential'[i] \in CredentialRow
         /\ \A i \in Credentials : credential'[i].token = credential[i].token
         /\ \A i \in Credentials : credential'[i].status = IF i \in ids THEN "ROTATED" ELSE credential[i].status
  <1> DEFINE R == Rotated(ids, "ROTATED")
  <1>1. /\ R \in Seq(CredentialRow) /\ Len(R) = Len(credential)
        /\ Credentials = 1..Len(credential) /\ Len(credential) \in Nat
        /\ \A i \in Credentials : R[i].token = credential[i].token
        /\ \A i \in Credentials : R[i].status = IF i \in ids THEN "ROTATED" ELSE credential[i].status
    BY RotatedRows
  <1>2. Fresh(n) \in CredentialRow
    BY DEF Fresh, CredentialRow
  <1> HIDE DEF R
  <1>3. /\ Append(R, Fresh(n)) \in Seq(CredentialRow) /\ Len(Append(R, Fresh(n))) = Len(R) + 1
        /\ \A i \in 1..Len(R) : Append(R, Fresh(n))[i] = R[i]
        /\ Append(R, Fresh(n))[Len(R) + 1] = Fresh(n)
    BY <1>1, <1>2, AppendProperties
  <1>4. credential' = Append(R, Fresh(n))
    BY DEF R
  <1>5. Credentials' = 1..(Len(credential) + 1)
    BY <1>1, <1>3, <1>4, LenProperties DEF Credentials
  <1> QED
    <2>1. Credentials' = Credentials \cup {Len(credential) + 1} /\ Len(credential) + 1 \notin Credentials
      BY <1>1, <1>5
    <2>2. credential'[Len(credential) + 1] = Fresh(n) /\ \A i \in Credentials : credential'[i] = R[i]
      BY <1>1, <1>3, <1>4
    <2>3. Fresh(n).token = n /\ Fresh(n).status = "ACTIVE"
      BY DEF Fresh
    <2>4. \A i \in Credentials' : credential'[i] \in CredentialRow
      BY <1>3, <1>4, LenProperties DEF Credentials
    <2> QED
      BY <1>1, <1>3, <1>4, <2>1, <2>2, <2>3, <2>4

LEMMA ProviderSteps ==
  ASSUME ProviderInv, [ProviderNext]_providerVars
  PROVE  ProviderInv'
  <1> USE ProviderTokenAssumption
  <1>1. ASSUME NEW c \in Consents, Start(c)
        PROVE  ProviderInv'
    <2>1. /\ consent' \in [Consents -> Attempt] /\ consent'[c].at = "PENDING"
          /\ \A d \in Consents \ {c} : consent'[d] = consent[d]
      BY <1>1, Consenting DEF Start, ProviderInv
    <2>2. UNCHANGED <<lock, credential, renew, given, valid, left, overrun, lost, wasted>>
      BY <1>1 DEF Start, histories
    <2>3. Credentials' = Credentials /\ ActiveIds' = ActiveIds
      BY <1>1 DEF Start, Credentials, ActiveIds
    <2>4. status' = "PENDING_AUTHORIZATION"
      BY <1>1 DEF Start
    <2>5. Waiting' \subseteq Waiting /\ \A x \in Waiting' : TokenOf(x)' = TokenOf(x)
      BY <2>1, <2>2, <2>3, <2>4, ProviderTokenAssumption DEF ProviderInv, ProviderShapes, Waiting, TokenOf, AtR, GivenTo
    <2>6. ProviderTypeOK'
      BY <2>1, <2>2, <2>3, <2>4, <2>5 DEF ProviderInv, ProviderTypeOK, ProviderShapes, AtR
    <2>7. ProviderShapes'
      BY <2>1, <2>2, <2>3, <2>4, <2>5 DEF ProviderInv, ProviderTypeOK, ProviderShapes, AtR
    <2>8. Unspent' /\ OnePlace'
      BY <2>1, <2>2, <2>3, <2>4, <2>5 DEF ProviderInv, ProviderTypeOK, Unspent, OnePlace
    <2>9. CredentialWorks' /\ DisconnectHolds'
      BY <2>1, <2>2, <2>3, <2>4, <2>5 DEF ProviderInv, ProviderTypeOK, ProviderShapes, Unspent, OnePlace, CredentialWorks, DisconnectHolds, Running, AtR
    <2>10. overrun' \/ LockedRun'
      BY <2>1, <2>2, <2>3, <2>4, <2>5 DEF ProviderInv, ProviderTypeOK, ProviderShapes, CredentialWorks, LockedRun, Running, AtR, OnePlace
    <2> QED
      BY <2>6, <2>7, <2>8, <2>9, <2>10 DEF ProviderInv
  <1>2. ASSUME NEW c \in Consents, ClaimConsent(c)
        PROVE  ProviderInv'
    <2>1. /\ consent' \in [Consents -> Attempt] /\ consent'[c].at \in {"CONSUMING", "EXPIRED"}
          /\ \A d \in Consents \ {c} : consent'[d] = consent[d]
      BY <1>2, Consenting DEF ClaimConsent, ProviderInv
    <2>2. UNCHANGED <<status, lock, credential, renew, given, valid, left, overrun, lost, wasted>>
      BY <1>2 DEF ClaimConsent, histories
    <2>3. Credentials' = Credentials /\ ActiveIds' = ActiveIds
      BY <1>2 DEF ClaimConsent, Credentials, ActiveIds
    <2>4. Waiting' \subseteq Waiting /\ \A x \in Waiting' : TokenOf(x)' = TokenOf(x)
      BY <2>1, <2>2, <2>3, ProviderTokenAssumption DEF ProviderInv, ProviderShapes, Waiting, TokenOf, AtR, GivenTo
    <2>5. ProviderTypeOK'
      BY <2>1, <2>2, <2>3, <2>4 DEF ProviderInv, ProviderTypeOK, ProviderShapes, AtR
    <2>6. ProviderShapes'
      BY <2>1, <2>2, <2>3, <2>4 DEF ProviderInv, ProviderTypeOK, ProviderShapes, AtR
    <2>7. Unspent' /\ OnePlace'
      BY <2>1, <2>2, <2>3, <2>4 DEF ProviderInv, ProviderTypeOK, Unspent, OnePlace
    <2>8. CredentialWorks' /\ DisconnectHolds'
      BY <2>1, <2>2, <2>3, <2>4 DEF ProviderInv, ProviderTypeOK, ProviderShapes, Unspent, OnePlace, CredentialWorks, DisconnectHolds, Running, AtR
    <2>9. overrun' \/ LockedRun'
      BY <2>1, <2>2, <2>3, <2>4 DEF ProviderInv, ProviderTypeOK, ProviderShapes, CredentialWorks, LockedRun, Running, AtR, OnePlace
    <2> QED
      BY <2>5, <2>6, <2>7, <2>8, <2>9 DEF ProviderInv
  <1>3. ASSUME NEW c \in Consents, FailConsent(c)
        PROVE  ProviderInv'
    <2>1. /\ consent' \in [Consents -> Attempt] /\ consent'[c].at = "FAILED"
          /\ \A d \in Consents \ {c} : consent'[d] = consent[d]
      BY <1>3, Consenting DEF FailConsent, ProviderInv
    <2>2. UNCHANGED <<status, lock, credential, renew, given, valid, left, overrun, lost, wasted>>
      BY <1>3 DEF FailConsent, histories
    <2>3. Credentials' = Credentials /\ ActiveIds' = ActiveIds
      BY <1>3 DEF FailConsent, Credentials, ActiveIds
    <2>4. Waiting' \subseteq Waiting /\ \A x \in Waiting' : TokenOf(x)' = TokenOf(x)
      BY <2>1, <2>2, <2>3, ProviderTokenAssumption DEF ProviderInv, ProviderShapes, Waiting, TokenOf, AtR, GivenTo
    <2>5. ProviderTypeOK'
      BY <2>1, <2>2, <2>3, <2>4 DEF ProviderInv, ProviderTypeOK, ProviderShapes, AtR
    <2>6. ProviderShapes'
      BY <2>1, <2>2, <2>3, <2>4 DEF ProviderInv, ProviderTypeOK, ProviderShapes, AtR
    <2>7. Unspent' /\ OnePlace'
      BY <2>1, <2>2, <2>3, <2>4 DEF ProviderInv, ProviderTypeOK, Unspent, OnePlace
    <2>8. CredentialWorks' /\ DisconnectHolds'
      BY <2>1, <2>2, <2>3, <2>4 DEF ProviderInv, ProviderTypeOK, ProviderShapes, Unspent, OnePlace, CredentialWorks, DisconnectHolds, Running, AtR
    <2>9. overrun' \/ LockedRun'
      BY <2>1, <2>2, <2>3, <2>4 DEF ProviderInv, ProviderTypeOK, ProviderShapes, CredentialWorks, LockedRun, Running, AtR, OnePlace
    <2> QED
      BY <2>5, <2>6, <2>7, <2>8, <2>9 DEF ProviderInv
  <1>4. ASSUME NEW c \in Consents, ExchangeCode(c)
        PROVE  ProviderInv'
    <2>1. /\ consent' \in [Consents -> Attempt] /\ consent'[c].token = given + 1
          /\ \A d \in Consents \ {c} : consent'[d] = consent[d]
      BY <1>4 DEF ExchangeCode, ProviderInv, ProviderShapes, ProviderTypeOK, Attempt
    <2>2. given' = given + 1 /\ given < TokenBound /\ valid' = valid \cup {given + 1}
      BY <1>4 DEF ExchangeCode
    <2>3. UNCHANGED <<status, lock, credential, renew, left, overrun, lost, wasted>>
      BY <1>4 DEF ExchangeCode, histories
    <2>4. Credentials' = Credentials /\ ActiveIds' = ActiveIds
      BY <1>4 DEF ExchangeCode, Credentials, ActiveIds
    <2>5. Waiting' \subseteq Waiting \cup {c} /\ TokenOf(c)' = given + 1 /\ \A x \in Waiting' \ {c} : TokenOf(x)' = TokenOf(x)
      BY <2>1, <2>2, <2>3, <2>4, ProviderTokenAssumption DEF ProviderInv, ProviderShapes, Waiting, TokenOf, AtR, GivenTo, Renewal
    <2>6. ProviderTypeOK'
      BY <2>1, <2>2, <2>3, <2>4, <2>5 DEF ProviderInv, ProviderTypeOK, ProviderShapes, AtR
    <2>7. ProviderShapes'
      BY <2>1, <2>2, <2>3, <2>4, <2>5 DEF ProviderInv, ProviderTypeOK, ProviderShapes, AtR
    <2>8. Unspent' /\ OnePlace'
      BY <2>1, <2>2, <2>3, <2>4, <2>5 DEF ProviderInv, ProviderTypeOK, Unspent, OnePlace
    <2>9. CredentialWorks' /\ DisconnectHolds'
      BY <2>1, <2>2, <2>3, <2>4, <2>5 DEF ProviderInv, ProviderTypeOK, ProviderShapes, Unspent, OnePlace, CredentialWorks, DisconnectHolds, Running, AtR
    <2>10. overrun' \/ LockedRun'
      BY <2>1, <2>2, <2>3, <2>4, <2>5 DEF ProviderInv, ProviderTypeOK, ProviderShapes, CredentialWorks, LockedRun, Running, AtR, OnePlace
    <2> QED
      BY <2>6, <2>7, <2>8, <2>9, <2>10 DEF ProviderInv
  <1>5. ASSUME NEW c \in Consents, Replace(c)
        PROVE  ProviderInv'
    <2>1. /\ consent' \in [Consents -> Attempt] /\ consent'[c].token = consent[c].token /\ GivenTo(c)
          /\ \A d \in Consents \ {c} : consent'[d] = consent[d]
      <3>1. ActiveIds \subseteq Nat
        BY LenProperties DEF ProviderInv, ProviderShapes, ActiveIds, Credentials
      <3>2. consent' = [consent EXCEPT ![c].at = "replacing", ![c].replaces = ActiveIds] /\ consent[c].at = "exchanged"
        BY <1>5 DEF Replace
      <3> QED
        BY <3>1, <3>2 DEF ProviderInv, ProviderShapes, Attempt, GivenTo
    <2>2. UNCHANGED <<status, lock, credential, renew, given, valid, left, overrun, lost, wasted>>
      BY <1>5 DEF Replace, histories
    <2>3. Credentials' = Credentials /\ ActiveIds' = ActiveIds
      BY <1>5 DEF Replace, Credentials, ActiveIds
    <2>4. Waiting' \subseteq Waiting /\ \A x \in Waiting' : TokenOf(x)' = TokenOf(x)
      BY <2>1, <2>2, <2>3, ProviderTokenAssumption DEF ProviderInv, ProviderShapes, Waiting, TokenOf, AtR, GivenTo
    <2>5. ProviderTypeOK'
      BY <2>1, <2>2, <2>3, <2>4 DEF ProviderInv, ProviderTypeOK, ProviderShapes, AtR
    <2>6. ProviderShapes'
      BY <2>1, <2>2, <2>3, <2>4 DEF ProviderInv, ProviderTypeOK, ProviderShapes, AtR
    <2>7. Unspent' /\ OnePlace'
      BY <2>1, <2>2, <2>3, <2>4 DEF ProviderInv, ProviderTypeOK, Unspent, OnePlace
    <2>8. CredentialWorks' /\ DisconnectHolds'
      BY <2>1, <2>2, <2>3, <2>4 DEF ProviderInv, ProviderTypeOK, ProviderShapes, Unspent, OnePlace, CredentialWorks, DisconnectHolds, Running, AtR
    <2>9. overrun' \/ LockedRun'
      BY <2>1, <2>2, <2>3, <2>4 DEF ProviderInv, ProviderTypeOK, ProviderShapes, CredentialWorks, LockedRun, Running, AtR, OnePlace
    <2> QED
      BY <2>5, <2>6, <2>7, <2>8, <2>9 DEF ProviderInv
  <1>6. ASSUME NEW c \in Consents, Activate(c)
        PROVE  ProviderInv'
    <2>1. /\ consent' \in [Consents -> Attempt] /\ consent'[c].at = "COMPLETED"
          /\ \A d \in Consents \ {c} : consent'[d] = consent[d]
          /\ GivenTo(c)
      BY <1>6, Consenting DEF Activate, ProviderInv, GivenTo
    <2>2. consent[c].token \in Nat /\ consent[c].token \in valid
      BY <2>1 DEF ProviderInv, ProviderShapes, Attempt, Unspent, Waiting, TokenOf
    <2>3. /\ credential' \in Seq(CredentialRow)
          /\ Credentials' = Credentials \cup {Len(credential) + 1} /\ Len(credential) + 1 \notin Credentials
          /\ credential'[Len(credential) + 1].token = consent[c].token /\ credential'[Len(credential) + 1].status = "ACTIVE"
          /\ \A i \in Credentials' : credential'[i] \in CredentialRow
          /\ \A i \in Credentials : credential'[i].token = credential[i].token
          /\ \A i \in Credentials : credential'[i].status = IF i \in (consent[c].replaces \cap ActiveIds) THEN "ROTATED" ELSE credential[i].status
      BY <1>6, <2>2, Grown DEF Activate, ProviderInv
    <2>4. status' = "ACTIVE" /\ left' = FALSE
      BY <1>6 DEF Activate
    <2>5. UNCHANGED <<lock, renew, given, valid, overrun, lost, wasted>>
      BY <1>6 DEF Activate, histories
    <2>6. \A i \in Credentials' : credential'[i] \in [token : 1..given, status : {"ACTIVE", "ROTATED", "REVOKED"}]
      BY <2>2, <2>3 DEF ProviderInv, ProviderTypeOK, CredentialRow
    <2>7. c \in Waiting /\ TokenOf(c) = consent[c].token /\ Waiting' \subseteq Waiting \ {c} /\ \A x \in Waiting' : TokenOf(x)' = TokenOf(x)
      BY <2>1, <2>2, <2>3, <2>4, <2>5, <2>6, ProviderTokenAssumption DEF ProviderInv, ProviderShapes, Waiting, TokenOf, AtR, GivenTo
    <2>8. ProviderTypeOK'
      BY <2>1, <2>2, <2>3, <2>4, <2>5, <2>6, <2>7 DEF ProviderInv, ProviderTypeOK, ProviderShapes, AtR
    <2>9. ProviderShapes'
      BY <2>1, <2>2, <2>3, <2>4, <2>5, <2>6, <2>7 DEF ProviderInv, ProviderTypeOK, ProviderShapes, AtR
    <2>10. Unspent' /\ OnePlace'
      BY <2>1, <2>2, <2>3, <2>4, <2>5, <2>6, <2>7 DEF ProviderInv, ProviderTypeOK, Unspent, OnePlace
    <2>11. CredentialWorks' /\ DisconnectHolds'
      <3>1. \A i \in ActiveIds' : i = Len(credential) + 1 \/ i \in ActiveIds
        BY <2>3 DEF ActiveIds
      <3>2. Running' = Running /\ \A i \in ActiveIds : i \in Credentials
        BY <2>5 DEF Running, ActiveIds
      <3> QED
        BY <2>2, <2>3, <2>4, <2>5, <3>1, <3>2 DEF ProviderInv, CredentialWorks, DisconnectHolds, AtR
    <2>12. overrun' \/ LockedRun'
      <3>1. Running' = Running
        BY <2>5 DEF Running
      <3> QED
        BY <2>3, <2>5, <3>1 DEF ProviderInv, ProviderShapes, LockedRun
    <2> QED
      BY <2>8, <2>9, <2>10, <2>11, <2>12 DEF ProviderInv
  <1>7. CASE Disconnect
    <2>1. /\ credential' \in Seq(CredentialRow) /\ Credentials' = Credentials
          /\ \A i \in Credentials : credential'[i].token = credential[i].token
          /\ \A i \in Credentials : credential'[i].status = IF i \in ActiveIds THEN "REVOKED" ELSE credential[i].status
      BY <1>7, RotatedRows, LenProperties DEF Disconnect, ProviderInv, Credentials
    <2>2. /\ ActiveIds' = {}
          /\ \A i \in Credentials' : credential'[i] \in [token : 1..given, status : {"ACTIVE", "ROTATED", "REVOKED"}]
      <3>1. \A i \in Credentials' : credential'[i] \in CredentialRow
        BY <2>1, LenProperties DEF Credentials
      <3> QED
        BY <2>1, <3>1 DEF ActiveIds, ProviderInv, ProviderTypeOK, CredentialRow
    <2>3. status' = "DISABLED" /\ left' = TRUE
      BY <1>7 DEF Disconnect
    <2>4. UNCHANGED <<lock, renew, consent, given, valid, overrun, lost, wasted>>
      BY <1>7 DEF Disconnect, histories
    <2>5. Waiting' \subseteq Waiting /\ \A x \in Waiting' : TokenOf(x)' = TokenOf(x)
      BY <2>1, <2>2, <2>3, <2>4, ProviderTokenAssumption DEF ProviderInv, ProviderShapes, Waiting, TokenOf, AtR, GivenTo
    <2>6. ProviderTypeOK'
      BY <2>1, <2>2, <2>3, <2>4, <2>5 DEF ProviderInv, ProviderTypeOK, ProviderShapes, AtR
    <2>7. ProviderShapes'
      BY <2>1, <2>2, <2>3, <2>4, <2>5 DEF ProviderInv, ProviderTypeOK, ProviderShapes, AtR
    <2>8. Unspent' /\ OnePlace'
      BY <2>1, <2>2, <2>3, <2>4, <2>5 DEF ProviderInv, ProviderTypeOK, Unspent, OnePlace
    <2>9. CredentialWorks' /\ DisconnectHolds'
      BY <2>1, <2>2, <2>3, <2>4, <2>5 DEF ProviderInv, ProviderTypeOK, ProviderShapes, Unspent, OnePlace, CredentialWorks, DisconnectHolds, Running, AtR
    <2>10. overrun' \/ LockedRun'
      BY <2>1, <2>2, <2>3, <2>4, <2>5 DEF ProviderInv, ProviderTypeOK, ProviderShapes, CredentialWorks, LockedRun, Running, AtR, OnePlace
    <2> QED
      BY <2>6, <2>7, <2>8, <2>9, <2>10 DEF ProviderInv
  <1>8. ASSUME NEW w \in Renewers, Acquire(w)
        PROVE  ProviderInv'
    <2>1. /\ renew' \in [Renewers -> Renewal] /\ renew'[w].at \in {"read", "ended"}
          /\ \A v \in Renewers \ {w} : renew'[v] = renew[v]
      BY <1>8, Renews DEF Acquire, ProviderInv
    <2>2. \/ lock' = lock /\ renew'[w].at = "ended"
          \/ ~lock.live /\ lock' = [owner |-> w, live |-> TRUE]
      BY <1>8, Renews DEF Acquire, ProviderInv
    <2>3. renew[w].at = "new" /\ lock' \in [owner : Renewers \cup {Nobody}, live : BOOLEAN]
      <3>1. [owner |-> w, live |-> TRUE] \in [owner : Renewers \cup {Nobody}, live : BOOLEAN]
        OBVIOUS
      <3> QED
        BY <1>8, <2>2, <3>1 DEF Acquire, AtR, ProviderInv, ProviderTypeOK
    <2>4. UNCHANGED <<status, credential, consent, given, valid, left, overrun, lost, wasted>>
      BY <1>8 DEF Acquire, histories
    <2>5. Credentials' = Credentials /\ ActiveIds' = ActiveIds
      BY <1>8 DEF Acquire, Credentials, ActiveIds
    <2>6. Waiting' \subseteq Waiting /\ \A x \in Waiting' : TokenOf(x)' = TokenOf(x)
      BY <2>1, <2>2, <2>3, <2>4, <2>5, ProviderTokenAssumption DEF ProviderInv, ProviderShapes, Waiting, TokenOf, AtR, GivenTo
    <2>7. ProviderTypeOK'
      BY <2>1, <2>2, <2>3, <2>4, <2>5, <2>6 DEF ProviderInv, ProviderTypeOK, ProviderShapes, AtR
    <2>8. ProviderShapes'
      BY <2>1, <2>2, <2>3, <2>4, <2>5, <2>6 DEF ProviderInv, ProviderTypeOK, ProviderShapes, AtR
    <2>9. Unspent' /\ OnePlace'
      BY <2>1, <2>2, <2>3, <2>4, <2>5, <2>6 DEF ProviderInv, ProviderTypeOK, Unspent, OnePlace
    <2>10. CredentialWorks' /\ DisconnectHolds'
      BY <2>1, <2>2, <2>3, <2>4, <2>5, <2>6 DEF ProviderInv, ProviderTypeOK, ProviderShapes, Unspent, OnePlace, CredentialWorks, DisconnectHolds, Running, AtR
    <2>11. overrun' \/ LockedRun'
      BY <2>1, <2>2, <2>3, <2>4, <2>5, <2>6, SMTT(30) DEF ProviderInv, ProviderTypeOK, ProviderShapes, CredentialWorks, LockedRun, Running, AtR, OnePlace
    <2> QED
      BY <2>7, <2>8, <2>9, <2>10, <2>11 DEF ProviderInv
  <1>9. ASSUME NEW w \in Renewers, ReadCredential(w)
        PROVE  ProviderInv'
    <2>1. /\ renew' \in [Renewers -> Renewal] /\ renew'[w].at \in {"catch", "mark"}
          /\ renew'[w].at = "mark" => renew'[w].id \in ActiveIds
          /\ \A v \in Renewers \ {w} : renew'[v] = renew[v]
      <3>1. ActiveIds \subseteq Nat
        BY LenProperties DEF ProviderInv, ProviderShapes, ActiveIds, Credentials
      <3>2. ASSUME NEW i \in ActiveIds, renew' = [renew EXCEPT ![w] = [at |-> "mark", id |-> i, token |-> 0]]
            PROVE  renew' \in [Renewers -> Renewal] /\ renew'[w].id = i /\ renew'[w].at = "mark"
        BY <3>1, <3>2 DEF ProviderInv, ProviderShapes, Renewal
      <3>3. CASE Moves(w, "catch")
        BY <3>3, Renews DEF ProviderInv
      <3>4. CASE \E i \in ActiveIds : renew' = [renew EXCEPT ![w] = [at |-> "mark", id |-> i, token |-> 0]]
        BY <3>2, <3>4 DEF ProviderInv, ProviderShapes
      <3> QED
        BY <1>9, <3>3, <3>4 DEF ReadCredential
    <2>2. renew[w].at = "read" /\ ActiveIds \subseteq Credentials
      BY <1>9 DEF ReadCredential, AtR, ActiveIds
    <2>3. UNCHANGED <<lock, status, credential, consent, given, valid, left, overrun, lost, wasted>>
      BY <1>9 DEF ReadCredential, histories
    <2>4. Credentials' = Credentials /\ ActiveIds' = ActiveIds
      BY <1>9 DEF ReadCredential, Credentials, ActiveIds
    <2>5. Waiting' \subseteq Waiting /\ \A x \in Waiting' : TokenOf(x)' = TokenOf(x)
      BY <2>1, <2>2, <2>3, <2>4, ProviderTokenAssumption DEF ProviderInv, ProviderShapes, Waiting, TokenOf, AtR, GivenTo
    <2>6. ProviderTypeOK'
      BY <2>1, <2>2, <2>3, <2>4, <2>5 DEF ProviderInv, ProviderTypeOK, ProviderShapes, AtR
    <2>7. ProviderShapes'
      BY <2>1, <2>2, <2>3, <2>4, <2>5 DEF ProviderInv, ProviderTypeOK, ProviderShapes, AtR
    <2>8. Unspent' /\ OnePlace'
      BY <2>1, <2>2, <2>3, <2>4, <2>5 DEF ProviderInv, ProviderTypeOK, Unspent, OnePlace
    <2>9. CredentialWorks' /\ DisconnectHolds'
      BY <2>1, <2>2, <2>3, <2>4, <2>5 DEF ProviderInv, ProviderTypeOK, ProviderShapes, Unspent, OnePlace, CredentialWorks, DisconnectHolds, Running, AtR
    <2>10. overrun' \/ LockedRun'
      BY <2>1, <2>2, <2>3, <2>4, <2>5 DEF ProviderInv, ProviderTypeOK, ProviderShapes, CredentialWorks, LockedRun, Running, AtR, OnePlace
    <2> QED
      BY <2>6, <2>7, <2>8, <2>9, <2>10 DEF ProviderInv
  <1>10. ASSUME NEW w \in Renewers, Mark(w)
        PROVE  ProviderInv'
    <2>1. /\ renew' \in [Renewers -> Renewal]
          /\ renew'[w].at = "send" /\ renew'[w].id = renew[w].id /\ renew'[w].token = renew[w].token
          /\ \A v \in Renewers \ {w} : renew'[v] = renew[v]
      BY <1>10, Renews DEF Mark, ProviderInv
    <2>2. renew[w].at = "mark" /\ status' = "REFRESHING"
      BY <1>10 DEF Mark, AtR
    <2>3. UNCHANGED <<lock, credential, consent, given, valid, left, overrun, lost, wasted>>
      BY <1>10 DEF Mark, histories
    <2>4. Credentials' = Credentials /\ ActiveIds' = ActiveIds
      BY <1>10 DEF Mark, Credentials, ActiveIds
    <2>5. Waiting' \subseteq Waiting /\ \A x \in Waiting' : TokenOf(x)' = TokenOf(x)
      BY <2>1, <2>2, <2>3, <2>4, ProviderTokenAssumption DEF ProviderInv, ProviderShapes, Waiting, TokenOf, AtR, GivenTo
    <2>6. ProviderTypeOK'
      BY <2>1, <2>2, <2>3, <2>4, <2>5 DEF ProviderInv, ProviderTypeOK, ProviderShapes, AtR
    <2>7. ProviderShapes'
      BY <2>1, <2>2, <2>3, <2>4, <2>5 DEF ProviderInv, ProviderTypeOK, ProviderShapes, AtR
    <2>8. Unspent' /\ OnePlace'
      BY <2>1, <2>2, <2>3, <2>4, <2>5 DEF ProviderInv, ProviderTypeOK, Unspent, OnePlace
    <2>9. CredentialWorks' /\ DisconnectHolds'
      BY <2>1, <2>2, <2>3, <2>4, <2>5 DEF ProviderInv, ProviderTypeOK, ProviderShapes, Unspent, OnePlace, CredentialWorks, DisconnectHolds, Running, AtR
    <2>10. overrun' \/ LockedRun'
      BY <2>1, <2>2, <2>3, <2>4, <2>5 DEF ProviderInv, ProviderTypeOK, ProviderShapes, CredentialWorks, LockedRun, Running, AtR, OnePlace
    <2> QED
      BY <2>6, <2>7, <2>8, <2>9, <2>10 DEF ProviderInv
  <1>11. ASSUME NEW w \in Renewers, Catch(w)
        PROVE  ProviderInv'
    <2>1. /\ renew' \in [Renewers -> Renewal]
          /\ renew'[w].at = "release" /\ renew'[w].id = renew[w].id /\ renew'[w].token = renew[w].token
          /\ \A v \in Renewers \ {w} : renew'[v] = renew[v]
      BY <1>11, Renews DEF Catch, ProviderInv
    <2>2. renew[w].at = "catch" /\ status' = "REAUTHORIZATION_REQUIRED"
      BY <1>11 DEF Catch, AtR
    <2>3. UNCHANGED <<lock, credential, consent, given, valid, left, overrun, lost, wasted>>
      BY <1>11 DEF Catch, histories
    <2>4. Credentials' = Credentials /\ ActiveIds' = ActiveIds
      BY <1>11 DEF Catch, Credentials, ActiveIds
    <2>5. Waiting' \subseteq Waiting /\ \A x \in Waiting' : TokenOf(x)' = TokenOf(x)
      BY <2>1, <2>2, <2>3, <2>4, ProviderTokenAssumption DEF ProviderInv, ProviderShapes, Waiting, TokenOf, AtR, GivenTo
    <2>6. ProviderTypeOK'
      BY <2>1, <2>2, <2>3, <2>4, <2>5 DEF ProviderInv, ProviderTypeOK, ProviderShapes, AtR
    <2>7. ProviderShapes'
      BY <2>1, <2>2, <2>3, <2>4, <2>5 DEF ProviderInv, ProviderTypeOK, ProviderShapes, AtR
    <2>8. Unspent' /\ OnePlace'
      BY <2>1, <2>2, <2>3, <2>4, <2>5 DEF ProviderInv, ProviderTypeOK, Unspent, OnePlace
    <2>9. CredentialWorks' /\ DisconnectHolds'
      BY <2>1, <2>2, <2>3, <2>4, <2>5 DEF ProviderInv, ProviderTypeOK, ProviderShapes, Unspent, OnePlace, CredentialWorks, DisconnectHolds, Running, AtR
    <2>10. overrun' \/ LockedRun'
      BY <2>1, <2>2, <2>3, <2>4, <2>5 DEF ProviderInv, ProviderTypeOK, ProviderShapes, CredentialWorks, LockedRun, Running, AtR, OnePlace
    <2> QED
      BY <2>6, <2>7, <2>8, <2>9, <2>10 DEF ProviderInv
  <1>12. ASSUME NEW w \in Renewers, Send(w)
        PROVE  ProviderInv'
    <2>1. /\ renew' \in [Renewers -> Renewal] /\ renew'[w].id = renew[w].id
          /\ \A v \in Renewers \ {w} : renew'[v] = renew[v]
      <3>1. ASSUME renew' = [renew EXCEPT ![w].at = "store", ![w].token = given + 1]
            PROVE  renew' \in [Renewers -> Renewal] /\ renew'[w].id = renew[w].id
        <4>1. given + 1 \in Nat
          BY DEF ProviderInv, ProviderTypeOK
        <4> QED
          BY <3>1, <4>1 DEF ProviderInv, ProviderShapes, Renewal
      <3>2. \/ Moves(w, "catch")
            \/ renew' = [renew EXCEPT ![w].at = "store", ![w].token = given + 1]
        BY <1>12 DEF Send
      <3> QED
        BY <3>1, <3>2, Renews DEF ProviderInv, ProviderShapes
    <2>2. renew[w].at = "send" /\ renew[w].id \in Credentials
      BY <1>12 DEF Send, AtR, ProviderInv, ProviderShapes
    <2>3. LET t == credential[renew[w].id].token
          IN  \/ /\ t \in valid /\ given < TokenBound /\ given' = given + 1 /\ valid' = (valid \ {t}) \cup {given + 1}
                 /\ \/ renew'[w].at = "store" /\ renew'[w].token = given + 1 /\ lost' = lost
                    \/ renew'[w].at = "catch" /\ lost' = lost \cup {renew[w].id}
                 /\ wasted' = wasted
              \/ /\ renew'[w].at = "catch" /\ given' = given /\ valid' = valid /\ lost' = lost
                 /\ wasted' = IF t \in valid THEN wasted ELSE wasted \cup {renew[w].id}
      BY <1>12, Renews DEF Send, ProviderInv, ProviderShapes, Renewal
    <2>4. UNCHANGED <<status, lock, credential, consent, left, overrun>>
      BY <1>12 DEF Send, histories
    <2>5. Credentials' = Credentials /\ ActiveIds' = ActiveIds
      BY <1>12 DEF Send, Credentials, ActiveIds
    <2>6. Waiting' \subseteq Waiting \cup {w} /\ (w \in Waiting' => TokenOf(w)' = given + 1 /\ given' = given + 1) /\ \A x \in Waiting' \ {w} : TokenOf(x)' = TokenOf(x)
      BY <2>1, <2>2, <2>3, <2>4, <2>5, ProviderTokenAssumption DEF ProviderInv, ProviderShapes, Waiting, TokenOf, AtR, GivenTo, Renewal
    <2>7. ProviderTypeOK'
      <3>1. given \in Nat /\ given' \in Nat /\ given' \in 0..TokenBound /\ given <= given'
        BY <2>3 DEF ProviderInv, ProviderTypeOK
      <3>2. valid' \subseteq 1..given' /\ lost' \cup wasted' \subseteq Credentials
        <4>1. valid \subseteq 1..given /\ lost \subseteq Credentials /\ wasted \subseteq Credentials
          BY DEF ProviderInv, ProviderTypeOK
        <4>2. lost' \subseteq lost \cup {renew[w].id} /\ wasted' \subseteq wasted \cup {renew[w].id}
          BY <2>3
        <4>3. \/ given' = given /\ valid' = valid
              \/ given' = given + 1 /\ valid' \subseteq valid \cup {given + 1}
          BY <2>3
        <4> QED
          <5>1. valid' \subseteq 1..given'
            <6> SUFFICES ASSUME NEW n \in valid' PROVE n \in 1..given'
              OBVIOUS
            <6>1. (n \in valid /\ given <= given') \/ (n = given + 1 /\ given' = given + 1)
              BY <3>1, <4>3
            <6>2. n \in Nat /\ 1 <= n /\ n <= given'
              <7>1. n \in valid => n \in Nat /\ 1 <= n /\ n <= given
                BY <3>1, <4>1
              <7> QED
                BY <3>1, <6>1, <7>1
            <6> QED
              BY <3>1, <6>2
          <5>2. lost' \cup wasted' \subseteq Credentials
            BY <2>2, <4>1, <4>2
          <5> QED
            BY <5>1, <5>2
      <3>3. \A v \in Renewers : AtR(v, "store")' => renew'[v].id \in Credentials /\ renew'[v].token \in 1..given'
        BY <2>1, <2>2, <2>3, <3>1 DEF ProviderInv, ProviderTypeOK, AtR
      <3>4. \A i \in Credentials' : credential'[i] \in [token : 1..given', status : {"ACTIVE", "ROTATED", "REVOKED"}]
        BY <2>4, <2>5, <3>1 DEF ProviderInv, ProviderTypeOK
      <3> QED
        BY <2>4, <2>5, <3>1, <3>2, <3>3, <3>4 DEF ProviderInv, ProviderTypeOK
    <2>8. ProviderShapes'
      BY <2>1, <2>2, <2>3, <2>4, <2>5, <2>6 DEF ProviderInv, ProviderTypeOK, ProviderShapes, AtR
    <2>9. Unspent' /\ OnePlace'
      BY <2>1, <2>2, <2>3, <2>4, <2>5, <2>6 DEF ProviderInv, ProviderTypeOK, Unspent, OnePlace
    <2>10. CredentialWorks' /\ DisconnectHolds'
      <3>1. ASSUME NEW d \in ActiveIds, d \notin lost'
            PROVE  credential[d].token \in valid' \/ \E v \in Running' : AtR(v, "store")' /\ renew'[v].id = d
        <4>1. d \in Credentials /\ d \notin lost
          BY <2>3, <3>1 DEF ActiveIds
        <4>2. CASE credential[d].token \in valid
          <5>1. d # renew[w].id => credential[d].token # credential[renew[w].id].token
            BY <2>2, <4>1 DEF ProviderInv, OnePlace
          <5> QED
            BY <2>1, <2>3, <3>1, <4>2, <5>1 DEF Running, AtR
        <4>3. ASSUME NEW v \in Running, AtR(v, "store"), renew[v].id = d
              PROVE  v \in Running' /\ AtR(v, "store")' /\ renew'[v].id = d
          BY <2>1, <2>2, <4>3 DEF Running, AtR
        <4> QED
          BY <3>1, <4>1, <4>2, <4>3 DEF ProviderInv, CredentialWorks
      <3> QED
        BY <2>4, <2>5, <3>1 DEF ProviderInv, CredentialWorks, DisconnectHolds
    <2>11. overrun' \/ LockedRun'
      <3> SUFFICES ASSUME ~overrun PROVE LockedRun'
        BY <2>4
      <3>1. LockedRun
        BY DEF ProviderInv
      <3>2. w \in Running /\ Running' \subseteq Running /\ renew'[w].at \notin {"mark", "send"}
        BY <2>1, <2>2, <2>3 DEF Running
      <3>3. \A v \in Renewers : renew[v].at \in {"mark", "send"} => v \in Running
        BY DEF Running
      <3>4. \A v \in Running' : lock'.owner = v /\ lock'.live
        BY <2>4, <3>1, <3>2 DEF LockedRun
      <3>5. \A v \in Renewers : renew'[v].at \notin {"mark", "send"}
        BY <2>1, <3>1, <3>2, <3>3 DEF LockedRun
      <3>6. wasted' \subseteq lost'
        BY <2>2, <2>3, <3>1 DEF LockedRun
      <3> QED
        BY <3>4, <3>5, <3>6 DEF LockedRun
    <2> QED
      BY <2>7, <2>8, <2>9, <2>10, <2>11 DEF ProviderInv
  <1>13. ASSUME NEW w \in Renewers, Store(w)
         PROVE  ProviderInv'
    <2>1. renew[w].at = "store" /\ renew[w].id \in Credentials /\ renew[w].token \in Nat /\ renew[w].token \in valid
      <3>1. renew[w].at = "store" /\ w \in Waiting /\ TokenOf(w) = renew[w].token
        BY <1>13, ProviderTokenAssumption DEF Store, AtR, Waiting, TokenOf
      <3> QED
        BY <3>1 DEF ProviderInv, ProviderShapes, Renewal, Unspent
    <2>2. UNCHANGED <<lock, consent, given, valid, left, overrun, wasted>>
      BY <1>13 DEF Store, histories
    <2>3. ASSUME lost' = lost \cup {renew[w].id}, Moves(w, "catch"), UNCHANGED <<credential, status>>
          PROVE  ProviderInv'
      <3>1. /\ renew' \in [Renewers -> Renewal]
            /\ renew'[w].at = "catch" /\ renew'[w].id = renew[w].id /\ renew'[w].token = renew[w].token
            /\ \A v \in Renewers \ {w} : renew'[v] = renew[v]
        BY <2>3, Renews DEF ProviderInv
      <3>2. Credentials' = Credentials /\ ActiveIds' = ActiveIds
        BY <2>3 DEF Credentials, ActiveIds
      <3>3. Waiting' \subseteq Waiting /\ \A x \in Waiting' : TokenOf(x)' = TokenOf(x)
        BY <2>1, <2>2, <2>3, <3>1, <3>2, ProviderTokenAssumption DEF ProviderInv, ProviderShapes, Waiting, TokenOf, AtR, GivenTo
      <3>4. ProviderTypeOK'
        BY <2>1, <2>2, <2>3, <3>1, <3>2, <3>3 DEF ProviderInv, ProviderTypeOK, ProviderShapes, AtR
      <3>5. ProviderShapes'
        BY <2>1, <2>2, <2>3, <3>1, <3>2, <3>3 DEF ProviderInv, ProviderTypeOK, ProviderShapes, AtR
      <3>6. Unspent' /\ OnePlace'
        BY <2>1, <2>2, <2>3, <3>1, <3>2, <3>3 DEF ProviderInv, ProviderTypeOK, Unspent, OnePlace
      <3>7. CredentialWorks' /\ DisconnectHolds'
        BY <2>1, <2>2, <2>3, <3>1, <3>2, <3>3 DEF ProviderInv, ProviderTypeOK, ProviderShapes, Unspent, OnePlace, CredentialWorks, DisconnectHolds, Running, AtR, ActiveIds
      <3>8. overrun' \/ LockedRun'
        BY <2>1, <2>2, <2>3, <3>1, <3>2, <3>3 DEF ProviderInv, ProviderTypeOK, ProviderShapes, CredentialWorks, LockedRun, Running, AtR, OnePlace
      <3> QED
        BY <3>4, <3>5, <3>6, <3>7, <3>8 DEF ProviderInv
    <2>4. ASSUME renew[w].id \in ActiveIds, lost' = lost, status' = "ACTIVE", Moves(w, "release"),
                 credential' = Append(Rotated({renew[w].id}, "ROTATED"), Fresh(renew[w].token))
          PROVE  ProviderInv'
      <3>1. /\ renew' \in [Renewers -> Renewal]
            /\ renew'[w].at = "release" /\ renew'[w].id = renew[w].id /\ renew'[w].token = renew[w].token
            /\ \A v \in Renewers \ {w} : renew'[v] = renew[v]
        BY <2>4, Renews DEF ProviderInv
      <3>2. /\ credential' \in Seq(CredentialRow)
            /\ Credentials' = Credentials \cup {Len(credential) + 1} /\ Len(credential) + 1 \notin Credentials
            /\ credential'[Len(credential) + 1].token = renew[w].token /\ credential'[Len(credential) + 1].status = "ACTIVE"
            /\ \A i \in Credentials' : credential'[i] \in CredentialRow
            /\ \A i \in Credentials : credential'[i].token = credential[i].token
            /\ \A i \in Credentials : credential'[i].status = IF i \in {renew[w].id} THEN "ROTATED" ELSE credential[i].status
        BY <2>1, <2>4, Grown DEF ProviderInv
      <3>3. lost' = lost /\ status' = "ACTIVE" /\ ~left /\ renew[w].id \in ActiveIds
        BY <2>4 DEF ProviderInv, DisconnectHolds
      <3>4. \A i \in Credentials' : credential'[i] \in [token : 1..given, status : {"ACTIVE", "ROTATED", "REVOKED"}]
        BY <2>1, <3>2 DEF ProviderInv, ProviderTypeOK, CredentialRow
      <3>5. w \in Waiting /\ TokenOf(w) = renew[w].token /\ Waiting' \subseteq Waiting \ {w} /\ \A x \in Waiting' : TokenOf(x)' = TokenOf(x)
        BY <2>1, <2>2, <3>1, <3>2, <3>3, <3>4, ProviderTokenAssumption DEF ProviderInv, ProviderShapes, Waiting, TokenOf, AtR, GivenTo
      <3>6. ProviderTypeOK'
        BY <2>1, <2>2, <3>1, <3>2, <3>3, <3>4, SMTT(30) DEF ProviderInv, ProviderTypeOK, ProviderShapes, AtR
      <3>7. ProviderShapes'
        <4>1. \A v \in Renewers : renew'[v].at \in {"mark", "send", "store"} => renew'[v].id \in Credentials'
          BY <3>1, <3>2 DEF ProviderInv, ProviderShapes
        <4>2. consent' \in [Consents -> Attempt]
          BY <2>2 DEF ProviderInv, ProviderShapes
        <4> QED
          BY <3>1, <3>2, <4>1, <4>2 DEF ProviderShapes
      <3>8. Unspent' /\ OnePlace'
        BY <2>1, <2>2, <3>1, <3>2, <3>3, <3>4, <3>5, SMTT(30) DEF ProviderInv, ProviderTypeOK, Unspent, OnePlace
      <3>9. CredentialWorks' /\ DisconnectHolds'
        <4>1. \A i \in ActiveIds' : i = Len(credential) + 1 \/ (i \in ActiveIds /\ i # renew[w].id)
          BY <3>2 DEF ActiveIds
        <4>2. \A v \in Running : v # w => v \in Running' /\ renew'[v] = renew[v]
          BY <3>1 DEF Running
        <4>3. \A i \in ActiveIds : i \in Credentials
          BY DEF ActiveIds
        <4> QED
          BY <2>1, <2>2, <3>2, <3>3, <4>1, <4>2, <4>3 DEF ProviderInv, CredentialWorks, DisconnectHolds, AtR
      <3>10. overrun' \/ LockedRun'
        BY <2>1, <2>2, <3>1, <3>2, <3>3, <3>4, <3>5 DEF ProviderInv, ProviderTypeOK, ProviderShapes, CredentialWorks, LockedRun, Running, AtR, OnePlace
      <3> QED
        BY <3>6, <3>7, <3>8, <3>9, <3>10 DEF ProviderInv
    <2> QED
      BY <1>13, <2>3, <2>4 DEF Store
  <1>14. ASSUME NEW w \in Renewers, Release(w)
        PROVE  ProviderInv'
    <2>1. /\ renew' \in [Renewers -> Renewal]
          /\ renew'[w].at = "ended" /\ renew'[w].id = renew[w].id /\ renew'[w].token = renew[w].token
          /\ \A v \in Renewers \ {w} : renew'[v] = renew[v]
      BY <1>14, Renews DEF Release, ProviderInv
    <2>2. lock' \in [owner : Renewers \cup {Nobody}, live : BOOLEAN] /\ \A v \in Renewers \ {w} : lock.owner = v => lock' = lock
      BY <1>14 DEF Release, ProviderInv, ProviderTypeOK
    <2>3. renew[w].at = "release"
      BY <1>14 DEF Release, AtR
    <2>4. UNCHANGED <<status, credential, consent, given, valid, left, overrun, lost, wasted>>
      BY <1>14 DEF Release, histories
    <2>5. Credentials' = Credentials /\ ActiveIds' = ActiveIds
      BY <1>14 DEF Release, Credentials, ActiveIds
    <2>6. Waiting' \subseteq Waiting /\ \A x \in Waiting' : TokenOf(x)' = TokenOf(x)
      BY <2>1, <2>2, <2>3, <2>4, <2>5, ProviderTokenAssumption DEF ProviderInv, ProviderShapes, Waiting, TokenOf, AtR, GivenTo
    <2>7. ProviderTypeOK'
      BY <2>1, <2>2, <2>3, <2>4, <2>5, <2>6 DEF ProviderInv, ProviderTypeOK, ProviderShapes, AtR
    <2>8. ProviderShapes'
      BY <2>1, <2>2, <2>3, <2>4, <2>5, <2>6 DEF ProviderInv, ProviderTypeOK, ProviderShapes, AtR
    <2>9. Unspent' /\ OnePlace'
      BY <2>1, <2>2, <2>3, <2>4, <2>5, <2>6 DEF ProviderInv, ProviderTypeOK, Unspent, OnePlace
    <2>10. CredentialWorks' /\ DisconnectHolds'
      BY <2>1, <2>2, <2>3, <2>4, <2>5, <2>6 DEF ProviderInv, ProviderTypeOK, ProviderShapes, Unspent, OnePlace, CredentialWorks, DisconnectHolds, Running, AtR
    <2>11. overrun' \/ LockedRun'
      BY <2>1, <2>2, <2>3, <2>4, <2>5, <2>6 DEF ProviderInv, ProviderTypeOK, ProviderShapes, CredentialWorks, LockedRun, Running, AtR, OnePlace
    <2> QED
      BY <2>7, <2>8, <2>9, <2>10, <2>11 DEF ProviderInv
  <1>15. ASSUME NEW w \in Renewers, CrashRenewer(w)
        PROVE  ProviderInv'
    <2>1. /\ renew' \in [Renewers -> Renewal]
          /\ renew'[w].at = "ended" /\ renew'[w].id = renew[w].id /\ renew'[w].token = renew[w].token
          /\ \A v \in Renewers \ {w} : renew'[v] = renew[v]
      BY <1>15, Renews DEF CrashRenewer, ProviderInv
    <2>2. lost' = IF AtR(w, "store") THEN lost \cup {renew[w].id} ELSE lost
      BY <1>15 DEF CrashRenewer
    <2>3. UNCHANGED <<status, lock, credential, consent, given, valid, left, overrun, wasted>>
      BY <1>15 DEF CrashRenewer, histories
    <2>4. Credentials' = Credentials /\ ActiveIds' = ActiveIds
      BY <1>15 DEF CrashRenewer, Credentials, ActiveIds
    <2>5. Waiting' \subseteq Waiting /\ \A x \in Waiting' : TokenOf(x)' = TokenOf(x)
      BY <2>1, <2>2, <2>3, <2>4, ProviderTokenAssumption DEF ProviderInv, ProviderShapes, Waiting, TokenOf, AtR, GivenTo
    <2>6. ProviderTypeOK'
      BY <2>1, <2>2, <2>3, <2>4, <2>5 DEF ProviderInv, ProviderTypeOK, ProviderShapes, AtR
    <2>7. ProviderShapes'
      BY <2>1, <2>2, <2>3, <2>4, <2>5 DEF ProviderInv, ProviderTypeOK, ProviderShapes, AtR
    <2>8. Unspent' /\ OnePlace'
      BY <2>1, <2>2, <2>3, <2>4, <2>5 DEF ProviderInv, ProviderTypeOK, Unspent, OnePlace
    <2>9. CredentialWorks' /\ DisconnectHolds'
      BY <2>1, <2>2, <2>3, <2>4, <2>5, SMTT(30) DEF ProviderInv, ProviderTypeOK, ProviderShapes, Unspent, OnePlace, CredentialWorks, DisconnectHolds, Running, AtR
    <2>10. overrun' \/ LockedRun'
      BY <2>1, <2>2, <2>3, <2>4, <2>5 DEF ProviderInv, ProviderTypeOK, ProviderShapes, CredentialWorks, LockedRun, Running, AtR, OnePlace
    <2> QED
      BY <2>6, <2>7, <2>8, <2>9, <2>10 DEF ProviderInv
  <1>16. CASE LeaseEnds
    <2>1. lock' \in [owner : Renewers \cup {Nobody}, live : BOOLEAN]
      BY <1>16 DEF LeaseEnds, ProviderInv, ProviderTypeOK
    <2>2. overrun' = (overrun \/ lock.owner \in Running)
      BY <1>16 DEF LeaseEnds
    <2>3. UNCHANGED <<status, credential, renew, consent, given, valid, left, lost, wasted>>
      BY <1>16 DEF LeaseEnds, histories
    <2>4. Credentials' = Credentials /\ ActiveIds' = ActiveIds /\ Running' = Running
      BY <1>16 DEF LeaseEnds, Credentials, ActiveIds, Running
    <2>5. Waiting' \subseteq Waiting /\ \A x \in Waiting' : TokenOf(x)' = TokenOf(x)
      BY <2>1, <2>2, <2>3, <2>4, ProviderTokenAssumption DEF ProviderInv, ProviderShapes, Waiting, TokenOf, AtR, GivenTo
    <2>6. ProviderTypeOK'
      BY <2>1, <2>2, <2>3, <2>4, <2>5 DEF ProviderInv, ProviderTypeOK, ProviderShapes, AtR
    <2>7. ProviderShapes'
      BY <2>1, <2>2, <2>3, <2>4, <2>5 DEF ProviderInv, ProviderTypeOK, ProviderShapes, AtR
    <2>8. Unspent' /\ OnePlace'
      BY <2>1, <2>2, <2>3, <2>4, <2>5 DEF ProviderInv, ProviderTypeOK, Unspent, OnePlace
    <2>9. CredentialWorks' /\ DisconnectHolds'
      BY <2>1, <2>2, <2>3, <2>4, <2>5 DEF ProviderInv, ProviderTypeOK, ProviderShapes, Unspent, OnePlace, CredentialWorks, DisconnectHolds, Running, AtR
    <2>10. overrun' \/ LockedRun'
      BY <2>1, <2>2, <2>3, <2>4, <2>5 DEF ProviderInv, ProviderTypeOK, ProviderShapes, CredentialWorks, LockedRun, Running, AtR, OnePlace
    <2> QED
      BY <2>6, <2>7, <2>8, <2>9, <2>10 DEF ProviderInv
  <1>17. CASE UNCHANGED providerVars
    <2>1. UNCHANGED <<status, lock, credential, renew, consent, given, valid, left, overrun, lost, wasted>>
      BY <1>17 DEF providerVars
    <2>2. Credentials' = Credentials /\ ActiveIds' = ActiveIds /\ Running' = Running
      BY <1>17 DEF providerVars, Credentials, ActiveIds, Running
    <2>3. Waiting' \subseteq Waiting /\ \A x \in Waiting' : TokenOf(x)' = TokenOf(x)
      BY <2>1, <2>2, ProviderTokenAssumption DEF ProviderInv, ProviderShapes, Waiting, TokenOf, AtR, GivenTo
    <2>4. ProviderTypeOK'
      BY <2>1, <2>2, <2>3 DEF ProviderInv, ProviderTypeOK, ProviderShapes, AtR
    <2>5. ProviderShapes'
      BY <2>1, <2>2, <2>3 DEF ProviderInv, ProviderTypeOK, ProviderShapes, AtR
    <2>6. Unspent' /\ OnePlace'
      BY <2>1, <2>2, <2>3 DEF ProviderInv, ProviderTypeOK, Unspent, OnePlace
    <2>7. CredentialWorks' /\ DisconnectHolds'
      BY <2>1, <2>2, <2>3 DEF ProviderInv, ProviderTypeOK, ProviderShapes, Unspent, OnePlace, CredentialWorks, DisconnectHolds, Running, AtR
    <2>8. overrun' \/ LockedRun'
      BY <2>1, <2>2, <2>3 DEF ProviderInv, ProviderTypeOK, ProviderShapes, CredentialWorks, LockedRun, Running, AtR, OnePlace
    <2> QED
      BY <2>4, <2>5, <2>6, <2>7, <2>8 DEF ProviderInv
  <1> QED
    BY <1>1, <1>2, <1>3, <1>4, <1>5, <1>6, <1>7, <1>8, <1>9, <1>10, <1>11, <1>12, <1>13, <1>14, <1>15, <1>16, <1>17 DEF ProviderNext

(* The token of the provider is renewed in time, sent once, and dropped    *)
(* for good upon a disconnection, however refreshes, authorizations and    *)
(* the end of a lease meet (MercadoPagoRefreshService.refresh,             *)
(* completeOAuth, disconnect), for any number of them.                     *)
THEOREM TokensCorrect == ProviderSpec => []ProviderSafe
  <1>1. ProviderInit => ProviderInv
    BY ProviderStarts
  <1>2. ProviderInv /\ [ProviderNext]_providerVars => ProviderInv'
    BY ProviderSteps
  <1>3. ProviderInv => ProviderSafe
    BY DEF ProviderInv, ProviderSafe, LockHolds, LockedRun
  <1> QED
    BY <1>1, <1>2, <1>3, PTL DEF ProviderSpec

----------------------------------------------------------------------------
(* McpOAuth.                                                               *)

ConnectionRow == [request : Requests, revoked : BOOLEAN]
PairRow == [connection : Nat, parent : Nat, rotated : BOOLEAN, life : {"fresh", "expired", "purged"}, late : BOOLEAN]
CallRow == [at : {"idle", "approve", "write", "deny", "consume", "issue", "rotate", "revoke", "cut"},
            on : Requests \cup Nat, seen : Nat]

(* What each call holds, by where it stands.                               *)
Fits(at, on, seen) ==
  /\ at \in {"approve", "write", "deny"} => on \in Requests
  /\ at = "write" => seen < MaxConnections
  /\ at \in {"consume", "issue", "rotate", "revoke", "cut"} => on \in Connections
  /\ at = "rotate" => seen \in Pairs /\ ~pair[seen].late
OAuthShapes ==
  /\ connection \in Seq(ConnectionRow) /\ pair \in Seq(PairRow) /\ call \in [Calls -> CallRow]
  /\ \A k \in Calls : Fits(call[k].at, call[k].on, call[k].seen)
  /\ \A r \in Requests : request[r].code # 0 => request[r].code \in Connections
  /\ \A c \in Connections : request[connection[c].request].approvals >= 1

(* A token is rotated before its successor exists, and one call issues it. *)
Renewing(k) == At(k, "issue") /\ call[k].seen # 0
RotatedOnce ==
  /\ \A p \in Pairs : pair[p].parent # 0 => pair[p].parent \in Pairs /\ pair[pair[p].parent].rotated
  /\ \A p, q \in Pairs : pair[p].parent # 0 /\ pair[p].parent = pair[q].parent => p = q
  /\ \A k \in Calls : Renewing(k) => call[k].seen \in Pairs /\ pair[call[k].seen].rotated
  /\ \A k \in Calls, p \in Pairs : Renewing(k) => pair[p].parent # call[k].seen
  /\ \A k, l \in Calls : Renewing(k) /\ Renewing(l) /\ call[k].seen = call[l].seen => k = l

(* A code of a request approved once is spent before its pair exists, and  *)
(* one call issues it.                                                     *)
ApprovedOnce(c) == request[connection[c].request].approvals = 1
Spent(c)        == request[connection[c].request].status # "APPROVED"
First(p)        == pair[p].parent = 0
Exchanging(k)   == At(k, "issue") /\ call[k].seen = 0
SpentOnce ==
  /\ \A p \in Pairs : First(p) /\ ApprovedOnce(pair[p].connection) => Spent(pair[p].connection)
  /\ \A k \in Calls : Exchanging(k) /\ ApprovedOnce(call[k].on) => Spent(call[k].on)
  /\ \A p, q \in Pairs : First(p) /\ First(q) /\ pair[p].connection = pair[q].connection
                          /\ ApprovedOnce(pair[p].connection) => p = q
  /\ \A k \in Calls, p \in Pairs : Exchanging(k) /\ First(p) /\ ApprovedOnce(call[k].on)
                          => pair[p].connection # call[k].on
  /\ \A k, l \in Calls : Exchanging(k) /\ Exchanging(l) /\ call[k].on = call[l].on
                          /\ ApprovedOnce(call[k].on) => k = l

(* What is issued under a revoked connection is known as late, and renews  *)
(* nothing.                                                                *)
LateIsLast ==
  /\ \A p \in Pairs : pair[p].late => connection[pair[p].connection].revoked
  /\ \A p \in Pairs : connection[pair[p].connection].revoked => pair[p].late \/ pair[p].rotated
  /\ \A p \in Pairs : pair[p].parent # 0 => ~pair[pair[p].parent].late
  /\ \A k \in Calls : Renewing(k) => ~pair[call[k].seen].late

OAuthInv == OAuthTypeOK /\ OAuthShapes /\ RotatedOnce /\ SpentOnce /\ LateIsLast /\ LimitHeld

LEMMA OAuthRows ==
  ASSUME OAuthShapes
  PROVE  /\ Len(connection) \in Nat /\ Connections = 1..Len(connection)
         /\ \A c \in Connections : connection[c] \in ConnectionRow
         /\ Len(pair) \in Nat /\ Pairs = 1..Len(pair)
         /\ \A p \in Pairs : pair[p] \in PairRow
  BY LenProperties, ElementOfSeq DEF OAuthShapes, Connections, Pairs

LEMMA OAuthStarts == OAuthInit => OAuthInv
  <1> SUFFICES ASSUME OAuthInit PROVE OAuthInv
    OBVIOUS
  <1> USE McpOAuthAssumption DEF OAuthInit
  <1>1. connection = << >> /\ Connections = {} /\ pair = << >> /\ Pairs = {} /\ Active = {} /\ Len(pair) = 0
    BY DEF Connections, Pairs, Active
  <1>2. /\ request \in [Requests -> [status : {"PENDING", "APPROVED", "CONSUMED", "DENIED", "PURGED"},
                                     code : 0..ConnectionBound, old : BOOLEAN, approvals : Nat]]
        /\ \A r \in Requests : request[r].code = 0
    OBVIOUS
  <1>3. call \in [Calls -> CallRow] /\ \A k \in Calls : call[k].at = "idle"
    BY DEF CallRow, Ended
  <1>4. ages = 0 /\ crowded = FALSE /\ crowded \in BOOLEAN
    OBVIOUS
  <1> HIDE DEF OAuthInit
  <1>5. OAuthTypeOK
    BY <1>1, <1>2, <1>3, <1>4 DEF OAuthTypeOK, At
  <1>6. OAuthShapes
    BY <1>1, <1>2, <1>3, EmptySeq DEF OAuthShapes, Fits
  <1>7. RotatedOnce /\ SpentOnce /\ LateIsLast
    BY <1>1, <1>3 DEF RotatedOnce, SpentOnce, LateIsLast, Renewing, Exchanging, At
  <1>8. LimitHeld
    BY <1>1, FS_EmptySet DEF LimitHeld
  <1> QED
    BY <1>5, <1>6, <1>7, <1>8 DEF OAuthInv

(* The step of one call.                                                   *)
LEMMA Calling ==
  ASSUME OAuthInv, NEW k \in Calls, NEW on \in Requests \cup Nat, NEW seen \in Nat,
         NEW at \in {"idle", "approve", "write", "deny", "consume", "issue", "rotate", "revoke", "cut"},
         Goes(k, at, on, seen)
  PROVE  /\ call' \in [Calls -> CallRow]
         /\ call'[k].at = at /\ call'[k].on = on /\ call'[k].seen = seen
         /\ \A l \in Calls \ {k} : call'[l] = call[l]
  BY DEF OAuthInv, OAuthShapes, Goes, CallRow

LEMMA Leaving ==
  ASSUME OAuthInv, NEW k \in Calls, Ends(k)
  PROVE  /\ call' \in [Calls -> CallRow] /\ call'[k].at = "idle"
         /\ \A l \in Calls \ {k} : call'[l] = call[l]
  BY DEF OAuthInv, OAuthShapes, Ends, Ended, CallRow

(* While no call begins an exchange, what was spent once stays so.         *)
LEMMA SpentKept ==
  ASSUME OAuthInv, Pairs' = Pairs,
         \A p \in Pairs : pair'[p].connection = pair[p].connection /\ pair'[p].parent = pair[p].parent,
         \A d \in Connections : (ApprovedOnce(d)' <=> ApprovedOnce(d)) /\ (Spent(d) => Spent(d)'),
         \A l \in Calls : Exchanging(l)' => Exchanging(l) /\ call'[l].on = call[l].on
  PROVE  SpentOnce'
  <1>1. SpentOnce
    BY DEF OAuthInv
  <1>2. \A p \in Pairs : (First(p)' <=> First(p)) /\ pair[p].connection \in Connections
    BY DEF First, OAuthInv, OAuthTypeOK
  <1>3. \A l \in Calls : Exchanging(l) => call[l].on \in Connections
    BY DEF Exchanging, OAuthInv, OAuthTypeOK
  <1>4. \A p \in Pairs' : First(p)' /\ ApprovedOnce(pair[p].connection)' => Spent(pair[p].connection)'
    BY <1>1, <1>2 DEF SpentOnce
  <1>5. \A l \in Calls : Exchanging(l)' /\ ApprovedOnce(call[l].on)' => Spent(call[l].on)'
    BY <1>1, <1>3 DEF SpentOnce
  <1>6. \A p, q \in Pairs' : First(p)' /\ First(q)' /\ pair'[p].connection = pair'[q].connection
                             /\ ApprovedOnce(pair[p].connection)' => p = q
    BY <1>1, <1>2 DEF SpentOnce
  <1>7. \A l \in Calls, p \in Pairs' : Exchanging(l)' /\ First(p)' /\ ApprovedOnce(call[l].on)'
                                       => pair'[p].connection # call'[l].on
    BY <1>1, <1>2, <1>3 DEF SpentOnce
  <1>8. \A l, m \in Calls : Exchanging(l)' /\ Exchanging(m)' /\ call'[l].on = call'[m].on
                            /\ ApprovedOnce(call[l].on)' => l = m
    BY <1>1, <1>3 DEF SpentOnce
  <1> QED
    BY <1>4, <1>5, <1>6, <1>7, <1>8 DEF SpentOnce

(* A call that only reads, and is not about to issue.                      *)
LEMMA ReadKeeps ==
  ASSUME OAuthInv, NEW k \in Calls, UNCHANGED <<request, connection, pair, ages, crowded>>,
         call' \in [Calls -> CallRow], \A l \in Calls \ {k} : call'[l] = call[l],
         call'[k].at # "issue", Fits(call'[k].at, call'[k].on, call'[k].seen)
  PROVE  OAuthInv'
  <1>1. Connections' = Connections /\ Pairs' = Pairs /\ Active' = Active
    BY DEF Connections, Pairs, Active
  <1>2. OAuthTypeOK'
    BY <1>1 DEF OAuthInv, OAuthTypeOK, At
  <1>3. OAuthShapes'
    BY <1>1 DEF OAuthInv, OAuthShapes, Fits
  <1>4. RotatedOnce'
    BY <1>1 DEF OAuthInv, RotatedOnce, Renewing, At
  <1>5. SpentOnce'
    <2>1. \A l \in Calls : Exchanging(l)' => Exchanging(l) /\ call'[l].on = call[l].on
      BY DEF Exchanging, At
    <2>2. \A d \in Connections : (ApprovedOnce(d)' <=> ApprovedOnce(d)) /\ (Spent(d) => Spent(d)')
      BY DEF ApprovedOnce, Spent
    <2> QED
      BY <1>1, <2>1, <2>2, SpentKept
  <1>6. LateIsLast' /\ LimitHeld'
    BY <1>1 DEF OAuthInv, LateIsLast, LimitHeld, Renewing, At
  <1> QED
    BY <1>2, <1>3, <1>4, <1>5, <1>6 DEF OAuthInv

LEMMA GoesKeeps ==
  ASSUME OAuthInv, NEW k \in Calls, NEW on \in Requests \cup Nat, NEW seen \in Nat,
         NEW at \in {"approve", "write", "deny", "consume", "rotate", "revoke", "cut"}, Goes(k, at, on, seen),
         Fits(at, on, seen), UNCHANGED <<request, connection, pair, ages, crowded>>
  PROVE  OAuthInv'
  BY Calling, ReadKeeps

LEMMA EndsKeeps ==
  ASSUME OAuthInv, NEW k \in Calls, Ends(k), UNCHANGED <<request, connection, pair, ages, crowded>>
  PROVE  OAuthInv'
  BY Leaving, ReadKeeps DEF Fits

(* Tokens that are rotated, or age, keep what they stem from.              *)
Marked ==
  /\ pair' \in Seq(PairRow) /\ Pairs' = Pairs /\ Len(pair') = Len(pair)
  /\ \A p \in Pairs : /\ pair'[p] \in PairRow
                      /\ pair'[p].connection = pair[p].connection /\ pair'[p].parent = pair[p].parent
                      /\ pair'[p].late = pair[p].late /\ (pair[p].rotated => pair'[p].rotated)

LEMMA MarkedTypes ==
  ASSUME OAuthInv, Marked, Connections' = Connections
  PROVE  \A p \in Pairs' : pair'[p] \in [connection : Connections', parent : 0..(p - 1), rotated : BOOLEAN,
                                         life : {"fresh", "expired", "purged"}, late : BOOLEAN]
  BY DEF OAuthInv, OAuthTypeOK, Marked, PairRow

(* A call goes on to issue, or ends; tokens may be marked meanwhile.       *)
LEMMA ShapesKept ==
  ASSUME OAuthInv, Marked, Connections' = Connections, connection' \in Seq(ConnectionRow),
         NEW k \in Calls, call' \in [Calls -> CallRow], \A l \in Calls \ {k} : call'[l] = call[l],
         call'[k].at \in {"idle", "issue"}, call'[k].at = "issue" => call'[k].on \in Connections,
         \A r \in Requests : request'[r].code = request[r].code /\ request'[r].approvals = request[r].approvals,
         \A d \in Connections : connection'[d].request = connection[d].request
  PROVE  OAuthShapes'
  <1>1. OAuthShapes /\ \A d \in Connections : connection[d].request \in Requests
    BY DEF OAuthInv, OAuthTypeOK
  <1>2. \A l \in Calls \ {k} : Fits(call[l].at, call[l].on, call[l].seen)'
    <2>1. Pairs' = Pairs /\ \A p \in Pairs : pair'[p].late = pair[p].late
      BY DEF Marked
    <2>2. \A l \in Calls \ {k} : Fits(call[l].at, call[l].on, call[l].seen)
      BY <1>1 DEF OAuthShapes
    <2> QED
      BY <2>1, <2>2 DEF Fits
  <1>3. Fits(call[k].at, call[k].on, call[k].seen)'
    BY DEF Fits
  <1>4. \A r \in Requests : request'[r].code # 0 => request'[r].code \in Connections'
    BY <1>1 DEF OAuthShapes
  <1>5. \A c \in Connections' : request'[connection'[c].request].approvals >= 1
    BY <1>1 DEF OAuthShapes
  <1>6. pair' \in Seq(PairRow)
    BY DEF Marked
  <1> QED
    BY <1>2, <1>3, <1>4, <1>5, <1>6 DEF OAuthShapes

LEMMA MarkedKeeps ==
  ASSUME OAuthInv, Marked, UNCHANGED <<request, connection, call, crowded>>, ages' \in 0..AgeBound
  PROVE  OAuthInv'
  <1>1. Connections' = Connections /\ Active' = Active
    BY DEF Connections, Active
  <1>2. OAuthTypeOK'
    BY <1>1, MarkedTypes DEF OAuthInv, OAuthTypeOK, At, Marked
  <1>3. OAuthShapes'
    BY <1>1 DEF OAuthInv, OAuthShapes, Fits, Marked
  <1>4. RotatedOnce'
    BY <1>1 DEF OAuthInv, RotatedOnce, Renewing, At, Marked
  <1>5. SpentOnce'
    <2>1. \A l \in Calls : Exchanging(l)' => Exchanging(l) /\ call'[l].on = call[l].on
      BY DEF Exchanging, At
    <2>2. \A d \in Connections : (ApprovedOnce(d)' <=> ApprovedOnce(d)) /\ (Spent(d) => Spent(d)')
      BY DEF ApprovedOnce, Spent
    <2>3. /\ Pairs' = Pairs
          /\ \A p \in Pairs : pair'[p].connection = pair[p].connection /\ pair'[p].parent = pair[p].parent
      BY DEF Marked
    <2> QED
      BY <2>1, <2>2, <2>3, SpentKept
  <1>6. LateIsLast' /\ LimitHeld'
    BY <1>1 DEF OAuthInv, LateIsLast, LimitHeld, Renewing, At, RotatedOnce, Marked
  <1> QED
    BY <1>2, <1>3, <1>4, <1>5, <1>6 DEF OAuthInv

LEMMA ApproveKeeps ==
  ASSUME OAuthInv, NEW k \in Calls, Approve(k)
  PROVE  OAuthInv'
  <1> DEFINE r == call[k].on
             n == Len(connection) + 1
  <1>1. /\ call[k].at = "write" /\ r \in Requests /\ call[k].seen < MaxConnections
        /\ call' \in [Calls -> CallRow] /\ call'[k].at = "idle"
        /\ \A l \in Calls \ {k} : call'[l] = call[l]
    BY Leaving DEF Approve, At, OAuthInv, OAuthShapes, Fits
  <1>2. UNCHANGED <<pair, ages>> /\ Pairs' = Pairs
    BY DEF Approve, Pairs
  <1>3. /\ connection' \in Seq(ConnectionRow) /\ Connections' = Connections \cup {n} /\ n \notin Connections
        /\ connection'[n] = [request |-> r, revoked |-> FALSE] /\ Len(connection') = n /\ n \in 1..ConnectionBound
        /\ \A c \in Connections : connection'[c] = connection[c]
    <2>1. [request |-> r, revoked |-> FALSE] \in ConnectionRow
      BY <1>1 DEF ConnectionRow
    <2>2. connection' = Append(connection, [request |-> r, revoked |-> FALSE]) /\ Len(connection) < ConnectionBound
      BY DEF Approve
    <2>3. connection \in Seq(ConnectionRow) /\ Len(connection) \in Nat /\ Connections = 1..Len(connection)
      BY OAuthRows DEF OAuthInv, OAuthShapes
    <2>4. /\ connection' \in Seq(ConnectionRow) /\ Len(connection') = n
          /\ connection'[n] = [request |-> r, revoked |-> FALSE]
          /\ \A c \in 1..Len(connection) : connection'[c] = connection[c]
      BY <2>1, <2>2, <2>3, AppendProperties
    <2>5. Connections' = 1..n
      BY <2>3, <2>4, LenProperties DEF Connections
    <2> QED
      BY <2>2, <2>3, <2>4, <2>5, McpOAuthAssumption
  <1>4. /\ request'[r].status = "APPROVED" /\ request'[r].code = n /\ request'[r].old = FALSE
        /\ request'[r].approvals = request[r].approvals + 1
        /\ \A q \in Requests \ {r} : request'[q] = request[q]
        /\ request' \in [Requests -> [status : {"PENDING", "APPROVED", "CONSUMED", "DENIED", "PURGED"},
                                      code : 0..ConnectionBound, old : BOOLEAN, approvals : Nat]]
    <2>1. request' = [request EXCEPT ![r] = [status |-> "APPROVED", code |-> n, old |-> FALSE,
                                             approvals |-> request[r].approvals + 1]]
      BY <1>3 DEF Approve
    <2>2. request[r].approvals + 1 \in Nat /\ n \in 0..ConnectionBound
      BY <1>1, <1>3 DEF OAuthInv, OAuthTypeOK
    <2> QED
      BY <1>1, <2>1, <2>2 DEF OAuthInv, OAuthTypeOK
  <1>5. /\ \A c \in Connections : connection[c] \in ConnectionRow
        /\ \A q \in Requests : request[q].approvals \in Nat
        /\ \A p \in Pairs : pair[p].connection \in Connections
        /\ \A l \in Calls : At(l, "issue") => call[l].on \in Connections
    BY OAuthRows DEF OAuthInv, OAuthTypeOK
  <1> HIDE DEF r, n
  <1>6. crowded' = (crowded \/ call[k].seen # Cardinality(Active))
    BY DEF Approve
  <1>7. OAuthTypeOK'
    <2>1. \A c \in Connections' : connection'[c] \in ConnectionRow
      BY <1>1, <1>3, <1>5 DEF ConnectionRow
    <2>2. \A p \in Pairs : pair[p] \in [connection : Connections', parent : 0..(p - 1), rotated : BOOLEAN,
                                       life : {"fresh", "expired", "purged"}, late : BOOLEAN]
      BY <1>3 DEF OAuthInv, OAuthTypeOK
    <2>3. \A l \in Calls : At(l, "issue")' => call'[l].on \in Connections' /\ call'[l].seen \in 0..Len(pair)
      BY <1>1, <1>3 DEF OAuthInv, OAuthTypeOK, At
    <2>4. crowded' \in BOOLEAN
      BY <1>6 DEF OAuthInv, OAuthTypeOK
    <2> QED
      BY <1>2, <1>4, <2>1, <2>2, <2>3, <2>4 DEF OAuthInv, OAuthTypeOK, ConnectionRow
  <1>8. OAuthShapes'
    <2>1. \A l \in Calls : Fits(call[l].at, call[l].on, call[l].seen)'
      BY <1>1, <1>2, <1>3 DEF OAuthInv, OAuthShapes, Fits
    <2>2. \A q \in Requests : request'[q].code # 0 => request'[q].code \in Connections'
      BY <1>3, <1>4 DEF OAuthInv, OAuthShapes
    <2>3. \A c \in Connections' : request'[connection'[c].request].approvals >= 1
      <3>1. \A q \in Requests : request[q].approvals >= 1 => request'[q].approvals >= 1
        BY <1>1, <1>4, <1>5
      <3>2. \A c \in Connections : request'[connection'[c].request].approvals >= 1
        BY <1>3, <1>5, <3>1 DEF OAuthInv, OAuthShapes, ConnectionRow
      <3>3. connection'[n].request = r /\ request'[r].approvals >= 1
        BY <1>1, <1>3, <1>4, <1>5
      <3> QED
        BY <1>3, <3>2, <3>3
    <2> QED
      BY <1>1, <1>2, <1>3, <2>1, <2>2, <2>3 DEF OAuthInv, OAuthShapes
  <1>9. RotatedOnce'
    BY <1>1, <1>2 DEF OAuthInv, RotatedOnce, Renewing, At
  <1>10. SpentOnce'
    <2>1. \A c \in Connections : ApprovedOnce(c)' => ApprovedOnce(c) /\ (Spent(c) => Spent(c)')
      <3> SUFFICES ASSUME NEW c \in Connections, ApprovedOnce(c)'
                   PROVE  ApprovedOnce(c) /\ (Spent(c) => Spent(c)')
        OBVIOUS
      <3>1. connection'[c] = connection[c] /\ connection[c].request \in Requests
            /\ request[connection[c].request].approvals >= 1
        BY <1>3, <1>5 DEF OAuthInv, OAuthShapes, ConnectionRow
      <3>2. request'[connection[c].request].approvals = 1
        BY <3>1 DEF ApprovedOnce
      <3>3. connection[c].request # r
        BY <1>4, <1>5, <3>1, <3>2
      <3> QED
        BY <1>4, <3>1, <3>2, <3>3 DEF ApprovedOnce, Spent
    <2> QED
      BY <1>1, <1>2, <1>5, <2>1 DEF OAuthInv, SpentOnce, Exchanging, First, At
  <1>11. LateIsLast'
    BY <1>1, <1>2, <1>3, <1>5, SMTT(30) DEF OAuthInv, LateIsLast, Renewing, At
  <1>12. LimitHeld'
    <2> SUFFICES ASSUME ~crowded' PROVE Cardinality(Active') <= MaxConnections
      BY DEF LimitHeld
    <2>1. Active' = Active \cup {n} /\ n \notin Active
      BY <1>3 DEF Active
    <2>2. IsFiniteSet(Active)
      <3>1. Active \subseteq 1..Len(connection) /\ Len(connection) \in Nat
        BY OAuthRows DEF Active, OAuthInv
      <3> QED
        <4>1. IsFiniteSet(1..Len(connection))
          BY <3>1, FS_Interval
        <4> QED
          BY <3>1, <4>1, FS_Subset
    <2>3. Cardinality(Active') = Cardinality(Active) + 1
      BY <2>1, <2>2, FS_AddElement
    <2>4. Cardinality(Active) \in Nat
      BY <2>2, FS_CardinalityType
    <2>5. Cardinality(Active) < MaxConnections
      BY <1>1, <1>6
    <2> QED
      BY <2>3, <2>4, <2>5, McpOAuthAssumption
  <1> QED
    BY <1>7, <1>8, <1>9, <1>10, <1>11, <1>12 DEF OAuthInv

LEMMA IssueKeeps ==
  ASSUME OAuthInv, NEW k \in Calls, Issue(k)
  PROVE  OAuthInv'
  <1> DEFINE c == call[k].on
             g == call[k].seen
             n == Len(pair) + 1
             row == [connection |-> c, parent |-> g, rotated |-> FALSE, life |-> "fresh",
                     late |-> connection[c].revoked]
  <1>1. /\ call[k].at = "issue" /\ c \in Connections /\ g \in 0..Len(pair)
        /\ call' \in [Calls -> CallRow] /\ call'[k].at = "idle"
        /\ \A l \in Calls \ {k} : call'[l] = call[l]
    BY Leaving DEF Issue, At, OAuthInv, OAuthTypeOK
  <1>2. UNCHANGED <<request, connection, ages, crowded>> /\ Connections' = Connections /\ Active' = Active
    BY DEF Issue, Connections, Active
  <1>3. connection[c].revoked \in BOOLEAN /\ Connections \subseteq Nat
    BY <1>1, OAuthRows DEF OAuthInv, ConnectionRow
  <1>4. row \in PairRow
    BY <1>1, <1>3, OAuthRows DEF OAuthInv, PairRow
  <1>5. /\ pair' \in Seq(PairRow) /\ Pairs' = Pairs \cup {n} /\ n \notin Pairs /\ Len(pair') = n
        /\ pair'[n] = row /\ n \in Nat /\ Len(pair) \in Nat /\ Pairs = 1..Len(pair)
        /\ \A p \in Pairs : pair'[p] = pair[p]
    <2>1. pair' = Append(pair, row)
      BY DEF Issue
    <2>2. pair \in Seq(PairRow) /\ Len(pair) \in Nat /\ Pairs = 1..Len(pair)
      BY OAuthRows DEF OAuthInv, OAuthShapes
    <2> HIDE DEF row
    <2>3. /\ pair' \in Seq(PairRow) /\ Len(pair') = n /\ pair'[n] = row
          /\ \A p \in 1..Len(pair) : pair'[p] = pair[p]
      BY <1>4, <2>1, <2>2, AppendProperties
    <2>4. Pairs' = 1..n
      BY <2>2, <2>3, LenProperties DEF Pairs
    <2> QED
      BY <2>2, <2>3, <2>4
  <1>6. /\ row.connection = c /\ row.parent = g /\ row.rotated = FALSE /\ row.life = "fresh"
        /\ row.late = connection[c].revoked
    OBVIOUS
  <1> HIDE DEF row, c, g, n
  <1>7. OAuthTypeOK'
    <2>1. row \in [connection : Connections, parent : 0..(n - 1), rotated : BOOLEAN,
                   life : {"fresh", "expired", "purged"}, late : BOOLEAN]
      BY <1>1, <1>3, <1>5 DEF row, n
    <2>2. \A p \in Pairs' : pair'[p] \in [connection : Connections, parent : 0..(p - 1), rotated : BOOLEAN,
                                         life : {"fresh", "expired", "purged"}, late : BOOLEAN]
      BY <1>5, <2>1 DEF OAuthInv, OAuthTypeOK
    <2>3. \A l \in Calls : At(l, "issue")' => call'[l].on \in Connections /\ call'[l].seen \in 0..Len(pair')
      BY <1>1, <1>5 DEF OAuthInv, OAuthTypeOK, At, n
    <2> QED
      BY <1>2, <2>2, <2>3 DEF OAuthInv, OAuthTypeOK
  <1>8. OAuthShapes'
    BY <1>1, <1>2, <1>5, SMTT(30) DEF OAuthInv, OAuthShapes, Fits
  <1>9. RotatedOnce'
    <2>1. g # 0 => Renewing(k) /\ g \in Pairs /\ pair[g].rotated /\ ~\E p \in Pairs : pair[p].parent = g
      BY <1>1 DEF OAuthInv, RotatedOnce, Renewing, At, g
    <2>2. \A l \in Calls : Renewing(l)' => l # k /\ Renewing(l) /\ call'[l] = call[l]
      BY <1>1 DEF Renewing, At
    <2>3. \A l \in Calls : Renewing(l)' => call'[l].seen # g
      BY <2>1, <2>2 DEF OAuthInv, RotatedOnce, Renewing, g
    <2> QED
      <3>1. RotatedOnce
        BY DEF OAuthInv
      <3>2. \A p \in Pairs' : pair'[p].parent # 0 => pair'[p].parent \in Pairs /\ pair[pair'[p].parent].rotated
        BY <1>5, <1>6, <2>1, <3>1 DEF RotatedOnce
      <3>3. \A p, q \in Pairs' : pair'[p].parent # 0 /\ pair'[p].parent = pair'[q].parent => p = q
        BY <1>5, <1>6, <2>1, <3>1 DEF RotatedOnce
      <3>4. \A l \in Calls : Renewing(l)' => call'[l].seen \in Pairs /\ pair[call'[l].seen].rotated
        BY <2>2, <3>1 DEF RotatedOnce
      <3>5. \A l \in Calls, p \in Pairs' : Renewing(l)' => pair'[p].parent # call'[l].seen
        BY <1>5, <1>6, <2>2, <2>3, <3>1 DEF RotatedOnce
      <3>6. \A l, m \in Calls : Renewing(l)' /\ Renewing(m)' /\ call'[l].seen = call'[m].seen => l = m
        BY <2>2, <3>1 DEF RotatedOnce
      <3> QED
        BY <1>5, <3>2, <3>3, <3>4, <3>5, <3>6 DEF RotatedOnce
  <1>10. SpentOnce'
    <2>1. g = 0 => Exchanging(k)
      BY <1>1 DEF Exchanging, At, g
    <2>2. \A l \in Calls : Exchanging(l)' => l # k /\ Exchanging(l) /\ call'[l] = call[l]
      BY <1>1 DEF Exchanging, At
    <2>3. \A d : (ApprovedOnce(d)' <=> ApprovedOnce(d)) /\ (Spent(d)' <=> Spent(d))
      BY <1>2 DEF ApprovedOnce, Spent
    <2>4. \A p \in Pairs' : First(p)' => IF p = n THEN Exchanging(k) /\ pair'[p].connection = c
                                      ELSE p \in Pairs /\ First(p) /\ pair'[p].connection = pair[p].connection
      BY <1>5, <1>6, <2>1 DEF First
    <2> QED
      BY <1>5, <2>2, <2>3, <2>4 DEF OAuthInv, SpentOnce, c
  <1>11. LateIsLast'
    <2>1. g # 0 => Renewing(k) /\ g \in Pairs /\ ~pair[g].late
      BY <1>1 DEF OAuthInv, RotatedOnce, LateIsLast, Renewing, At, g
    <2>2. \A l \in Calls : Renewing(l)' => Renewing(l) /\ call'[l] = call[l] /\ call[l].seen \in Pairs
      BY <1>1 DEF OAuthInv, RotatedOnce, Renewing, At
    <2>3. \A p \in Pairs : pair[p].parent # 0 => pair[p].parent \in Pairs
      BY DEF OAuthInv, RotatedOnce
    <2> QED
      BY <1>2, <1>5, <1>6, <2>1, <2>2, <2>3, SMTT(30) DEF OAuthInv, LateIsLast
  <1> QED
    BY <1>2, <1>7, <1>8, <1>9, <1>10, <1>11 DEF OAuthInv, LimitHeld

RequestRow == [status : {"PENDING", "APPROVED", "CONSUMED", "DENIED", "PURGED"}, code : 0..ConnectionBound,
               old : BOOLEAN, approvals : Nat]

(* A request that is decided, spent, aged or purged.                       *)
LEMMA RequestKeeps ==
  ASSUME OAuthInv, NEW r \in Requests, request' \in [Requests -> RequestRow],
         \A q \in Requests \ {r} : request'[q] = request[q],
         request'[r].approvals = request[r].approvals, request'[r].code \in {0, request[r].code},
         request'[r].status = "APPROVED" => request[r].status = "APPROVED",
         UNCHANGED <<connection, pair, crowded>>, ages' \in 0..AgeBound,
         call' \in [Calls -> CallRow], \A k \in Calls : call'[k] = call[k] \/ call'[k].at = "idle"
  PROVE  OAuthInv'
  <1>1. Connections' = Connections /\ Pairs' = Pairs /\ Active' = Active
    BY DEF Connections, Pairs, Active
  <1>2. OAuthTypeOK'
    BY <1>1 DEF OAuthInv, OAuthTypeOK, At, RequestRow
  <1>3. \A c \in Connections : connection[c].request \in Requests
    BY DEF OAuthInv, OAuthTypeOK
  <1>4. OAuthShapes'
    BY <1>1, <1>3 DEF OAuthInv, OAuthShapes, Fits
  <1>5. RotatedOnce'
    BY <1>1 DEF OAuthInv, RotatedOnce, Renewing, At
  <1>6. SpentOnce'
    <2>1. \A c \in Connections : (ApprovedOnce(c)' <=> ApprovedOnce(c)) /\ (Spent(c) => Spent(c)')
      BY <1>3 DEF ApprovedOnce, Spent
    <2>2. \A k \in Calls : Exchanging(k)' => Exchanging(k) /\ call'[k] = call[k] /\ call[k].on \in Connections
      BY DEF Exchanging, At, OAuthInv, OAuthTypeOK
    <2>3. \A p \in Pairs : First(p)' = First(p) /\ pair[p].connection \in Connections
      BY DEF First, OAuthInv, OAuthTypeOK
    <2> QED
      BY <1>1, <2>1, <2>2, <2>3 DEF OAuthInv, SpentOnce
  <1>7. LateIsLast' /\ LimitHeld'
    BY <1>1 DEF OAuthInv, LateIsLast, LimitHeld, Renewing, At
  <1> QED
    BY <1>2, <1>4, <1>5, <1>6, <1>7 DEF OAuthInv

LEMMA ConsumeKeeps ==
  ASSUME OAuthInv, NEW k \in Calls, Consume(k)
  PROVE  OAuthInv'
  <1>1. PICK c \in Connections, r \in Requests : c \in Nat /\ c = call[k].on /\ r = connection[c].request
    BY OAuthRows DEF Consume, At, OAuthInv, OAuthShapes, Fits, ConnectionRow
  <1>2. CASE request[r].status # "APPROVED"
    BY <1>1, <1>2, EndsKeeps DEF Consume
  <1>3. CASE request[r].status = "APPROVED"
    <2>1. request' = [request EXCEPT ![r].status = "CONSUMED"] /\ Goes(k, "issue", c, 0)
      BY <1>1, <1>3 DEF Consume
    <2>2. UNCHANGED <<connection, pair, ages, crowded>> /\ Connections' = Connections /\ Pairs' = Pairs /\ Active' = Active
      BY DEF Consume, Connections, Pairs, Active
    <2>3. /\ request' \in [Requests -> RequestRow] /\ request'[r].status = "CONSUMED"
          /\ \A q \in Requests : request'[q].approvals = request[q].approvals /\ request'[q].code = request[q].code
          /\ \A q \in Requests \ {r} : request'[q] = request[q]
      <3>1. request \in [Requests -> RequestRow]
        BY DEF OAuthInv, OAuthTypeOK, RequestRow
      <3>2. request' \in [Requests -> RequestRow]
        BY <2>1, <3>1 DEF RequestRow
      <3>3. \A q \in Requests \ {r} : request'[q] = request[q]
        BY <2>1, <3>1
      <3>4. request'[r].status = "CONSUMED" /\ request'[r].approvals = request[r].approvals /\ request'[r].code = request[r].code
        BY <2>1, <3>1 DEF RequestRow
      <3> QED
        BY <3>2, <3>3, <3>4
    <2>4. /\ call' \in [Calls -> CallRow] /\ call'[k].at = "issue" /\ call'[k].on = c /\ call'[k].seen = 0
          /\ \A l \in Calls \ {k} : call'[l] = call[l]
      BY <1>1, <2>1, Calling
    <2>5. OAuthTypeOK'
      <3>1. \A l \in Calls : At(l, "issue")' => call'[l].on \in Connections /\ call'[l].seen \in 0..Len(pair)
        BY <2>4, OAuthRows, SMTT(30) DEF OAuthInv, OAuthTypeOK, At
      <3> QED
        BY <2>2, <2>3, <3>1 DEF OAuthInv, OAuthTypeOK, RequestRow
    <2>6. \A d \in Connections : connection[d].request \in Requests
      BY DEF OAuthInv, OAuthTypeOK
    <2>7. OAuthShapes'
      <3>1. connection' \in Seq(ConnectionRow) /\ \A d \in Connections : connection'[d].request = connection[d].request
        BY <2>2 DEF OAuthInv, OAuthShapes
      <3>2. Marked
        BY <2>2, OAuthRows DEF Marked, OAuthInv, OAuthShapes
      <3> QED
        BY <1>1, <2>2, <2>3, <2>4, <3>1, <3>2, ShapesKept
    <2>8. RotatedOnce'
      BY <2>2, <2>4 DEF OAuthInv, RotatedOnce, Renewing, At
    <2>9. SpentOnce'
      <3>1. \A d \in Connections : (ApprovedOnce(d)' <=> ApprovedOnce(d)) /\ (Spent(d) => Spent(d)')
        BY <2>2, <2>3, <2>6 DEF ApprovedOnce, Spent
      <3>2. ~Spent(c) /\ Spent(c)'
        BY <1>1, <1>3, <2>2, <2>3 DEF Spent
      <3>3. \A l \in Calls : Exchanging(l)' => IF l = k THEN call'[l].on = c
                                             ELSE Exchanging(l) /\ call'[l] = call[l] /\ call[l].on \in Connections
        BY <2>4 DEF Exchanging, At, OAuthInv, OAuthTypeOK
      <3>4. \A p \in Pairs : First(p)' = First(p) /\ pair[p].connection \in Connections
        BY <2>2 DEF First, OAuthInv, OAuthTypeOK
      <3>5. ApprovedOnce(c) => /\ \A l \in Calls : Exchanging(l) => call[l].on # c
                               /\ \A p \in Pairs : First(p) => pair[p].connection # c
        BY <3>2 DEF OAuthInv, SpentOnce
      <3>6. SpentOnce
        BY DEF OAuthInv
      <3>7. \A p \in Pairs : First(p)' /\ ApprovedOnce(pair[p].connection)' => Spent(pair[p].connection)'
        BY <2>2, <3>1, <3>4, <3>6 DEF SpentOnce
      <3>8. \A l \in Calls : Exchanging(l)' /\ ApprovedOnce(call[l].on)' => Spent(call[l].on)'
        BY <2>2, <3>1, <3>2, <3>3, <3>6 DEF SpentOnce
      <3>9. \A l \in Calls, p \in Pairs : Exchanging(l)' /\ First(p)' /\ ApprovedOnce(call[l].on)'
                                         => pair[p].connection # call'[l].on
        BY <2>2, <3>1, <3>3, <3>4, <3>5, <3>6 DEF SpentOnce
      <3>10. \A l, m \in Calls : Exchanging(l)' /\ Exchanging(m)' /\ call'[l].on = call'[m].on
                                 /\ ApprovedOnce(call[l].on)' => l = m
        BY <2>2, <3>1, <3>3, <3>5, <3>6 DEF SpentOnce
      <3>11. \A p, q \in Pairs : First(p)' /\ First(q)' /\ pair[p].connection = pair[q].connection
                                 /\ ApprovedOnce(pair[p].connection)' => p = q
        BY <2>2, <3>1, <3>4, <3>6 DEF SpentOnce
      <3> QED
        BY <2>2, <3>7, <3>8, <3>9, <3>10, <3>11 DEF SpentOnce
    <2>10. LateIsLast' /\ LimitHeld'
      BY <2>2, <2>4 DEF OAuthInv, LateIsLast, LimitHeld, Renewing, At
    <2> QED
      BY <2>5, <2>7, <2>8, <2>9, <2>10 DEF OAuthInv
  <1> QED
    BY <1>2, <1>3

(* One token of a sequence of pairs gets other marks.                      *)
LEMMA OneMarked ==
  ASSUME OAuthInv, NEW p \in Pairs, NEW row \in PairRow, pair' = [pair EXCEPT ![p] = row],
         row.connection = pair[p].connection, row.parent = pair[p].parent, row.late = pair[p].late,
         pair[p].rotated => row.rotated
  PROVE  Marked /\ pair'[p] = row /\ \A q \in Pairs \ {p} : pair'[q] = pair[q]
  <1>1. pair \in Seq(PairRow) /\ Pairs = 1..Len(pair) /\ Len(pair) \in Nat /\ \A q \in Pairs : pair[q] \in PairRow
    BY OAuthRows DEF OAuthInv, OAuthShapes
  <1>2. /\ pair' \in Seq(PairRow) /\ Len(pair') = Len(pair)
        /\ \A q \in Pairs : pair'[q] = IF q = p THEN row ELSE pair[q]
    BY <1>1, ExceptSeq
  <1>3. Pairs' = Pairs
    BY DEF Pairs
  <1> QED
    BY <1>1, <1>2, <1>3 DEF Marked

LEMMA RotateKeeps ==
  ASSUME OAuthInv, NEW k \in Calls, Rotate(k)
  PROVE  OAuthInv'
  <1>1. PICK c \in Connections, p \in Pairs :
          c = call[k].on /\ p = call[k].seen /\ ~pair[p].late /\ c \in Nat /\ p \in Nat
    BY OAuthRows DEF Rotate, At, OAuthInv, OAuthShapes, Fits
  <1>2. CASE pair[p].rotated
    BY <1>1, <1>2, EndsKeeps DEF Rotate
  <1>3. CASE ~pair[p].rotated
    <2>1. pair' = [pair EXCEPT ![p].rotated = TRUE] /\ Goes(k, "issue", c, p)
      BY <1>1, <1>3 DEF Rotate
    <2>2. UNCHANGED <<request, connection, ages, crowded>> /\ Connections' = Connections /\ Active' = Active
      BY DEF Rotate, Connections, Active
    <2>3. Marked /\ pair'[p].rotated /\ \A q \in Pairs \ {p} : pair'[q] = pair[q]
      <3> DEFINE row == [pair[p] EXCEPT !.rotated = TRUE]
      <3>1. pair[p] \in PairRow
        BY <1>1, OAuthRows DEF OAuthInv
      <3>2. /\ row \in PairRow /\ row.connection = pair[p].connection /\ row.parent = pair[p].parent
            /\ row.late = pair[p].late /\ row.rotated = TRUE
        BY <3>1 DEF PairRow
      <3>3. pair' = [pair EXCEPT ![p] = row]
        BY <2>1
      <3> HIDE DEF row
      <3> QED
        BY <1>1, <3>2, <3>3, OneMarked
    <2>4. /\ call' \in [Calls -> CallRow] /\ call'[k].at = "issue" /\ call'[k].on = c /\ call'[k].seen = p
          /\ \A l \in Calls \ {k} : call'[l] = call[l]
      BY <1>1, <2>1, Calling
    <2>5. p # 0 /\ p \in 0..Len(pair) /\ Pairs' = Pairs /\ Len(pair') = Len(pair)
      BY <1>1, <2>3, OAuthRows DEF OAuthInv, Marked
    <2>6. OAuthTypeOK'
      <3>1. \A l \in Calls : At(l, "issue")' => call'[l].on \in Connections /\ call'[l].seen \in 0..Len(pair')
        BY <1>1, <2>4, <2>5 DEF OAuthInv, OAuthTypeOK, At
      <3> QED
        BY <2>2, <2>3, <3>1, MarkedTypes DEF OAuthInv, OAuthTypeOK
    <2>7. OAuthShapes'
      <3>1. connection' \in Seq(ConnectionRow) /\ Connections' = Connections
            /\ \A d \in Connections : connection'[d].request = connection[d].request
        BY <2>2 DEF OAuthInv, OAuthShapes
      <3>2. \A r \in Requests : request'[r].code = request[r].code /\ request'[r].approvals = request[r].approvals
        BY <2>2
      <3> QED
        BY <1>1, <2>3, <2>4, <3>1, <3>2, ShapesKept
    <2>8. RotatedOnce'
      <3>1. \A l \in Calls : Renewing(l)' => IF l = k THEN call'[l].seen = p ELSE Renewing(l) /\ call'[l] = call[l]
        BY <2>4 DEF Renewing, At
      <3>2. /\ \A l \in Calls : Renewing(l) => call[l].seen # p
            /\ \A q \in Pairs : pair[q].parent # p
        BY <1>1, <1>3, <2>5 DEF OAuthInv, RotatedOnce
      <3> QED
        BY <2>3, <2>5, <3>1, <3>2, SMTT(30) DEF OAuthInv, RotatedOnce, Marked
    <2>9. SpentOnce'
      <3>1. \A l \in Calls : Exchanging(l)' => Exchanging(l) /\ call'[l].on = call[l].on
        BY <2>4, <2>5 DEF Exchanging, At
      <3>2. \A d \in Connections : (ApprovedOnce(d)' <=> ApprovedOnce(d)) /\ (Spent(d) => Spent(d)')
        BY <2>2 DEF ApprovedOnce, Spent
      <3>3. \A q \in Pairs : pair'[q].connection = pair[q].connection /\ pair'[q].parent = pair[q].parent
        BY <2>3 DEF Marked
      <3> QED
        BY <2>5, <3>1, <3>2, <3>3, SpentKept
    <2>10. LateIsLast' /\ LimitHeld'
      <3>1. \A l \in Calls : Renewing(l)' => (Renewing(l) /\ call'[l] = call[l] /\ call[l].seen \in Pairs) \/ call'[l].seen = p
        BY <2>4 DEF Renewing, At, OAuthInv, RotatedOnce
      <3>2. \A q \in Pairs : pair[q].parent # 0 => pair[q].parent \in Pairs
        BY DEF OAuthInv, RotatedOnce
      <3>3. \A q \in Pairs : /\ pair'[q].connection = pair[q].connection /\ pair'[q].parent = pair[q].parent
                            /\ pair'[q].late = pair[q].late /\ (pair[q].rotated => pair'[q].rotated)
        BY <2>3 DEF Marked
      <3>4. LateIsLast /\ ~pair[p].late /\ UNCHANGED connection
        BY <1>1, <2>2 DEF OAuthInv
      <3>5. \A q \in Pairs : pair'[q].late => connection[pair'[q].connection].revoked
        BY <3>3, <3>4 DEF LateIsLast
      <3>6. \A q \in Pairs : connection[pair'[q].connection].revoked => pair'[q].late \/ pair'[q].rotated
        BY <3>3, <3>4 DEF LateIsLast
      <3>7. \A q \in Pairs : pair'[q].parent # 0 => ~pair'[pair'[q].parent].late
        BY <3>2, <3>3, <3>4 DEF LateIsLast
      <3>8. \A l \in Calls : Renewing(l)' => ~pair'[call'[l].seen].late
        <4>1. \A l \in Calls : Renewing(l) => ~pair[call[l].seen].late
          BY <3>4 DEF LateIsLast
        <4>2. p \in Pairs /\ ~pair'[p].late
          BY <1>1, <3>3, <3>4
        <4> QED
          BY <3>1, <3>3, <4>1, <4>2
      <3>9. LimitHeld'
        BY <2>2 DEF OAuthInv, LimitHeld
      <3> QED
        BY <2>5, <3>4, <3>5, <3>6, <3>7, <3>8, <3>9 DEF LateIsLast
    <2> QED
      BY <2>6, <2>7, <2>8, <2>9, <2>10 DEF OAuthInv
  <1> QED
    BY <1>2, <1>3

LEMMA CutKeeps ==
  ASSUME OAuthInv, NEW k \in Calls, Cut(k)
  PROVE  OAuthInv'
  <1>0. PICK c \in Connections : c = call[k].on
    BY DEF Cut, At, OAuthInv, OAuthShapes, Fits
  <1>1. /\ call[k].at = "cut"
        /\ call' \in [Calls -> CallRow] /\ call'[k].at = "idle"
        /\ \A l \in Calls \ {k} : call'[l] = call[l]
    BY Leaving DEF Cut, At
  <1>2. UNCHANGED <<request, ages, crowded>>
    BY DEF Cut
  <1>3. /\ connection' \in Seq(ConnectionRow) /\ Connections' = Connections
        /\ \A d \in Connections : connection'[d].request = connection[d].request /\ connection'[d] \in ConnectionRow
        /\ connection'[c].revoked /\ \A d \in Connections \ {c} : connection'[d] = connection[d]
    <2> DEFINE row == [connection[c] EXCEPT !.revoked = TRUE]
    <2>1. connection \in Seq(ConnectionRow) /\ Connections = 1..Len(connection) /\ \A d \in Connections : connection[d] \in ConnectionRow
      BY OAuthRows DEF OAuthInv, OAuthShapes
    <2>2. row \in ConnectionRow /\ row.request = connection[c].request /\ row.revoked = TRUE
      BY <2>1 DEF ConnectionRow
    <2>3. connection' = [connection EXCEPT ![c] = row]
      BY <1>0 DEF Cut
    <2> HIDE DEF row
    <2>4. /\ connection' \in Seq(ConnectionRow)
          /\ \A d \in Connections : connection'[d] = IF d = c THEN row ELSE connection[d]
      BY <1>1, <2>1, <2>2, <2>3, ExceptSeq
    <2>5. Connections' = Connections
      BY <2>3 DEF Connections
    <2> QED
      BY <1>1, <2>1, <2>2, <2>4, <2>5
  <1>4. Marked /\ \A p \in Pairs : pair[p].connection = c => pair'[p].rotated
    <2>1. pair' = Cuts(c)
      BY <1>0 DEF Cut
    <2>2. pair \in Seq(PairRow) /\ Pairs = 1..Len(pair) /\ Len(pair) \in Nat /\ \A p \in Pairs : pair[p] \in PairRow
      BY OAuthRows DEF OAuthInv, OAuthShapes
    <2>3. \A p \in Pairs : /\ pair'[p] \in PairRow
                          /\ pair'[p].connection = pair[p].connection /\ pair'[p].parent = pair[p].parent
                          /\ pair'[p].late = pair[p].late /\ (pair[p].rotated => pair'[p].rotated)
                          /\ (pair[p].connection = c => pair'[p].rotated)
      BY <2>1, <2>2 DEF Cuts, PairRow
    <2>4. Pairs' = Pairs
      BY <2>1 DEF Cuts, Pairs
    <2>5. pair' \in Seq(PairRow) /\ Len(pair') = Len(pair)
      <3>1. pair' \in [1..Len(pair) -> PairRow]
        BY <2>1, <2>2, <2>3 DEF Cuts
      <3>2. pair' \in Seq(PairRow)
        BY <2>2, <3>1, IsASeq
      <3> QED
        BY <2>2, <3>1, <3>2, LenProperties
    <2> QED
      BY <2>3, <2>4, <2>5 DEF Marked
  <1>5. \A d \in Connections : (ApprovedOnce(d)' <=> ApprovedOnce(d)) /\ (Spent(d)' <=> Spent(d))
    BY <1>2, <1>3 DEF ApprovedOnce, Spent
  <1>6. OAuthTypeOK'
    <2>1. \A l \in Calls : At(l, "issue")' => call'[l].on \in Connections /\ call'[l].seen \in 0..Len(pair)
      BY <1>1 DEF OAuthInv, OAuthTypeOK, At
    <2>2. \A d \in Connections : connection'[d] \in [request : Requests, revoked : BOOLEAN]
      BY <1>3 DEF ConnectionRow
    <2>3. Pairs' = Pairs /\ Len(pair') = Len(pair)
      BY <1>4 DEF Marked
    <2> QED
      BY <1>2, <1>3, <1>4, <2>1, <2>2, <2>3, MarkedTypes DEF OAuthInv, OAuthTypeOK
  <1>7. OAuthShapes'
    BY <1>1, <1>2, <1>3, <1>4, ShapesKept
  <1>8. RotatedOnce'
    BY <1>1, <1>4 DEF OAuthInv, RotatedOnce, Renewing, At, Marked
  <1>9. SpentOnce'
    <2>1. \A l \in Calls : Exchanging(l)' => Exchanging(l) /\ call'[l].on = call[l].on
      BY <1>1 DEF Exchanging, At
    <2>2. /\ Pairs' = Pairs
          /\ \A p \in Pairs : pair'[p].connection = pair[p].connection /\ pair'[p].parent = pair[p].parent
      BY <1>4 DEF Marked
    <2> QED
      BY <1>5, <2>1, <2>2, SpentKept
  <1>10. LateIsLast'
    <2>1. \A l \in Calls : Renewing(l)' => Renewing(l) /\ call'[l] = call[l] /\ call[l].seen \in Pairs
      BY <1>1 DEF Renewing, At, OAuthInv, RotatedOnce
    <2>2. \A p \in Pairs : pair[p].connection \in Connections
      BY DEF OAuthInv, OAuthTypeOK
    <2> QED
      <3>1. \A p \in Pairs : /\ pair'[p].connection = pair[p].connection /\ pair'[p].parent = pair[p].parent
                            /\ pair'[p].late = pair[p].late /\ (pair[p].rotated => pair'[p].rotated)
                            /\ (pair[p].connection = c => pair'[p].rotated)
        BY <1>4 DEF Marked
      <3>2. \A p \in Pairs : connection[pair[p].connection].revoked => connection'[pair[p].connection].revoked
        BY <1>3, <2>2
      <3>3. \A p \in Pairs : connection'[pair[p].connection].revoked => pair[p].connection = c \/ connection[pair[p].connection].revoked
        BY <1>3, <2>2
      <3>4. Pairs' = Pairs /\ \A p \in Pairs : pair[p].parent # 0 => pair[p].parent \in Pairs
        BY <1>4 DEF Marked, OAuthInv, RotatedOnce
      <3> QED
        BY <2>1, <3>1, <3>2, <3>3, <3>4 DEF OAuthInv, LateIsLast
  <1>11. LimitHeld'
    <2>1. Active' \subseteq Active
      BY <1>3 DEF Active
    <2>2. IsFiniteSet(Active)
      <3>1. Active \subseteq 1..Len(connection) /\ Len(connection) \in Nat
        BY OAuthRows DEF Active, OAuthInv
      <3>2. IsFiniteSet(1..Len(connection))
        BY <3>1, FS_Interval
      <3> QED
        BY <3>1, <3>2, FS_Subset
    <2>3. Cardinality(Active') <= Cardinality(Active) /\ Cardinality(Active') \in Nat /\ Cardinality(Active) \in Nat
      BY <2>1, <2>2, FS_Subset, FS_CardinalityType
    <2> QED
      BY <1>2, <2>3, McpOAuthAssumption DEF OAuthInv, LimitHeld
  <1> QED
    BY <1>6, <1>7, <1>8, <1>9, <1>10, <1>11 DEF OAuthInv

LEMMA OAuthSteps ==
  ASSUME OAuthInv, [OAuthNext]_oauthVars
  PROVE  OAuthInv'
  <1>0. /\ Connections \subseteq Nat /\ Pairs \subseteq Nat /\ 0 \in Nat
        /\ \A p \in Pairs : pair[p].connection \in Connections
    BY OAuthRows DEF OAuthInv, OAuthTypeOK
  <1>1. ASSUME NEW k \in Calls, NEW r \in Requests, Load(k, r, "approve") \/ Load(k, r, "deny")
        PROVE  OAuthInv'
    BY <1>0, <1>1, GoesKeeps DEF Load, Fits
  <1>2. ASSUME NEW k \in Calls, NEW r \in Requests, ReadCode(k, r)
        PROVE  OAuthInv'
    <2>1. request[r].code \in Connections
      BY <1>2 DEF ReadCode, OAuthInv, OAuthShapes
    <2>2. Goes(k, "revoke", request[r].code, 0) \/ Goes(k, "consume", request[r].code, 0)
      BY <1>2 DEF ReadCode
    <2> QED
      BY <1>0, <1>2, <2>1, <2>2, GoesKeeps DEF ReadCode, Fits
  <1>3. ASSUME NEW k \in Calls, Count(k)
        PROVE  OAuthInv'
    <2>1. call[k].on \in Requests
      BY <1>3 DEF Count, At, OAuthInv, OAuthShapes, Fits
    <2>2. Cardinality(Active) \in Nat
      <3>1. Active \subseteq 1..Len(connection) /\ Len(connection) \in Nat
        BY OAuthRows DEF Active, OAuthInv
      <3>2. IsFiniteSet(1..Len(connection))
        BY <3>1, FS_Interval
      <3> QED
        BY <3>1, <3>2, FS_Subset, FS_CardinalityType
    <2>3. CASE Cardinality(Active) >= MaxConnections
      BY <1>3, <2>3, EndsKeeps DEF Count
    <2>4. CASE ~(Cardinality(Active) >= MaxConnections)
      <3>1. Fits("write", call[k].on, Cardinality(Active))
        BY <2>1, <2>2, <2>4, McpOAuthAssumption DEF Fits
      <3> QED
        BY <1>3, <2>1, <2>2, <2>4, <3>1, GoesKeeps DEF Count
    <2> QED
      BY <2>3, <2>4
  <1>4. ASSUME NEW k \in Calls, Deny(k)
        PROVE  OAuthInv'
    <2>1. PICK r \in Requests : r = call[k].on
      BY <1>4 DEF Deny, At, OAuthInv, OAuthShapes, Fits
    <2>2. request \in [Requests -> RequestRow] /\ request' = [request EXCEPT ![r].status = "DENIED"]
      BY <1>4, <2>1 DEF Deny, OAuthInv, OAuthTypeOK, RequestRow
    <2>3. request' \in [Requests -> RequestRow] /\ request'[r].status = "DENIED"
          /\ request'[r].approvals = request[r].approvals /\ request'[r].code = request[r].code
          /\ \A q \in Requests \ {r} : request'[q] = request[q]
      BY <2>2 DEF RequestRow
    <2>4. call' \in [Calls -> CallRow] /\ \A l \in Calls : call'[l] = call[l] \/ call'[l].at = "idle"
      BY <1>4, Leaving DEF Deny
    <2>5. UNCHANGED <<connection, pair, crowded>> /\ ages' \in 0..AgeBound
      BY <1>4 DEF Deny, OAuthInv, OAuthTypeOK
    <2> QED
      BY <2>3, <2>4, <2>5, RequestKeeps
  <1>5. ASSUME NEW k \in Calls, NEW p \in Pairs, ReadRefresh(k, p)
        PROVE  OAuthInv'
    <2>1. \/ Goes(k, "revoke", pair[p].connection, 0)
          \/ Goes(k, "rotate", pair[p].connection, p) /\ ~connection[pair[p].connection].revoked
      BY <1>5 DEF ReadRefresh
    <2>2. ~connection[pair[p].connection].revoked => ~pair[p].late
      BY DEF OAuthInv, LateIsLast
    <2>3. /\ Fits("revoke", pair[p].connection, 0)
          /\ ~pair[p].late => Fits("rotate", pair[p].connection, p)
      BY <1>0 DEF Fits
    <2> QED
      BY <1>0, <1>5, <2>1, <2>2, <2>3, GoesKeeps DEF ReadRefresh
  <1>6. ASSUME NEW k \in Calls, NEW c \in Connections, AskRevocation(k, c)
        PROVE  OAuthInv'
    BY <1>0, <1>6, GoesKeeps DEF AskRevocation, Fits
  <1>7. ASSUME NEW k \in Calls, ReadConnection(k)
        PROVE  OAuthInv'
    <2>1. call[k].on \in Connections
      BY <1>7 DEF ReadConnection, At, OAuthInv, OAuthShapes, Fits
    <2>2. Ends(k) \/ Goes(k, "cut", call[k].on, 0)
      BY <1>7 DEF ReadConnection
    <2>3. UNCHANGED <<request, connection, pair, ages, crowded>>
      BY <1>7 DEF ReadConnection
    <2>4. Fits("cut", call[k].on, 0)
      BY <2>1 DEF Fits
    <2> QED
      BY <1>0, <2>1, <2>2, <2>3, <2>4, EndsKeeps, GoesKeeps
  <1>8. ASSUME NEW k \in Calls, Crash(k)
        PROVE  OAuthInv'
    BY <1>8, EndsKeeps DEF Crash
  <1>9. ASSUME NEW r \in Requests, Age(r) \/ PurgeRequest(r)
        PROVE  OAuthInv'
    <2>1. request \in [Requests -> RequestRow]
      BY DEF OAuthInv, OAuthTypeOK, RequestRow
    <2>2. \/ request' = [request EXCEPT ![r].old = TRUE]
          \/ request' = [request EXCEPT ![r].status = "PURGED", ![r].code = 0]
      BY <1>9 DEF Age, PurgeRequest
    <2>3. /\ request' \in [Requests -> RequestRow] /\ (request'[r].status = "APPROVED" => request[r].status = "APPROVED")
          /\ request'[r].approvals = request[r].approvals /\ request'[r].code \in {0, request[r].code}
          /\ \A q \in Requests \ {r} : request'[q] = request[q]
      <3>1. CASE request' = [request EXCEPT ![r].old = TRUE]
        BY <2>1, <3>1 DEF RequestRow
      <3>2. CASE request' = [request EXCEPT ![r].status = "PURGED", ![r].code = 0]
        <4>1. 0 \in 0..ConnectionBound
          BY McpOAuthAssumption
        <4>2. request' \in [Requests -> RequestRow]
          BY <2>1, <3>2, <4>1 DEF RequestRow
        <4>3. request'[r].status = "PURGED" /\ request'[r].code = 0 /\ request'[r].approvals = request[r].approvals
          BY <2>1, <3>2 DEF RequestRow
        <4>4. \A q \in Requests \ {r} : request'[q] = request[q]
          BY <2>1, <3>2
        <4> QED
          BY <4>2, <4>3, <4>4
      <3> QED
        BY <2>2, <3>1, <3>2
    <2>4. call' \in [Calls -> CallRow] /\ \A l \in Calls : call'[l] = call[l] \/ call'[l].at = "idle"
      BY <1>9 DEF Age, PurgeRequest, OAuthInv, OAuthShapes
    <2>5. UNCHANGED <<connection, pair, crowded>> /\ ages' \in 0..AgeBound
      BY <1>9, McpOAuthAssumption DEF Age, PurgeRequest, OAuthInv, OAuthTypeOK
    <2> QED
      BY <2>3, <2>4, <2>5, RequestKeeps
  <1>10. ASSUME NEW p \in Pairs, Expire(p) \/ PurgePair(p)
        PROVE  OAuthInv'
    <2>1. PICK life \in {"expired", "purged"} : pair' = [pair EXCEPT ![p].life = life]
      BY <1>10 DEF Expire, PurgePair
    <2> DEFINE row == [pair[p] EXCEPT !.life = life]
    <2>2. pair[p] \in PairRow
      BY OAuthRows DEF OAuthInv
    <2>3. /\ row \in PairRow /\ row.connection = pair[p].connection /\ row.parent = pair[p].parent
          /\ row.late = pair[p].late /\ row.rotated = pair[p].rotated
      BY <2>2 DEF PairRow
    <2>4. pair' = [pair EXCEPT ![p] = row]
      BY <2>1
    <2>5. UNCHANGED <<request, connection, call, crowded>> /\ ages' \in 0..AgeBound
      BY <1>10, McpOAuthAssumption DEF Expire, PurgePair, OAuthInv, OAuthTypeOK
    <2> HIDE DEF row
    <2>6. Marked
      BY <2>3, <2>4, OneMarked
    <2> QED
      BY <2>5, <2>6, MarkedKeeps
  <1>11. CASE UNCHANGED oauthVars
    <2>1. Connections' = Connections /\ Pairs' = Pairs /\ Active' = Active
      BY <1>11 DEF oauthVars, Connections, Pairs, Active
    <2>2. Marked /\ UNCHANGED <<request, connection, call, crowded>> /\ ages' \in 0..AgeBound
      BY <1>11, <2>1, OAuthRows DEF oauthVars, Marked, OAuthInv, OAuthShapes, OAuthTypeOK
    <2> QED
      BY <2>2, MarkedKeeps
  <1> QED
    BY <1>1, <1>2, <1>3, <1>4, <1>5, <1>6, <1>7, <1>8, <1>9, <1>10, <1>11,
       ApproveKeeps, ConsumeKeeps, RotateKeeps, IssueKeeps, CutKeeps DEF OAuthNext

LEMMA OAuthIsSafe ==
  ASSUME OAuthInv
  PROVE  OAuthSafe
  <1>1. Pairs \subseteq 1..Len(pair) /\ IsFiniteSet(1..Len(pair))
    BY OAuthRows, FS_Interval DEF OAuthInv
  <1>2. SingleUse
    <2>1. ASSUME NEW g \in Grants
          PROVE  Cardinality({p \in Pairs : pair[p].parent = g}) = 1
      <3>1. PICK q \in Pairs : pair[q].parent = g /\ g # 0
        BY <2>1 DEF Grants
      <3>2. {p \in Pairs : pair[p].parent = g} = {q}
        BY <3>1 DEF OAuthInv, RotatedOnce
      <3> QED
        BY <3>2, FS_Singleton
    <2>2. ASSUME NEW c \in Connections, request[connection[c].request].approvals = 1
          PROVE  Cardinality({p \in Pairs : pair[p].connection = c /\ pair[p].parent = 0}) <= 1
      <3> DEFINE S == {p \in Pairs : pair[p].connection = c /\ pair[p].parent = 0}
      <3>1. IsFiniteSet(S)
        BY <1>1, FS_Subset
      <3>2. \A p, q \in S : p = q
        BY <2>2 DEF OAuthInv, SpentOnce, First, ApprovedOnce
      <3> QED
        BY <3>1, <3>2, AtMostOne
    <2> QED
      BY <2>1, <2>2 DEF SingleUse
  <1>3. RevokedForGood
    BY DEF OAuthInv, LateIsLast, RevokedForGood, Accepts
  <1> QED
    BY <1>2, <1>3 DEF OAuthInv, OAuthSafe

(* A code or a refresh token yields one pair, nothing of a revoked          *)
(* connection works, and a store keeps to its limit, whatever the order in *)
(* which consents, exchanges, rotations, revocations and purges of         *)
(* OAuthTokenService, OAuthAuthorizationService and OAuthConnectionService *)
(* meet, for any number of calls, requests, connections and tokens.        *)
THEOREM GrantsCorrect == OAuthSpec => []OAuthSafe
  <1>1. OAuthInit => OAuthInv
    BY OAuthStarts
  <1>2. OAuthInv /\ [OAuthNext]_oauthVars => OAuthInv'
    BY OAuthSteps
  <1>3. OAuthInv => OAuthSafe
    BY OAuthIsSafe
  <1> QED
    BY <1>1, <1>2, <1>3, PTL DEF OAuthSpec

----------------------------------------------------------------------------
(***************************************************************************)
(* What holds of service tabs for any number of users, tabs, orders and    *)
(* payments: the version of a tab names its content, a PAID tab has a      *)
(* valid payment, and the active tabs of a number are one at most.         *)
(*                                                                         *)
(* Amounts play no part: the inductive invariant types the tabs, the       *)
(* screens and what the requests are about, says that a screen shows a tab *)
(* that exists, as it is or as it was at an earlier version, and leaves    *)
(* out how much was paid.                                                  *)
(***************************************************************************)

Typed ==
  /\ tab \in [Tabs -> TabRow]
  /\ screen \in [Users -> [on : Tabs \cup {None}, row : TabRow]]
  /\ paid = [m \in Payments |-> paid[m]] /\ req = [u \in Users |-> req[u]]
  /\ \A u \in Users : /\ req[u].at \in {"checkout", "cancel"} => req[u].what \in Tabs
                      /\ req[u].at \in {"confirm", "reverse"} => req[u].what \in Manuals
                      /\ req[u].at = "charge" => req[u].what \in Charges

(* A screen shows a tab that was opened, as it is or as it was earlier.    *)
Shown ==
  \A u \in Users, t \in Tabs : screen[u].on = t =>
    /\ tab[t].status # None
    /\ screen[u].row.version <= tab[t].version
    /\ screen[u].row.version = tab[t].version => screen[u].row = tab[t]

(* What was paid, is being paid or is to be reversed is paid for a tab     *)
(* that was opened.                                                        *)
Opened ==
  /\ \A m \in Manuals : paid[m].status # None => tab[TabOf[m]].status # None
  /\ \A u \in Users : /\ req[u].at = "reverse" => paid[req[u].what].status # None
                      /\ req[u].at = "confirm" => tab[TabOf[req[u].what]].status # None

(* Who asks for a checkout is responsible for the tab, unless the tab was  *)
(* written since the screen of the user showed it.                         *)
Responsible ==
  \A u \in Users : req[u].at = "checkout" =>
    screen[u].on = req[u].what /\ (Current(u, req[u].what) => tab[req[u].what].assigned = u)

IInv == Typed /\ Shown /\ Opened /\ Responsible /\ PaidHasPayment /\ OneActivePerNumber

----------------------------------------------------------------------------
(* What an action may do to the tabs: nothing, open one, or write one that *)
(* was opened, one version further.                                        *)
Opens(t)  == /\ tab[t].status = None /\ NumberFree(t)
             /\ \E u \in Users : tab' = [tab EXCEPT ![t] = [status |-> "OPEN", version |-> 0, assigned |-> u]]
Writes(t) == /\ tab[t].status # None
             /\ \E s \in TabStatus \ {None}, a \in Users \cup {None} :
                  /\ Write(t, s, a)
                  /\ s \in Open => tab[t].status \in Open \/ NumberFree(t)
                  /\ s = "PAID" => tab[t].status = "PAID" \/ \E m \in Manuals : TabOf[m] = t /\ paid'[m].status = "valid"
TabEffect == tab' = tab \/ \E t \in Tabs : Opens(t) \/ Writes(t)

(* Only ShowTab changes a screen, and shows the tab as it is.                 *)
ScreenEffect ==
  \A u \in Users :
    \/ screen'[u] = screen[u]
    \/ \E t \in Tabs : screen'[u] = [on |-> t, row |-> tab[t]] /\ tab[t].status # None /\ tab' = tab

(* A manual payment stays valid, or its tab is PAID no longer.             *)
PaidEffect ==
  \A m \in Manuals :
    /\ paid[m].status # None => paid'[m].status # None
    /\ paid[m].status = None => paid'[m].status = None \/ tab'[TabOf[m]].status # None
    /\ paid[m].status = "valid" => paid'[m].status = "valid" \/ tab'[TabOf[m]].status # "PAID"

(* A reversal is about a payment that was made, and a payment about a tab  *)
(* that was opened.                                                        *)
ReqEffect ==
  \A u \in Users :
    /\ req'[u].at = "reverse" =>
         \/ req[u].at = "reverse" /\ req'[u].what = req[u].what
         \/ req'[u].what \in Manuals /\ paid[req'[u].what].status # None
    /\ req'[u].at = "confirm" =>
         \/ req[u].at = "confirm" /\ req'[u].what = req[u].what
         \/ req'[u].what \in Manuals /\ tab[TabOf[req'[u].what]].status # None

(* A checkout is asked from a screen that shows the tab, by the user       *)
(* responsible, who looks at nothing else until it is answered; the answer *)
(* changes the tab only if the screen is still current.                    *)
CheckoutEffect ==
  \A u \in Users :
    /\ req'[u].at = "checkout" =>
         \/ req'[u] = req[u] /\ screen'[u] = screen[u]
         \/ /\ screen' = screen /\ tab' = tab /\ req'[u].what \in Tabs
            /\ screen[u].on = req'[u].what /\ tab[req'[u].what].assigned = u
    /\ req[u].at = "checkout" /\ req'[u] = Idle => tab' = tab \/ Current(u, req[u].what)

Effects == Typed' /\ TabEffect /\ ScreenEffect /\ PaidEffect /\ ReqEffect /\ CheckoutEffect

LEMMA TabStep ==
  ASSUME Typed, Typed', Shown, TabEffect, ScreenEffect
  PROVE  Shown'
  <1> SUFFICES ASSUME NEW u \in Users, NEW t \in Tabs, screen'[u].on = t
               PROVE  /\ tab'[t].status # None
                      /\ screen'[u].row.version <= tab'[t].version
                      /\ screen'[u].row.version = tab'[t].version => screen'[u].row = tab'[t]
    BY DEF Shown
  <1>1. CASE tab' = tab
    BY <1>1 DEF ScreenEffect, Shown, Typed, TabRow
  <1>2. CASE \E s \in Tabs : Opens(s)
    <2>1. PICK s \in Tabs : Opens(s)
      BY <1>2
    <2>2. tab' # tab
      BY <2>1, ParametersAssumption DEF Opens, Open, Typed
    <2>3. screen'[u] = screen[u] /\ tab[t].status # None
      BY <2>2 DEF Shown, ScreenEffect
    <2>4. tab'[t] = tab[t]
      BY <2>1, <2>3 DEF Opens, Typed
    <2> QED
      BY <2>3, <2>4 DEF Shown
  <1>3. CASE \E s \in Tabs : Writes(s)
    <2>1. PICK s \in Tabs, st \in TabStatus \ {None}, a \in Users \cup {None} : Write(s, st, a)
      BY <1>3 DEF Writes
    <2>2. tab' # tab
      BY <2>1 DEF Write, Typed, TabRow
    <2>3. screen'[u] = screen[u] /\ screen[u].row.version <= tab[t].version
      BY <2>2 DEF Shown, ScreenEffect
    <2>4. CASE t = s
      <3>1. tab'[t].status = st /\ tab'[t].version = tab[t].version + 1
        BY <2>1, <2>4 DEF Write, Typed
      <3> QED
        BY <2>3, <3>1 DEF Typed, TabRow
    <2>5. CASE t # s
      <3>1. tab'[t] = tab[t]
        BY <2>1, <2>5 DEF Write, Typed
      <3> QED
        BY <2>3, <3>1 DEF Shown
    <2> QED
      BY <2>4, <2>5
  <1> QED
    BY <1>1, <1>2, <1>3 DEF TabEffect

----------------------------------------------------------------------------
(* A request, once asked, keeps what it is about; an answer forgets it.    *)
LEMMA AskTyped ==
  ASSUME Typed, NEW u \in Users, NEW at, NEW what, NEW saw, Ask(u, at, what, saw),
         at \in {"checkout", "cancel"} => what \in Tabs, at \in {"confirm", "reverse"} => what \in Manuals,
         at = "charge" => what \in Charges
  PROVE  /\ req' = [v \in Users |-> req'[v]]
         /\ \A v \in Users : /\ req'[v].at \in {"checkout", "cancel"} => req'[v].what \in Tabs
                             /\ req'[v].at \in {"confirm", "reverse"} => req'[v].what \in Manuals
                             /\ req'[v].at = "charge" => req'[v].what \in Charges
  BY DEF Typed, Ask

LEMMA AnswerTyped ==
  ASSUME Typed, NEW u \in Users, Answer(u)
  PROVE  /\ req' = [v \in Users |-> req'[v]]
         /\ \A v \in Users : /\ req'[v].at \in {"checkout", "cancel"} => req'[v].what \in Tabs
                             /\ req'[v].at \in {"confirm", "reverse"} => req'[v].what \in Manuals
                             /\ req'[v].at = "charge" => req'[v].what \in Charges
  BY DEF Typed, Answer, Idle

LEMMA WriteTyped ==
  ASSUME Typed, NEW t \in Tabs, NEW s \in TabStatus, NEW a \in Users \cup {None}, Write(t, s, a)
  PROVE  /\ tab' \in [Tabs -> TabRow]
         /\ tab'[t] = [status |-> s, version |-> tab[t].version + 1, assigned |-> a]
         /\ \A r \in Tabs \ {t} : tab'[r] = tab[r]
  BY DEF Typed, Write, TabRow

LEMMA FieldTypes ==
  ASSUME Typed, NEW t \in Tabs
  PROVE  tab[t].status \in TabStatus /\ tab[t].version \in Nat /\ tab[t].assigned \in Users \cup {None}
  BY DEF Typed, TabRow

----------------------------------------------------------------------------
(* Every step of the system, as the tabs see it.                           *)
LEMMA StepEffects ==
  ASSUME Typed, Shown, Opened, Next
  PROVE  Effects
  <1>1. ASSUME NEW u \in Users, NEW t \in Tabs, ShowTab(u, t)
        PROVE  Effects
    <2>1. Typed'
      BY <1>1 DEF ShowTab, Typed
    <2>2. TabEffect
      BY <1>1 DEF ShowTab, TabEffect
    <2>3. ScreenEffect
      BY <1>1 DEF ShowTab, ScreenEffect
    <2>4. PaidEffect /\ ReqEffect
      BY <1>1 DEF ShowTab, PaidEffect, ReqEffect
    <2>5. CheckoutEffect
      BY <1>1 DEF ShowTab, CheckoutEffect, Idle, Typed
    <2> QED
      BY <2>1, <2>2, <2>3, <2>4, <2>5 DEF Effects
  <1>2. ASSUME NEW u \in Users, NEW t \in Tabs, OpenTab(u, t)
        PROVE  Effects
    <2>1. Typed'
      BY <1>2 DEF OpenTab, Typed, TabRow, TabStatus, Open
    <2>2. TabEffect
      BY <1>2 DEF OpenTab, TabEffect, Opens
    <2>3. ScreenEffect
      BY <1>2 DEF OpenTab, ScreenEffect
    <2>4. PaidEffect /\ ReqEffect
      BY <1>2 DEF OpenTab, PaidEffect, ReqEffect
    <2>5. CheckoutEffect
      BY <1>2 DEF OpenTab, CheckoutEffect, Idle, Typed
    <2> QED
      BY <2>1, <2>2, <2>3, <2>4, <2>5 DEF Effects
  <1>3. ASSUME NEW u \in Users, NEW t \in Tabs, Update(u, t)
        PROVE  Effects
    <2>1. Typed'
      BY <1>3, FieldTypes, WriteTyped DEF Update, Typed
    <2>2. TabEffect
      BY <1>3, FieldTypes, ParametersAssumption DEF Update, TabEffect, Writes, TabStatus, Open
    <2>3. ScreenEffect
      BY <1>3 DEF Update, ScreenEffect
    <2>4. PaidEffect /\ ReqEffect
      BY <1>3 DEF Update, PaidEffect, ReqEffect
    <2>5. CheckoutEffect
      BY <1>3 DEF Update, CheckoutEffect, Idle, Typed
    <2> QED
      BY <2>1, <2>2, <2>3, <2>4, <2>5 DEF Effects
  <1>4. ASSUME NEW u \in Users, NEW t \in Tabs, StartCheckout(u, t)
        PROVE  Effects
    <2>1. Typed'
      BY <1>4, AskTyped DEF StartCheckout, Typed
    <2>2. TabEffect
      BY <1>4 DEF StartCheckout, TabEffect
    <2>3. ScreenEffect
      BY <1>4 DEF StartCheckout, ScreenEffect
    <2>4. PaidEffect /\ ReqEffect
      BY <1>4, AskTyped DEF StartCheckout, PaidEffect, ReqEffect, Ask, Typed
    <2>5. CheckoutEffect
      BY <1>4 DEF StartCheckout, CheckoutEffect, Ask, Idle, Typed
    <2> QED
      BY <2>1, <2>2, <2>3, <2>4, <2>5 DEF Effects
  <1>5. ASSUME NEW u \in Users, NEW t \in Tabs, Reopen(u, t)
        PROVE  Effects
    <2>1. Typed'
      BY <1>5, FieldTypes, WriteTyped DEF Reopen, Typed, TabStatus, Open
    <2>2. TabEffect
      <3>1. tab[t].status = "CHECKOUT_PENDING" /\ Write(t, "OPEN", tab[t].assigned)
        BY <1>5 DEF Reopen
      <3>2. tab[t].status # None /\ tab[t].status \in Open
        BY <3>1, ParametersAssumption DEF Open
      <3>3. "OPEN" \in TabStatus \ {None} /\ tab[t].assigned \in Users \cup {None}
        <4>1. "OPEN" \in Open /\ None \notin Open
          BY ParametersAssumption DEF Open
        <4>2. tab[t].assigned \in Users \cup {None}
          BY FieldTypes
        <4> QED
          BY <4>1, <4>2 DEF TabStatus
      <3>4. Writes(t)
        BY <3>1, <3>2, <3>3 DEF Writes
      <3> QED
        BY <3>4 DEF TabEffect
    <2>3. ScreenEffect
      BY <1>5 DEF Reopen, ScreenEffect
    <2>4. PaidEffect /\ ReqEffect
      BY <1>5 DEF Reopen, PaidEffect, ReqEffect
    <2>5. CheckoutEffect
      BY <1>5 DEF Reopen, CheckoutEffect, Idle, Typed
    <2> QED
      BY <2>1, <2>2, <2>3, <2>4, <2>5 DEF Effects
  <1>6. ASSUME NEW u \in Users, NEW t \in Tabs, StartCancel(u, t)
        PROVE  Effects
    <2>1. Typed'
      BY <1>6, AskTyped DEF StartCancel, Typed
    <2>2. TabEffect
      BY <1>6 DEF StartCancel, TabEffect
    <2>3. ScreenEffect
      BY <1>6 DEF StartCancel, ScreenEffect
    <2>4. PaidEffect /\ ReqEffect
      BY <1>6 DEF StartCancel, PaidEffect, ReqEffect, Ask, Typed
    <2>5. CheckoutEffect
      BY <1>6 DEF StartCancel, CheckoutEffect, Ask, Idle, Typed
    <2> QED
      BY <2>1, <2>2, <2>3, <2>4, <2>5 DEF Effects
  <1>7. ASSUME NEW u \in Users, NEW t \in Tabs, NEW v \in Users, Assign(u, t, v)
        PROVE  Effects
    <2>1. Typed'
      BY <1>7, FieldTypes, WriteTyped DEF Assign, Typed
    <2>2. TabEffect
      BY <1>7, FieldTypes, ParametersAssumption DEF Assign, Current, Shown, TabEffect, Writes, TabStatus
    <2>3. ScreenEffect
      BY <1>7 DEF Assign, ScreenEffect
    <2>4. PaidEffect /\ ReqEffect
      BY <1>7 DEF Assign, PaidEffect, ReqEffect
    <2>5. CheckoutEffect
      BY <1>7 DEF Assign, CheckoutEffect, Idle, Typed
    <2> QED
      BY <2>1, <2>2, <2>3, <2>4, <2>5 DEF Effects
  <1>8. ASSUME NEW u \in Users, NEW o \in Orders, StartOrder(u, o)
        PROVE  Effects
    <2>1. Typed'
      BY <1>8, AskTyped DEF StartOrder, Typed
    <2>2. TabEffect
      BY <1>8 DEF StartOrder, TabEffect
    <2>3. ScreenEffect
      BY <1>8 DEF StartOrder, ScreenEffect
    <2>4. PaidEffect /\ ReqEffect
      BY <1>8 DEF StartOrder, PaidEffect, ReqEffect, Ask, Typed
    <2>5. CheckoutEffect
      BY <1>8 DEF StartOrder, CheckoutEffect, Ask, Idle, Typed
    <2> QED
      BY <2>1, <2>2, <2>3, <2>4, <2>5 DEF Effects
  <1>9. ASSUME NEW u \in Users, NEW m \in Manuals, StartConfirm(u, m)
        PROVE  Effects
    <2>1. Typed'
      BY <1>9, AskTyped DEF StartConfirm, Typed
    <2>2. TabEffect
      BY <1>9 DEF StartConfirm, TabEffect
    <2>3. ScreenEffect
      BY <1>9 DEF StartConfirm, ScreenEffect
    <2>4. PaidEffect /\ ReqEffect
      <3>1. TabOf[m] \in Tabs /\ tab[TabOf[m]].status # None
        BY <1>9, ParametersAssumption DEF StartConfirm, Payments, Open
      <3>2. PaidEffect
        BY <1>9, ParametersAssumption DEF StartConfirm, PaidEffect
      <3>3. \E saw : req' = [req EXCEPT ![u] = [at |-> "confirm", what |-> m, saw |-> saw]]
        BY <1>9 DEF StartConfirm, Ask
      <3> QED
        BY <3>1, <3>2, <3>3 DEF ReqEffect, Typed
    <2>5. CheckoutEffect
      <3>1. \E saw : req' = [req EXCEPT ![u] = [at |-> "confirm", what |-> m, saw |-> saw]]
        BY <1>9 DEF StartConfirm, Ask
      <3> QED
        BY <1>9, <3>1 DEF StartConfirm, CheckoutEffect, Idle, Typed
    <2> QED
      BY <2>1, <2>2, <2>3, <2>4, <2>5 DEF Effects
  <1>10. ASSUME NEW u \in Users, NEW m \in Manuals, StartReverse(u, m)
        PROVE  Effects
    <2>1. Typed'
      BY <1>10, AskTyped DEF StartReverse, Typed
    <2>2. TabEffect
      BY <1>10 DEF StartReverse, TabEffect
    <2>3. ScreenEffect
      BY <1>10 DEF StartReverse, ScreenEffect
    <2>4. PaidEffect /\ ReqEffect
      BY <1>10, ParametersAssumption DEF StartReverse, PaidEffect, ReqEffect, Ask, Typed
    <2>5. CheckoutEffect
      BY <1>10 DEF StartReverse, CheckoutEffect, Ask, Idle, Typed
    <2> QED
      BY <2>1, <2>2, <2>3, <2>4, <2>5 DEF Effects
  <1>11. ASSUME NEW u \in Users, NEW c \in Charges, StartCharge(u, c)
        PROVE  Effects
    <2>1. Typed'
      BY <1>11, AskTyped DEF StartCharge, Typed
    <2>2. TabEffect
      BY <1>11 DEF StartCharge, TabEffect
    <2>3. ScreenEffect
      BY <1>11 DEF StartCharge, ScreenEffect
    <2>4. PaidEffect /\ ReqEffect
      BY <1>11 DEF StartCharge, PaidEffect, ReqEffect, Ask, Typed
    <2>5. CheckoutEffect
      BY <1>11 DEF StartCharge, CheckoutEffect, Ask, Idle, Typed
    <2> QED
      BY <2>1, <2>2, <2>3, <2>4, <2>5 DEF Effects
  <1>12. ASSUME NEW u \in Users, FinishCheckout(u)
        PROVE  Effects
    <2>1. Typed'
      BY <1>12, FieldTypes, WriteTyped, AnswerTyped DEF FinishCheckout, Typed, TabStatus, Open
    <2>2. TabEffect
      <3>1. req[u].what \in Tabs
        BY <1>12 DEF FinishCheckout, Typed
      <3>2. CASE tab' = tab
        BY <3>2 DEF TabEffect
      <3>3. CASE tab' # tab
        <4>1. /\ Write(req[u].what, "CHECKOUT_PENDING", tab[req[u].what].assigned)
              /\ tab[req[u].what].status = "OPEN"
          BY <1>12, <3>1, <3>3 DEF FinishCheckout, Current, Shown
        <4>2. tab[req[u].what].assigned \in Users \cup {None}
          BY <3>1, FieldTypes
        <4>3. "CHECKOUT_PENDING" \in TabStatus \ {None} /\ "OPEN" # None /\ "CHECKOUT_PENDING" # "PAID"
          BY ParametersAssumption DEF TabStatus, Open
        <4>4. Writes(req[u].what)
          BY <4>1, <4>2, <4>3 DEF Writes, Open
        <4> QED
          BY <3>1, <4>4 DEF TabEffect
      <3> QED
        BY <3>2, <3>3
    <2>3. ScreenEffect
      BY <1>12 DEF FinishCheckout, ScreenEffect
    <2>4. PaidEffect /\ ReqEffect
      BY <1>12 DEF FinishCheckout, PaidEffect, ReqEffect, Answer, Idle, Typed
    <2>5. CheckoutEffect
      BY <1>12 DEF FinishCheckout, CheckoutEffect, Answer, Current, Idle, Typed
    <2> QED
      BY <2>1, <2>2, <2>3, <2>4, <2>5 DEF Effects
  <1>13. ASSUME NEW u \in Users, FinishCancel(u)
        PROVE  Effects
    <2>1. Typed'
      BY <1>13, FieldTypes, WriteTyped, AnswerTyped DEF FinishCancel, Typed, TabStatus, Open
    <2>2. TabEffect
      <3>1. req[u].what \in Tabs
        BY <1>13 DEF FinishCancel, Typed
      <3>2. CASE tab' = tab
        BY <3>2 DEF TabEffect
      <3>3. CASE tab' # tab
        <4>1. /\ Write(req[u].what, "CANCELLED", tab[req[u].what].assigned)
              /\ tab[req[u].what].status # None
          BY <1>13, <3>1, <3>3 DEF FinishCancel, Current, Shown
        <4>2. Writes(req[u].what)
          <5>1. "CANCELLED" \in TabStatus \ {None} /\ "CANCELLED" \notin Open
            BY ParametersAssumption DEF TabStatus, Open
          <5>2. tab[req[u].what].assigned \in Users \cup {None}
            BY <3>1, FieldTypes
          <5> QED
            BY <4>1, <5>1, <5>2 DEF Writes
        <4> QED
          BY <3>1, <4>2 DEF TabEffect
      <3> QED
        BY <3>2, <3>3
    <2>3. ScreenEffect
      BY <1>13 DEF FinishCancel, ScreenEffect
    <2>4. PaidEffect /\ ReqEffect
      BY <1>13 DEF FinishCancel, PaidEffect, ReqEffect, Answer, Idle, Typed
    <2>5. CheckoutEffect
      BY <1>13 DEF FinishCancel, CheckoutEffect, Answer, Idle, Typed
    <2> QED
      BY <2>1, <2>2, <2>3, <2>4, <2>5 DEF Effects
  <1>14. ASSUME NEW u \in Users, FinishOrder(u)
        PROVE  Effects
    <2>1. Typed'
      BY <1>14, AnswerTyped DEF FinishOrder, Typed
    <2>2. TabEffect
      BY <1>14 DEF FinishOrder, TabEffect
    <2>3. ScreenEffect
      BY <1>14 DEF FinishOrder, ScreenEffect
    <2>4. PaidEffect /\ ReqEffect
      BY <1>14 DEF FinishOrder, PaidEffect, ReqEffect, Answer, Idle, Typed
    <2>5. CheckoutEffect
      BY <1>14 DEF FinishOrder, CheckoutEffect, Answer, Idle, Typed
    <2> QED
      BY <2>1, <2>2, <2>3, <2>4, <2>5 DEF Effects
  <1>15. ASSUME NEW u \in Users, FinishReverse(u)
        PROVE  Effects
    <2>1. Typed'
      <3>1. req[u].what \in Manuals /\ TabOf[req[u].what] \in Tabs
        BY <1>15, ParametersAssumption DEF FinishReverse, Typed, Payments
      <3>2. paid' = [m \in Payments |-> paid'[m]] /\ screen' = screen
        BY <1>15 DEF FinishReverse, Typed
      <3>3. tab' \in [Tabs -> TabRow]
        BY <1>15, <3>1, FieldTypes, WriteTyped DEF FinishReverse, Typed, TabStatus, Open
      <3>4. Answer(u)
        BY <1>15 DEF FinishReverse
      <3> QED
        BY <3>2, <3>3, <3>4, AnswerTyped DEF Typed
    <2>2. TabEffect
      BY <1>15, FieldTypes, ParametersAssumption DEF FinishReverse, TabEffect, Writes, TabStatus, Open, Opened, Payments, Typed
    <2>3. ScreenEffect
      BY <1>15 DEF FinishReverse, ScreenEffect
    <2>4. PaidEffect /\ ReqEffect
      <3>1. req[u].what \in Manuals /\ TabOf[req[u].what] \in Tabs /\ req[u].what \in Payments
        BY <1>15, ParametersAssumption DEF FinishReverse, Typed, Payments
      <3>2. ReqEffect
        BY <1>15 DEF FinishReverse, ReqEffect, Answer, Idle, Typed
      <3>3. CASE paid' = paid
        BY <3>2, <3>3 DEF PaidEffect
      <3>4. CASE paid' # paid
        <4>1. /\ paid'[req[u].what].status = "cancelled"
              /\ \A m \in Manuals \ {req[u].what} : paid'[m] = paid[m]
              /\ Write(TabOf[req[u].what], "CHECKOUT_PENDING", tab[TabOf[req[u].what]].assigned)
          BY <1>15, <3>1, <3>4 DEF FinishReverse, Typed, Payments
        <4>2. tab'[TabOf[req[u].what]].status = "CHECKOUT_PENDING"
          BY <3>1, <4>1 DEF Write, Typed
        <4> QED
          BY <3>2, <4>1, <4>2, ParametersAssumption DEF PaidEffect, Open
      <3> QED
        BY <3>3, <3>4
    <2>5. CheckoutEffect
      BY <1>15 DEF FinishReverse, CheckoutEffect, Answer, Idle, Typed
    <2> QED
      BY <2>1, <2>2, <2>3, <2>4, <2>5 DEF Effects
  <1>16. ASSUME NEW u \in Users, FinishCharge(u)
        PROVE  Effects
    <2>1. Typed'
      BY <1>16, AnswerTyped DEF FinishCharge, Typed
    <2>2. TabEffect
      BY <1>16 DEF FinishCharge, TabEffect
    <2>3. ScreenEffect
      BY <1>16 DEF FinishCharge, ScreenEffect
    <2>4. PaidEffect /\ ReqEffect
      BY <1>16, ParametersAssumption DEF FinishCharge, PaidEffect, ReqEffect, Answer, Idle, Typed, Payments
    <2>5. CheckoutEffect
      BY <1>16 DEF FinishCharge, CheckoutEffect, Answer, Idle, Typed
    <2> QED
      BY <2>1, <2>2, <2>3, <2>4, <2>5 DEF Effects
  <1>17. ASSUME NEW o \in Orders, UpdateOrder(o)
        PROVE  Effects
    <2>1. Typed'
      BY <1>17 DEF UpdateOrder, Typed
    <2>2. TabEffect
      BY <1>17 DEF UpdateOrder, TabEffect
    <2>3. ScreenEffect
      BY <1>17 DEF UpdateOrder, ScreenEffect
    <2>4. PaidEffect /\ ReqEffect
      BY <1>17 DEF UpdateOrder, PaidEffect, ReqEffect
    <2>5. CheckoutEffect
      BY <1>17 DEF UpdateOrder, CheckoutEffect, Idle, Typed
    <2> QED
      BY <2>1, <2>2, <2>3, <2>4, <2>5 DEF Effects
  <1>18. ASSUME NEW o \in Orders, UpdateOrderStatus(o)
        PROVE  Effects
    <2>1. Typed'
      BY <1>18 DEF UpdateOrderStatus, Typed
    <2>2. TabEffect
      BY <1>18 DEF UpdateOrderStatus, TabEffect
    <2>3. ScreenEffect
      BY <1>18 DEF UpdateOrderStatus, ScreenEffect
    <2>4. PaidEffect /\ ReqEffect
      BY <1>18 DEF UpdateOrderStatus, PaidEffect, ReqEffect
    <2>5. CheckoutEffect
      BY <1>18 DEF UpdateOrderStatus, CheckoutEffect, Idle, Typed
    <2> QED
      BY <2>1, <2>2, <2>3, <2>4, <2>5 DEF Effects
  <1>19. ASSUME NEW c \in Charges, Resolve(c)
        PROVE  Effects
    <2>1. Typed'
      BY <1>19 DEF Resolve, Typed
    <2>2. TabEffect
      BY <1>19 DEF Resolve, TabEffect
    <2>3. ScreenEffect
      BY <1>19 DEF Resolve, ScreenEffect
    <2>4. PaidEffect /\ ReqEffect
      BY <1>19, ParametersAssumption DEF Resolve, PaidEffect, ReqEffect, Typed, Payments
    <2>5. CheckoutEffect
      BY <1>19 DEF Resolve, CheckoutEffect, Idle, Typed
    <2> QED
      BY <2>1, <2>2, <2>3, <2>4, <2>5 DEF Effects
  <1>20. ASSUME NEW c \in Charges, Settle(c)
        PROVE  Effects
    <2>1. Typed'
      BY <1>20 DEF Settle, Typed
    <2>2. TabEffect
      BY <1>20 DEF Settle, TabEffect
    <2>3. ScreenEffect
      BY <1>20 DEF Settle, ScreenEffect
    <2>4. PaidEffect /\ ReqEffect
      BY <1>20, ParametersAssumption DEF Settle, PaidEffect, ReqEffect, Typed, Payments
    <2>5. CheckoutEffect
      BY <1>20 DEF Settle, CheckoutEffect, Idle, Typed
    <2> QED
      BY <2>1, <2>2, <2>3, <2>4, <2>5 DEF Effects
  <1>21. ASSUME NEW u \in Users, FinishConfirm(u)
         PROVE  Effects
    <2> DEFINE m == req[u].what
               t == TabOf[m]
    <2>1. m \in Manuals /\ m \in Payments /\ t \in Tabs /\ tab[t].status # None /\ req[u].at = "confirm"
      BY <1>21, ParametersAssumption DEF FinishConfirm, Typed, Opened, Payments
    <2>2. \/ paid' = paid /\ tab' = tab
          \/ /\ paid' = [paid EXCEPT ![m] = [status |-> "valid", amount |-> req[u].saw.amount]]
             /\ Write(t, "PAID", tab[t].assigned)
      BY <1>21 DEF FinishConfirm
    <2>3. screen' = screen /\ Answer(u)
      BY <1>21 DEF FinishConfirm
    <2>4. "PAID" \in TabStatus \ {None} /\ "PAID" \notin Open /\ tab[t].assigned \in Users \cup {None}
      BY <2>1, FieldTypes, ParametersAssumption DEF TabStatus, Open
    <2> HIDE DEF m, t
    <2>5. Typed'
      <3>1. tab' \in [Tabs -> TabRow] /\ paid' = [n \in Payments |-> paid'[n]]
        BY <2>1, <2>2, <2>4, WriteTyped DEF Typed
      <3> QED
        BY <2>3, <3>1, AnswerTyped DEF Typed
    <2>6. (paid' # paid \/ tab' # tab) => paid'[m].status = "valid" /\ tab'[t].status = "PAID"
      BY <2>1, <2>2 DEF Write, Typed
    <2>7. TabEffect
      <3>1. CASE tab' = tab
        BY <3>1 DEF TabEffect
      <3>2. CASE tab' # tab
        <4>1. Write(t, "PAID", tab[t].assigned) /\ TabOf[m] = t /\ paid'[m].status = "valid"
          BY <2>2, <2>6, <3>2 DEF t
        <4>2. Writes(t)
          BY <2>1, <2>4, <4>1 DEF Writes
        <4> QED
          BY <2>1, <4>2 DEF TabEffect
      <3> QED
        BY <3>1, <3>2
    <2>8. ScreenEffect
      BY <2>3 DEF ScreenEffect
    <2>9. PaidEffect
      <3>1. \A n \in Manuals : n # m => paid'[n] = paid[n]
        BY <2>1, <2>2 DEF Typed, Payments
      <3>2. TabOf[m] = t /\ "valid" # None /\ "PAID" # None
        BY ParametersAssumption DEF t
      <3>3. paid'[m] = paid[m] \/ (paid'[m].status = "valid" /\ tab'[t].status = "PAID")
        BY <2>6
      <3> QED
        BY <3>1, <3>2, <3>3 DEF PaidEffect
    <2>10. ReqEffect /\ CheckoutEffect
      BY <2>1, <2>3 DEF ReqEffect, CheckoutEffect, Answer, Idle, Typed
    <2> QED
      BY <2>5, <2>7, <2>8, <2>9, <2>10 DEF Effects
  <1> QED
    BY <1>1, <1>2, <1>3, <1>4, <1>5, <1>6, <1>7, <1>8, <1>9, <1>10, <1>11, <1>12, <1>13, <1>14, <1>15, <1>16, <1>17, <1>18, <1>19, <1>20, <1>21 DEF Next

----------------------------------------------------------------------------
(* The inductive step, part by part.                                       *)
LEMMA OpenedStep ==
  ASSUME Typed, Opened, TabEffect, PaidEffect, ReqEffect
  PROVE  Opened'
  <1>1. \A t \in Tabs : tab[t].status # None => tab'[t].status # None
    <2> SUFFICES ASSUME NEW t \in Tabs, tab[t].status # None, tab' # tab
                 PROVE  tab'[t].status # None
      OBVIOUS
    <2>1. CASE \E s \in Tabs : Opens(s)
      BY <2>1 DEF Opens, Typed
    <2>2. CASE \E s \in Tabs : Writes(s)
      BY <2>2 DEF Writes, Write, Typed
    <2> QED
      BY <2>1, <2>2 DEF TabEffect
  <1>2. \A m \in Manuals : TabOf[m] \in Tabs
    BY ParametersAssumption DEF Payments
  <1>3. \A u \in Users : req'[u].at = "reverse" => req'[u].what \in Manuals /\ paid[req'[u].what].status # None
    BY DEF ReqEffect, Opened, Typed
  <1>4. \A u \in Users : req'[u].at = "confirm" => req'[u].what \in Manuals /\ tab[TabOf[req'[u].what]].status # None
    BY DEF ReqEffect, Opened, Typed
  <1> QED
    BY <1>1, <1>2, <1>3, <1>4 DEF Opened, PaidEffect

LEMMA PaidStep ==
  ASSUME Typed, PaidHasPayment, TabEffect, PaidEffect
  PROVE  PaidHasPayment'
  <1> SUFFICES ASSUME NEW t \in Tabs, tab'[t].status = "PAID"
               PROVE  \E m \in Manuals : TabOf[m] = t /\ paid'[m].status = "valid"
    BY DEF PaidHasPayment
  <1>1. CASE tab[t].status = "PAID"
    BY <1>1 DEF PaidHasPayment, PaidEffect
  <1>2. CASE tab[t].status # "PAID"
    <2>1. PICK s \in Tabs : Opens(s) \/ Writes(s)
      BY <1>2 DEF TabEffect
    <2>2. CASE Opens(s)
      BY <1>2, <2>2 DEF Opens, Typed
    <2>3. CASE Writes(s)
      BY <1>2, <2>3 DEF Writes, Write, Typed
    <2> QED
      BY <2>1, <2>2, <2>3
  <1> QED
    BY <1>1, <1>2

LEMMA NumberStep ==
  ASSUME Typed, OneActivePerNumber, TabEffect
  PROVE  OneActivePerNumber'
  <1> SUFFICES ASSUME NEW t \in Tabs, Opens(t) \/ Writes(t)
               PROVE  OneActivePerNumber'
    BY DEF TabEffect, OneActivePerNumber
  <1>1. \A s \in Tabs \ {t} : tab'[s] = tab[s]
    BY DEF Opens, Writes, Write, Typed
  <1>2. tab'[t].status \in Open => tab[t].status \in Open \/ NumberFree(t)
    BY DEF Opens, Writes, Write, Typed
  <1> QED
    BY <1>1, <1>2 DEF OneActivePerNumber, NumberFree

LEMMA ResponsibleStep ==
  ASSUME Typed, Typed', Shown, Shown', Responsible, TabEffect, CheckoutEffect
  PROVE  Responsible'
  <1> SUFFICES ASSUME NEW u \in Users, req'[u].at = "checkout"
               PROVE  /\ screen'[u].on = req'[u].what
                      /\ Current(u, req[u].what)' => tab'[req'[u].what].assigned = u
    BY DEF Responsible
  <1>1. CASE tab' = tab
    BY <1>1 DEF CheckoutEffect, Responsible, Current
  <1>2. CASE tab' # tab
    <2>1. req'[u] = req[u] /\ screen'[u] = screen[u] /\ req[u].what \in Tabs /\ screen[u].on = req[u].what
      BY <1>2 DEF CheckoutEffect, Responsible, Typed
    <2>2. Current(u, req[u].what)' => tab'[req[u].what] = tab[req[u].what]
      <3> SUFFICES ASSUME tab'[req[u].what].version = screen[u].row.version
                   PROVE  tab'[req[u].what] = tab[req[u].what]
        BY <2>1 DEF Current
      <3>1. screen[u].row.version <= tab[req[u].what].version /\ tab[req[u].what].status # None
        BY <2>1 DEF Shown
      <3>2. tab[req[u].what].version \in Nat /\ screen[u].row.version \in Nat
        BY <2>1 DEF Typed, TabRow
      <3>3. PICK t \in Tabs : Opens(t) \/ Writes(t)
        BY <1>2 DEF TabEffect
      <3>4. t # req[u].what
        BY <3>1, <3>2, <3>3 DEF Opens, Writes, Write, Typed
      <3> QED
        BY <2>1, <3>3, <3>4 DEF Opens, Writes, Write, Typed
    <2> QED
      BY <2>1, <2>2 DEF Responsible, Current
  <1> QED
    BY <1>1, <1>2

----------------------------------------------------------------------------
LEMMA Initially == Init => IInv
  BY ParametersAssumption
  DEF Init, IInv, Typed, Shown, Opened, Responsible, PaidHasPayment, OneActivePerNumber, NoTab, Idle, TabRow, TabStatus, Open, Payments

LEMMA Inductive == IInv /\ [Next]_vars => IInv'
  <1> SUFFICES ASSUME IInv, [Next]_vars
               PROVE  IInv'
    OBVIOUS
  <1>1. CASE Next
    <2>1. Effects
      BY <1>1, StepEffects DEF IInv
    <2> QED
      BY <2>1, TabStep, OpenedStep, ResponsibleStep, PaidStep, NumberStep DEF IInv, Effects
  <1>2. CASE UNCHANGED vars
    <2> USE <1>2 DEF vars
    <2>1. Typed' /\ Shown'
      BY DEF IInv, Typed, Shown
    <2>2. Opened' /\ Responsible'
      BY DEF IInv, Opened, Responsible, Current
    <2>3. PaidHasPayment' /\ OneActivePerNumber'
      BY DEF IInv, PaidHasPayment, OneActivePerNumber
    <2> QED
      BY <2>1, <2>2, <2>3 DEF IInv
  <1> QED
    BY <1>1, <1>2

(* The inductive invariant holds throughout.                               *)
LEMMA Always == Spec => []IInv
  BY Initially, Inductive, PTL DEF Spec

(* ServiceTabService, OperationalAssignmentService: a compare-and-set on   *)
(* the version of a tab never overwrites what its user did not see.        *)
THEOREM VersionCorrect == Spec => []VersionNamesContent
  <1>1. IInv => VersionNamesContent
    BY DEF IInv, Shown, VersionNamesContent, Current
  <1> QED
    BY <1>1, Always, PTL

(* ManualPaymentService, ManualPaymentReversalService: a PAID tab has a    *)
(* valid manual payment, however payments and reversals overlap.           *)
THEOREM PaidCorrect == Spec => []PaidHasPayment
  <1>1. IInv => PaidHasPayment
    BY DEF IInv
  <1> QED
    BY <1>1, Always, PTL

(* service_tabs_one_active_number_per_tenant: no two active tabs share a   *)
(* number, reversals of old payments included.                             *)
THEOREM NumberCorrect == Spec => []OneActivePerNumber
  <1>1. IInv => OneActivePerNumber
    BY DEF IInv
  <1> QED
    BY <1>1, Always, PTL

(* A tab is only taken to checkout by the user responsible for it at that  *)
(* very moment: the version that the update compares names the responsible *)
(* user that was read before.                                              *)
THEOREM CheckoutCorrect == Spec => CheckoutByResponsible
  <1> DEFINE A == \A u \in Users :
                    req[u].at = "checkout" /\ req'[u] = Idle /\ tab' # tab => tab[req[u].what].assigned = u
  <1>1. IInv /\ [Next]_vars => [A]_vars
    <2> SUFFICES ASSUME IInv, Next
                 PROVE  A
      OBVIOUS
    <2>1. CheckoutEffect
      BY StepEffects DEF IInv, Effects
    <2> QED
      BY <2>1 DEF CheckoutEffect, IInv, Responsible
  <1> QED
    BY <1>1, Always, PTL DEF Spec, CheckoutByResponsible
================================================================================
