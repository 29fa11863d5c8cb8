----------------------------- MODULE ProviderToken -----------------------------
(***************************************************************************)
(* The connection of one store with Mercado Pago, in                       *)
(* management/sales-integrations/mercado-pago: the authorization that      *)
(* stores the first credential, the refresh that exchanges it under a      *)
(* leased lock (by the nightly job, or upon a refusal), the disconnection. *)
(* The provider takes a refresh token once and answers with the next one.  *)
(***************************************************************************)
EXTENDS Integers, Sequences, FiniteSets

CONSTANTS
  Renewers,    \* runs of MercadoPagoRefreshService.refresh
  Consents,    \* authorization attempts, each with the call of its callback
  Nobody,      \* no owner of the lock
  TokenBound   \* bound: refresh tokens the provider ever gives

ASSUME ProviderTokenAssumption ==
  /\ Nobody \notin Renewers /\ TokenBound \in Nat /\ Renewers \cap Consents = {}
  /\ IsFiniteSet(Renewers) /\ IsFiniteSet(Consents)

VARIABLES
  status,      \* sales_integrations.status
  lock,        \* [owner, live]: operationLockOwner, and operationLockUntil not passed
  credential,  \* <<[token, status]>>: sales_integration_credentials
  renew,       \* [Renewers -> [at, id, token]]; id: its credential; token: what the provider gave
  consent,     \* [Consents -> [at, token, replaces]]; replaces: what its transaction rotates
  given,       \* refresh tokens the provider has given: 1..given
  valid,       \* those it still takes
  left,        \* history: disconnected, and not activated since
  overrun,     \* history: a lease ran out under its owner
  lost,        \* history: the credentials of which the successor was not stored
  wasted       \* history: those sent after the provider had taken their token

providerVars == <<status, lock, credential, renew, consent, given, valid, left, overrun, lost, wasted>>
histories    == <<overrun, lost, wasted>>

Credentials == DOMAIN credential
ActiveIds   == {i \in Credentials : credential[i].status = "ACTIVE"}
Resting     == [at |-> "new", id |-> 0, token |-> 0]
Running     == {w \in Renewers : renew[w].at \notin {"new", "ended"}}

ProviderInit ==
  /\ status = "PENDING_AUTHORIZATION"
  /\ lock = [owner |-> Nobody, live |-> FALSE]
  /\ credential = << >>
  /\ renew = [w \in Renewers |-> Resting]
  /\ consent = [c \in Consents |-> [at |-> "none", token |-> 0, replaces |-> {}]]
  /\ given = 0 /\ valid = {} /\ left = FALSE
  /\ overrun = FALSE /\ lost = {} /\ wasted = {}

Moves(w, at) == renew' = [renew EXCEPT ![w].at = at]
AtR(w, at)   == renew[w].at = at
Acts(c, at)  == consent' = [consent EXCEPT ![c].at = at]
Rotated(ids, to) == [i \in Credentials |-> IF i \in ids THEN [credential[i] EXCEPT !.status = to] ELSE credential[i]]
Fresh(n)         == [token |-> n, status |-> "ACTIVE"]

----------------------------------------------------------------------------
(* Authorization: MercadoPagoOAuthService and completeOAuth.               *)

Start(c) ==
  /\ consent[c].at = "none"
  /\ Acts(c, "PENDING")
  /\ status' = "PENDING_AUTHORIZATION"
  /\ UNCHANGED <<lock, credential, renew, given, valid, left, histories>>

(* claim: of two callbacks with one state, one goes on.                    *)
ClaimConsent(c) ==
  /\ consent[c].at = "PENDING"
  /\ \E at \in {"CONSUMING", "EXPIRED"} : Acts(c, at)
  /\ UNCHANGED <<status, lock, credential, renew, given, valid, left, histories>>

ExchangeCode(c) ==
  /\ consent[c].at = "CONSUMING" /\ given < TokenBound
  /\ given' = given + 1 /\ valid' = valid \cup {given'}
  /\ consent' = [consent EXCEPT ![c] = [at |-> "exchanged", token |-> given', replaces |-> {}]]
  /\ UNCHANGED <<status, lock, credential, renew, left, histories>>

(* activate: its update finds the active credentials...                    *)
Replace(c) ==
  /\ consent[c].at = "exchanged"
  /\ consent' = [consent EXCEPT ![c].at = "replacing", ![c].replaces = ActiveIds]
  /\ UNCHANGED <<status, lock, credential, renew, given, valid, left, histories>>

(* ... and the transaction rotates those that still are, and adds its own. *)
Activate(c) ==
  /\ consent[c].at = "replacing"
  /\ credential' = Append(Rotated(consent[c].replaces \cap ActiveIds, "ROTATED"), Fresh(consent[c].token))
  /\ status' = "ACTIVE" /\ left' = FALSE
  /\ Acts(c, "COMPLETED")
  /\ UNCHANGED <<lock, renew, given, valid, histories>>

(* The exchange or the transaction fails, or the process ends.             *)
FailConsent(c) ==
  /\ consent[c].at \in {"CONSUMING", "exchanged", "replacing"}
  /\ Acts(c, "FAILED")
  /\ UNCHANGED <<status, lock, credential, renew, given, valid, left, histories>>

Disconnect ==
  /\ credential' = Rotated(ActiveIds, "REVOKED")
  /\ status' = "DISABLED" /\ left' = TRUE
  /\ UNCHANGED <<lock, renew, consent, given, valid, histories>>

----------------------------------------------------------------------------
(* MercadoPagoRefreshService.refresh, SalesIntegrationOperationLockService. *)

Acquire(w) ==
  /\ AtR(w, "new") /\ given > 0
  /\ IF lock.live
     THEN lock' = lock /\ Moves(w, "ended")
     ELSE lock' = [owner |-> w, live |-> TRUE] /\ Moves(w, "read")
  /\ UNCHANGED <<status, credential, consent, given, valid, left, histories>>

(* The row with any one of its active credentials.                         *)
ReadCredential(w) ==
  /\ AtR(w, "read")
  /\ IF ActiveIds = {} THEN Moves(w, "catch")
     ELSE \E i \in ActiveIds : renew' = [renew EXCEPT ![w] = [at |-> "mark", id |-> i, token |-> 0]]
  /\ UNCHANGED <<status, lock, credential, consent, given, valid, left, histories>>

Mark(w) ==
  /\ AtR(w, "mark")
  /\ status' = "REFRESHING"
  /\ Moves(w, "send")
  /\ UNCHANGED <<lock, credential, consent, given, valid, left, histories>>

(* The provider takes the token, or refuses it, or is not reached.         *)
Send(w) ==
  /\ AtR(w, "send")
  /\ LET t == credential[renew[w].id].token
     IN \/ /\ t \in valid /\ given < TokenBound
           /\ given' = given + 1 /\ valid' = (valid \ {t}) \cup {given'}
           /\ renew' = [renew EXCEPT ![w].at = "store", ![w].token = given']
           /\ UNCHANGED <<lost, wasted>>
        \/ \* its answer is lost
           /\ t \in valid /\ given < TokenBound
           /\ given' = given + 1 /\ valid' = (valid \ {t}) \cup {given'}
           /\ Moves(w, "catch") /\ lost' = lost \cup {renew[w].id} /\ UNCHANGED wasted
        \/ /\ Moves(w, "catch")
           /\ wasted' = (IF t \in valid THEN wasted ELSE wasted \cup {renew[w].id}) /\ UNCHANGED <<given, valid, lost>>
  /\ UNCHANGED <<status, lock, credential, consent, left, overrun>>

KeepsMut(w) ==
  /\ AtR(w, "store")
  /\ credential' = Append(credential, Fresh(renew[w].token))
  /\ status' = "ACTIVE" /\ Moves(w, "release")
  /\ UNCHANGED <<lock, consent, given, valid, left, histories>>

(* One transaction exchanges the credential, if it still is the active one. *)
Store(w) ==
  /\ AtR(w, "store")
  /\ \/ /\ renew[w].id \in ActiveIds
        /\ credential' = Append(Rotated({renew[w].id}, "ROTATED"), Fresh(renew[w].token))
        /\ status' = "ACTIVE" /\ Moves(w, "release") /\ UNCHANGED lost
     \/ /\ lost' = lost \cup {renew[w].id}  \* not active any more, or the database fails
        /\ Moves(w, "catch") /\ UNCHANGED <<credential, status>>
  /\ UNCHANGED <<lock, consent, given, valid, left, overrun, wasted>>

(* Whatever failed, and whatever the status is by now.                     *)
Catch(w) ==
  /\ AtR(w, "catch")
  /\ status' = "REAUTHORIZATION_REQUIRED"
  /\ Moves(w, "release")
  /\ UNCHANGED <<lock, credential, consent, given, valid, left, histories>>

Release(w) ==
  /\ AtR(w, "release")
  /\ lock' = IF lock.owner = w THEN [owner |-> Nobody, live |-> FALSE] ELSE lock
  /\ Moves(w, "ended")
  /\ UNCHANGED <<status, credential, consent, given, valid, left, histories>>

(* The process ends; its lock waits for the end of the lease.              *)
CrashRenewer(w) ==
  /\ w \in Running
  /\ lost' = (IF AtR(w, "store") THEN lost \cup {renew[w].id} ELSE lost)
  /\ Moves(w, "ended")
  /\ UNCHANGED <<status, lock, credential, consent, given, valid, left, overrun, wasted>>

(* Sixty seconds pass.                                                     *)
LeaseEnds ==
  /\ lock.live
  /\ lock' = [lock EXCEPT !.live = FALSE]
  /\ overrun' = (overrun \/ lock.owner \in Running)
  /\ UNCHANGED <<status, credential, renew, consent, given, valid, left, lost, wasted>>

ProviderNext ==
  \/ \E c \in Consents :
       Start(c) \/ ClaimConsent(c) \/ ExchangeCode(c) \/ Replace(c) \/ Activate(c) \/ FailConsent(c)
  \/ \E w \in Renewers :
       \/ Acquire(w) \/ ReadCredential(w) \/ Mark(w) \/ Send(w) \/ Store(w)
       \/ Catch(w) \/ Release(w) \/ CrashRenewer(w)
  \/ Disconnect \/ LeaseEnds

ProviderSpec == ProviderInit /\ [][ProviderNext]_providerVars

----------------------------------------------------------------------------
(* Properties.                                                             *)

ProviderTypeOK ==
  /\ status \in {"PENDING_AUTHORIZATION", "ACTIVE", "REFRESHING", "REAUTHORIZATION_REQUIRED", "DISABLED"}
  /\ lock \in [owner : Renewers \cup {Nobody}, live : BOOLEAN]
  /\ \A i \in Credentials : credential[i] \in [token : 1..given, status : {"ACTIVE", "ROTATED", "REVOKED"}]
  /\ \A w \in Renewers : AtR(w, "store") => renew[w].id \in Credentials /\ renew[w].token \in 1..given
  /\ given \in 0..TokenBound /\ valid \subseteq 1..given
  /\ left \in BOOLEAN /\ overrun \in BOOLEAN /\ lost \cup wasted \subseteq Credentials

(* Every credential marked ACTIVE can be renewed: its token is the one the  *)
(* provider takes next, unless a refresh is between the provider's answer   *)
(* and its transaction, or did not store that answer.                       *)
CredentialWorks ==
  \A i \in ActiveIds \ lost :
    credential[i].token \in valid \/ \E w \in Running : AtR(w, "store") /\ renew[w].id = i

(* After a disconnection nothing but a new authorization makes a credential *)
(* or the connection active: a refresh that was under way stores nothing    *)
(* (though it leaves another status than DISABLED behind).                  *)
DisconnectHolds == left => ActiveIds = {} /\ status # "ACTIVE"

(* A token is not sent to the provider twice while the lock holds: only a   *)
(* lease that ran out under its owner, or a token that was not stored, lets *)
(* a refresh send one that was taken.                                       *)
LockHolds == overrun \/ wasted \subseteq lost

(* The token of the provider: renewed in time, sent once, dropped for good.*)
ProviderSafe == ProviderTypeOK /\ CredentialWorks /\ DisconnectHolds /\ LockHolds
================================================================================
