------------------------------- MODULE McpOAuth -------------------------------
(***************************************************************************)
(* The OAuth authorization server of apps/api/src/management/mcp/oauth for *)
(* one store: consent, exchange of the code, rotation of refresh tokens,   *)
(* revocation, what the resource server accepts, and the nightly purge.    *)
(* Every query of a handler is a step; a transaction is one step, or two   *)
(* where a count precedes its write (no statement here locks or            *)
(* serializes).  Ages are flags that time may set at any moment; what the  *)
(* resource server asks of the store and its user besides only refuses.    *)
(***************************************************************************)
EXTENDS Integers, Sequences, FiniteSets

CONSTANTS
  Calls,            \* requests of HTTP in progress at once
  Requests,         \* authorization requests
  MaxConnections,   \* MAX_ACTIVE_CONNECTIONS_PER_STORE
  ConnectionBound,  \* bound: connections ever created
  PairBound,        \* bound: pairs of tokens ever issued
  AgeBound          \* bound: codes, requests and tokens that expire

ASSUME McpOAuthAssumption ==
  /\ MaxConnections \in Nat \ {0} /\ ConnectionBound \in Nat /\ PairBound \in Nat /\ AgeBound \in Nat
  /\ IsFiniteSet(Calls) /\ IsFiniteSet(Requests)

VARIABLES
  request,     \* [Requests -> [status, code, old, approvals]]; code: its connection, 0 for none
  connection,  \* <<[request, revoked]>>: mcp_oauth_connections
  pair,        \* <<[connection, parent, rotated, life, late]>>: an access and a refresh token
  call,        \* [Calls -> [at, on, seen]]
  ages,        \* ages passed: bound
  crowded      \* history: a connection was approved upon a count that had changed

oauthVars == <<request, connection, pair, call, ages, crowded>>

Ended       == [at |-> "idle", on |-> 0, seen |-> 0]
Connections == DOMAIN connection
Pairs       == DOMAIN pair
Active      == {c \in Connections : ~connection[c].revoked}

OAuthInit ==
  /\ request = [r \in Requests |-> [status |-> "PENDING", code |-> 0, old |-> FALSE, approvals |-> 0]]
  /\ connection = << >> /\ pair = << >>
  /\ call = [k \in Calls |-> Ended]
  /\ ages = 0 /\ crowded = FALSE

Goes(k, at, on, seen) == call' = [call EXCEPT ![k] = [at |-> at, on |-> on, seen |-> seen]]
Ends(k)               == call' = [call EXCEPT ![k] = Ended]
At(k, at)             == call[k].at = at

----------------------------------------------------------------------------
(* Consent: OAuthAuthorizationService.                                     *)

(* loadPending.  Who may connect which store is checked next, and only refuses. *)
Load(k, r, decision) ==
  /\ At(k, "idle")
  /\ request[r].status = "PENDING" /\ ~request[r].old
  /\ Goes(k, decision, r, 0)
  /\ UNCHANGED <<request, connection, pair, ages, crowded>>

(* approve counts the connections of the store in its transaction...       *)
Count(k) ==
  /\ At(k, "approve")
  /\ IF Cardinality(Active) >= MaxConnections THEN Ends(k)
     ELSE Goes(k, "write", call[k].on, Cardinality(Active))
  /\ UNCHANGED <<request, connection, pair, ages, crowded>>

(* ... and creates one, with a code that replaces any the request had: the *)
(* status of the request is not read again.                                *)
Approve(k) ==
  /\ At(k, "write") /\ request[call[k].on].status # "PURGED" /\ Len(connection) < ConnectionBound
  /\ LET r == call[k].on
     IN /\ connection' = Append(connection, [request |-> r, revoked |-> FALSE])
        /\ request' = [request EXCEPT ![r] = [status |-> "APPROVED", code |-> Len(connection'),
                                              old |-> FALSE, approvals |-> @.approvals + 1]]
  /\ crowded' = (crowded \/ call[k].seen # Cardinality(Active))
  /\ Ends(k)
  /\ UNCHANGED <<pair, ages>>

Deny(k) ==
  /\ At(k, "deny") /\ request[call[k].on].status # "PURGED"
  /\ request' = [request EXCEPT ![call[k].on].status = "DENIED"]
  /\ Ends(k)
  /\ UNCHANGED <<connection, pair, ages, crowded>>

----------------------------------------------------------------------------
(* Tokens: OAuthTokenService.                                              *)

(* exchangeCode finds the request by the code, which names a connection.   *)
ReadCode(k, r) ==
  /\ At(k, "idle") /\ request[r].code # 0
  /\ LET c == request[r].code
     IN CASE request[r].status = "CONSUMED" -> Goes(k, "revoke", c, 0)
          [] request[r].status = "APPROVED" /\ ~request[r].old /\ ~connection[c].revoked
               -> Goes(k, "consume", c, 0)
          [] OTHER -> FALSE
  /\ UNCHANGED <<request, connection, pair, ages, crowded>>

(* The code is spent where the request is still approved.                  *)
ConsumeMut(k) ==
  /\ At(k, "consume")
  /\ LET c == call[k].on
     IN /\ request' = [request EXCEPT ![connection[c].request].status = "CONSUMED"]
        /\ Goes(k, "issue", c, 0)
  /\ UNCHANGED <<connection, pair, ages, crowded>>

Consume(k) ==
  /\ At(k, "consume")
  /\ LET c == call[k].on
         r == connection[c].request
     IN IF request[r].status = "APPROVED"
        THEN request' = [request EXCEPT ![r].status = "CONSUMED"] /\ Goes(k, "issue", c, 0)
        ELSE request' = request /\ Ends(k)
  /\ UNCHANGED <<connection, pair, ages, crowded>>

ReadRefresh(k, p) ==
  /\ At(k, "idle") /\ pair[p].life # "purged"
  /\ LET revoked == connection[pair[p].connection].revoked
     IN CASE pair[p].rotated /\ ~revoked -> Goes(k, "revoke", pair[p].connection, 0)
          [] ~pair[p].rotated /\ ~revoked /\ pair[p].life = "fresh" -> Goes(k, "rotate", pair[p].connection, p)
          [] OTHER -> FALSE
  /\ UNCHANGED <<request, connection, pair, ages, crowded>>

RotateMut(k) ==
  /\ At(k, "rotate")
  /\ pair' = [pair EXCEPT ![call[k].seen].rotated = TRUE]
  /\ Goes(k, "issue", call[k].on, call[k].seen)
  /\ UNCHANGED <<request, connection, ages, crowded>>

(* Only the call that rotates the token goes on; the loser of two that     *)
(* overlap is refused, and does not count as a reuse.                      *)
Rotate(k) ==
  /\ At(k, "rotate")
  /\ LET p == call[k].seen
     IN IF pair[p].rotated
        THEN pair' = pair /\ Ends(k)
        ELSE pair' = [pair EXCEPT ![p].rotated = TRUE] /\ Goes(k, "issue", call[k].on, p)
  /\ UNCHANGED <<request, connection, ages, crowded>>

(* issue: both tokens, whatever became of the connection meanwhile.        *)
Issue(k) ==
  /\ At(k, "issue") /\ Len(pair) < PairBound
  /\ pair' = Append(pair, [connection |-> call[k].on, parent |-> call[k].seen, rotated |-> FALSE,
                           life |-> "fresh", late |-> connection[call[k].on].revoked])
  /\ Ends(k)
  /\ UNCHANGED <<request, connection, ages, crowded>>

----------------------------------------------------------------------------
(* Revocation: OAuthConnectionService.                                     *)

(* By an administrator, or by the client that presents any of its tokens.  *)
AskRevocation(k, c) ==
  /\ At(k, "idle") /\ ~connection[c].revoked
  /\ Goes(k, "revoke", c, 0)
  /\ UNCHANGED <<request, connection, pair, ages, crowded>>

ReadConnection(k) ==
  /\ At(k, "revoke")
  /\ IF connection[call[k].on].revoked THEN Ends(k) ELSE Goes(k, "cut", call[k].on, 0)
  /\ UNCHANGED <<request, connection, pair, ages, crowded>>

Cuts(c) == [p \in Pairs |-> IF pair[p].connection = c /\ ~pair[p].rotated
                            THEN [pair[p] EXCEPT !.rotated = TRUE, !.life = "expired"] ELSE pair[p]]

CutMut(k) ==
  /\ At(k, "cut")
  /\ connection' = [connection EXCEPT ![call[k].on].revoked = TRUE]
  /\ Ends(k)
  /\ UNCHANGED <<request, pair, ages, crowded>>

Cut(k) ==
  /\ At(k, "cut")
  /\ connection' = [connection EXCEPT ![call[k].on].revoked = TRUE]
  /\ pair' = Cuts(call[k].on)
  /\ Ends(k)
  /\ UNCHANGED <<request, ages, crowded>>

----------------------------------------------------------------------------
(* The resource server: OAuthCredentialResolver.resolve.                   *)

\* A rotation leaves the access token of its pair alone: only a revocation marks it.
Accepts(p) == ~connection[pair[p].connection].revoked /\ pair[p].life = "fresh"

----------------------------------------------------------------------------
(* Time, the process and the nightly purge.                                *)

Age(r) ==
  /\ ages < AgeBound /\ ages' = ages + 1
  /\ ~request[r].old /\ request[r].status \in {"PENDING", "APPROVED", "CONSUMED"}
  /\ request' = [request EXCEPT ![r].old = TRUE]
  /\ UNCHANGED <<connection, pair, call, crowded>>

Expire(p) ==
  /\ ages < AgeBound /\ ages' = ages + 1
  /\ pair[p].life = "fresh"
  /\ pair' = [pair EXCEPT ![p].life = "expired"]
  /\ UNCHANGED <<request, connection, call, crowded>>

(* OAuthRetentionService.purge, a day or seven days later.                 *)
PurgeRequest(r) ==
  /\ request[r].old /\ request[r].status # "PURGED"
  /\ request' = [request EXCEPT ![r].status = "PURGED", ![r].code = 0]
  /\ UNCHANGED <<connection, pair, call, ages, crowded>>

PurgePair(p) ==
  /\ pair[p].life = "expired"
  /\ pair' = [pair EXCEPT ![p].life = "purged"]
  /\ UNCHANGED <<request, connection, call, ages, crowded>>

(* The process ends, or a query fails.                                     *)
Crash(k) ==
  /\ ~At(k, "idle")
  /\ Ends(k)
  /\ UNCHANGED <<request, connection, pair, ages, crowded>>

OAuthNext ==
  \/ \E k \in Calls :
       \/ \E r \in Requests : Load(k, r, "approve") \/ Load(k, r, "deny") \/ ReadCode(k, r)
       \/ Count(k) \/ Approve(k) \/ Deny(k) \/ Consume(k) \/ Rotate(k) \/ Issue(k)
       \/ \E p \in Pairs : ReadRefresh(k, p)
       \/ \E c \in Connections : AskRevocation(k, c)
       \/ ReadConnection(k) \/ Cut(k) \/ Crash(k)
  \/ \E r \in Requests : Age(r) \/ PurgeRequest(r)
  \/ \E p \in Pairs : Expire(p) \/ PurgePair(p)

OAuthSpec == OAuthInit /\ [][OAuthNext]_oauthVars

----------------------------------------------------------------------------
(* Properties.                                                             *)

OAuthTypeOK ==
  /\ request \in [Requests -> [status : {"PENDING", "APPROVED", "CONSUMED", "DENIED", "PURGED"},
                               code : 0..ConnectionBound, old : BOOLEAN, approvals : Nat]]
  /\ \A c \in Connections : connection[c] \in [request : Requests, revoked : BOOLEAN]
  /\ \A p \in Pairs : pair[p] \in [connection : Connections, parent : 0..(p - 1), rotated : BOOLEAN,
                                   life : {"fresh", "expired", "purged"}, late : BOOLEAN]
  /\ \A k \in Calls : At(k, "issue") => call[k].on \in Connections /\ call[k].seen \in 0..Len(pair)
  /\ ages \in 0..AgeBound /\ crowded \in BOOLEAN

(* A code yields one pair, and a refresh token one: two chains of tokens    *)
(* never grow from one grant.  Two approvals of one request that overlap    *)
(* are the exception: the second puts the request back to APPROVED, and a   *)
(* second exchange of the first code, begun before, then passes the guard   *)
(* of its update (oauth-token.service.ts:102).                              *)
Grants    == {pair[p].parent : p \in Pairs} \ {0}
SingleUse ==
  /\ \A g \in Grants : Cardinality({p \in Pairs : pair[p].parent = g}) = 1
  /\ \A c \in Connections : request[connection[c].request].approvals = 1 =>
       Cardinality({p \in Pairs : pair[p].connection = c /\ pair[p].parent = 0}) <= 1

(* Nothing of a revoked connection works: its tokens are cut, but for the   *)
(* pair that a call which had read the connection before issues after it,   *)
(* and that pair is neither accepted nor renewed.                           *)
RevokedForGood ==
  \A p \in Pairs : connection[pair[p].connection].revoked =>
    /\ ~Accepts(p)
    /\ pair[p].late \/ pair[p].rotated
    /\ pair[p].parent # 0 => ~pair[pair[p].parent].late

(* A store has no more active connections than its limit, unless approvals  *)
(* that overlap each counted before the other's connection.                 *)
LimitHeld == Cardinality(Active) <= MaxConnections \/ crowded

(* A grant is used once, a revoked one never, and a store has its share.   *)
OAuthSafe == OAuthTypeOK /\ SingleUse /\ RevokedForGood /\ LimitHeld
================================================================================
