------------------------------- MODULE StoreAccess -------------------------------
(***************************************************************************)
(* Who may enter a store: the accounts of its users (UsersService), logins *)
(* (AuthService), and the letters that set a password                      *)
(* (PasswordResetService).  Each request reads first and writes later,     *)
(* with no condition on what it read, so that what was decided in between  *)
(* is at stake: that one master remains, and that who was stopped stays    *)
(* out.                                                                    *)
(***************************************************************************)
EXTENDS Naturals, FiniteSets

CONSTANTS
  People,      \* accounts
  Masters,     \* of these, active masters at first; the others are users of a store
  Letters,     \* tokens of password_reset_tokens
  Clerks,      \* requests in progress at one time
  NoBody,
  Visits       \* bound: requests in all

ASSUME AccessAssumption ==
  /\ IsFiniteSet(People) /\ Masters \subseteq People /\ Masters # {} /\ Visits \in Nat
  /\ NoBody \notin People \cup Letters

VARIABLES
  account,   \* [People -> [status, master]]
  letter,    \* [Letters -> [to, status]]
  clerk,     \* [Clerks -> [at, who, change, letter, master]]; master: what was read
  visits,    \* requests begun
  touched,   \* history [Clerks -> BOOLEAN]: an account was written since it read
  hasty,     \* history: an update was written over such a change
  barred,    \* history: people stopped by an update, and not let in again by one
  leftover,  \* history: people who were stopped while a login, a letter or its issue was open
  passwords, \* history [Letters -> Nat]: passwords set with it
  doubled    \* history: letters that two confirmations had read before either wrote

accessVars == <<account, letter, clerk, visits, touched, hasty, barred, leftover, passwords, doubled>>

NoVisit      == [at |-> "idle", who |-> NoBody, change |-> "none", letter |-> NoBody, master |-> FALSE]
Stopped      == {"INACTIVE", "LOCKED"}
Changes      == {"ACTIVE", "INVITED", "INACTIVE", "LOCKED", "promote", "demote"}
ClerkIs(k, at) == clerk[k].at = at
Turns(k, at) == clerk' = [clerk EXCEPT ![k].at = at]
Leaves(k)    == clerk' = [clerk EXCEPT ![k] = NoVisit]
Enters(k, visit) ==
  /\ clerk[k] = NoVisit /\ visits < Visits /\ visits' = visits + 1
  /\ clerk' = [clerk EXCEPT ![k] = visit]
  /\ touched' = [touched EXCEPT ![k] = FALSE]
Touches(k)   == touched' = [j \in Clerks |-> j # k /\ (touched[j] \/ clerk[j] # NoVisit)]

AccessInit ==
  /\ account = [p \in People |-> [status |-> "ACTIVE", master |-> p \in Masters]]
  /\ letter = [t \in Letters |-> [to |-> NoBody, status |-> "none"]]
  /\ clerk = [k \in Clerks |-> NoVisit] /\ visits = 0
  /\ touched = [k \in Clerks |-> FALSE] /\ hasty = FALSE
  /\ barred = {} /\ leftover = {} /\ passwords = [t \in Letters |-> 0] /\ doubled = {}

----------------------------------------------------------------------------
(* UsersService.update.                                                    *)

ActiveMasters == {p \in People : account[p].master /\ account[p].status = "ACTIVE"}

ReadUser(k, p, change) ==
  /\ Enters(k, [NoVisit EXCEPT !.who = p, !.change = change, !.master = account[p].master,
                   !.at = IF account[p].master /\ change \in Stopped \cup {"demote"} THEN "count" ELSE "write"])
  /\ UNCHANGED <<account, letter, hasty, barred, leftover, passwords, doubled>>

\* assertCanRemoveMaster: of a master that was read as one; those that are active are counted.
AssertCanRemoveMaster(k) ==
  /\ ClerkIs(k, "count")
  /\ IF Cardinality(ActiveMasters) <= 1 THEN Leaves(k) ELSE Turns(k, "write")
  /\ UNCHANGED <<account, letter, visits, touched, hasty, barred, leftover, passwords, doubled>>

\* What may still let a person in: a login that was accepted, a letter, or one that is being written.
StillOpen(p) ==
  \/ \E t \in Letters : letter[t].to = p /\ letter[t].status = "ACTIVE"
  \/ \E k \in Clerks : clerk[k].who = p /\ clerk[k].at \in {"stamp", "issue", "set"}

WriteUser(k) ==
  LET p == clerk[k].who
      change == clerk[k].change
  IN
  /\ ClerkIs(k, "write")
  /\ account' = [account EXCEPT
       ![p].status = IF change \in {"promote", "demote"} THEN @ ELSE change,
       ![p].master = IF change = "promote" THEN TRUE ELSE IF change = "demote" THEN FALSE ELSE @]
  /\ barred' = IF change \in Stopped THEN barred \cup {p}
               ELSE IF change \in {"ACTIVE", "INVITED"} THEN barred \ {p} ELSE barred
  /\ leftover' = IF change \in Stopped /\ StillOpen(p) THEN leftover \cup {p} ELSE leftover
  /\ hasty' = (hasty \/ touched[k])
  /\ Touches(k) /\ Leaves(k)
  /\ UNCHANGED <<letter, visits, passwords, doubled>>

----------------------------------------------------------------------------
(* AuthService.login: the status is checked, then set.                     *)

LoginMut(k, p) ==
  /\ account[p].status # "INACTIVE"
  /\ Enters(k, [NoVisit EXCEPT !.at = "stamp", !.who = p])
  /\ UNCHANGED <<account, letter, hasty, barred, leftover, passwords, doubled>>

Login(k, p) ==
  /\ account[p].status \in {"ACTIVE", "INVITED"}
  /\ Enters(k, [NoVisit EXCEPT !.at = "stamp", !.who = p])
  /\ UNCHANGED <<account, letter, hasty, barred, leftover, passwords, doubled>>

UpdateLastLogin(k) ==
  /\ ClerkIs(k, "stamp")
  /\ account' = [account EXCEPT ![clerk[k].who].status = "ACTIVE"]
  /\ Touches(k) /\ Leaves(k)
  /\ UNCHANGED <<letter, visits, hasty, barred, leftover, passwords, doubled>>

----------------------------------------------------------------------------
(* PasswordResetService.  request also serves the first access.            *)

RequestLetter(k, p) ==
  /\ account[p].status \notin Stopped
  /\ Enters(k, [NoVisit EXCEPT !.at = "issue", !.who = p])
  /\ UNCHANGED <<account, letter, hasty, barred, leftover, passwords, doubled>>

IssueLetter(k, t) ==
  /\ ClerkIs(k, "issue") /\ letter[t].status = "none"
  /\ letter' = [letter EXCEPT ![t] = [to |-> clerk[k].who, status |-> "ACTIVE"]]
  /\ Leaves(k)
  /\ UNCHANGED <<account, visits, touched, hasty, barred, leftover, passwords, doubled>>

\* confirm: the letters that are active and not expired.
Confirm(k, t) ==
  /\ letter[t].status = "ACTIVE"
  /\ Enters(k, [NoVisit EXCEPT !.at = "set", !.who = letter[t].to, !.letter = t])
  /\ doubled' = IF \E j \in Clerks : clerk[j].letter = t THEN doubled \cup {t} ELSE doubled
  /\ UNCHANGED <<account, letter, hasty, barred, leftover, passwords>>

\* One transaction; the account becomes active whatever it was.
SetPassword(k) ==
  /\ ClerkIs(k, "set")
  /\ account' = [account EXCEPT ![clerk[k].who].status = "ACTIVE"]
  /\ letter' = [letter EXCEPT ![clerk[k].letter].status = "USED"]
  /\ passwords' = [passwords EXCEPT ![clerk[k].letter] = @ + 1]
  /\ Touches(k) /\ Leaves(k)
  /\ UNCHANGED <<visits, hasty, barred, leftover, doubled>>

LetterExpires(t) ==
  /\ letter[t].status = "ACTIVE" /\ letter' = [letter EXCEPT ![t].status = "expired"]
  /\ UNCHANGED <<account, clerk, visits, touched, hasty, barred, leftover, passwords, doubled>>

CutVisit(k) ==
  /\ clerk[k] # NoVisit /\ Leaves(k)
  /\ UNCHANGED <<account, letter, visits, touched, hasty, barred, leftover, passwords, doubled>>

AccessNext ==
  \/ \E k \in Clerks :
       \/ AssertCanRemoveMaster(k) \/ WriteUser(k) \/ UpdateLastLogin(k) \/ SetPassword(k) \/ CutVisit(k)
       \/ \E p \in People : Login(k, p) \/ RequestLetter(k, p) \/ \E change \in Changes : ReadUser(k, p, change)
       \/ \E t \in Letters : IssueLetter(k, t) \/ Confirm(k, t)
  \/ \E t \in Letters : LetterExpires(t)

AccessSpec == AccessInit /\ [][AccessNext]_accessVars

----------------------------------------------------------------------------
AccessTypeOK ==
  /\ account \in [People -> [status : Stopped \cup {"ACTIVE", "INVITED"}, master : BOOLEAN]]
  /\ \A t \in Letters : letter[t].to \in People \cup {NoBody} /\ letter[t].status \in {"none", "ACTIVE", "USED", "expired"}
  /\ \A k \in Clerks : clerk[k].who \in People \cup {NoBody} /\ clerk[k].at \in {"idle", "count", "write", "stamp", "issue", "set"}
  /\ visits \in 0..Visits /\ barred \subseteq People /\ leftover \subseteq People

(* A master who can enter, or was invited to, remains, unless an update    *)
(* was written after another change that it had not read: then two         *)
(* removals may each have counted the other.                               *)
MasterRemains ==
  hasty \/ \E p \in People : account[p].master /\ account[p].status \notin Stopped

(* Who was stopped stays out, until an update lets them in: otherwise they *)
(* had a login, a letter or a request for one open when they were stopped, *)
(* any of which makes the account active again.                            *)
StoppedStaysOut == \A p \in barred \ leftover : account[p].status \in Stopped

(* A letter sets one password, unless two confirmations had both read it.  *)
LetterUsedOnce == \A t \in Letters \ doubled : passwords[t] <= 1

(* Somebody can enter, and who was stopped cannot.                         *)
AccessSafe == AccessTypeOK /\ MasterRemains /\ StoppedStaysOut /\ LetterUsedOnce
================================================================================
