------------------------------ MODULE Idempotency ------------------------------
(***************************************************************************)
(* common/idempotency for one key of one store and scope: the interceptor  *)
(* claims the key, runs the command (an order at the counter, a tab), and  *)
(* completes or fails the record; a later request with the key gets the    *)
(* stored answer.  Every query is a step; a process may end between them.  *)
(***************************************************************************)
EXTENDS Integers, FiniteSets

CONSTANTS
  Commands,   \* HTTP requests with the key
  BodyOf,     \* [Commands -> bodies]: what is hashed
  NoAnswer    \* no response stored

ASSUME IdempotencyAssumption == IsFiniteSet(Commands) /\ DOMAIN BodyOf = Commands /\ NoAnswer \notin Commands

VARIABLES
  record,    \* [status, hash, answer, live]; live: expiresAt has not passed
  command,   \* [Commands -> [at, answer]]; answer: whose effect the client is told
  effects,   \* the commands whose handler committed
  overtaken, \* history: the key expired while a request with it was in progress
  unsaved    \* history: those that committed and did not complete their record

keyVars == <<record, command, effects, overtaken, unsaved>>

Busy          == {"look", "reclaim", "run", "complete", "fail"}
Stands(c, at) == command[c].at = at
Steps(c, at)  == command' = [command EXCEPT ![c].at = at]
Told(c, a)    == command' = [command EXCEPT ![c] = [at |-> "ended", answer |-> a]]
Refused(c)    == Steps(c, "ended")
Claimed(c)    == record' = [status |-> "PENDING", hash |-> BodyOf[c], answer |-> NoAnswer, live |-> TRUE]

KeyInit ==
  /\ record = [status |-> "none", hash |-> NoAnswer, answer |-> NoAnswer, live |-> FALSE]
  /\ command = [c \in Commands |-> [at |-> "new", answer |-> NoAnswer]]
  /\ effects = {} /\ overtaken = FALSE /\ unsaved = {}

----------------------------------------------------------------------------
(* IdempotencyService.claim.                                               *)

(* The unique key lets one request insert the record.                      *)
Insert(c) ==
  /\ Stands(c, "new")
  /\ IF record.status = "none" THEN Claimed(c) /\ Steps(c, "run")
     ELSE record' = record /\ Steps(c, "look")
  /\ UNCHANGED <<effects, overtaken, unsaved>>

(* Another content is refused; a stored answer is replayed, however old;   *)
(* a request that is in progress, and young, refuses the next.             *)
Look(c) ==
  /\ Stands(c, "look")
  /\ CASE record.hash # BodyOf[c] -> Refused(c)
       [] record.hash = BodyOf[c] /\ record.status = "COMPLETED" -> Told(c, record.answer)
       [] record.hash = BodyOf[c] /\ record.status = "PENDING" /\ record.live -> Refused(c)
       [] OTHER -> Steps(c, "reclaim")
  /\ UNCHANGED <<record, effects, overtaken, unsaved>>

ReclaimMut(c) ==
  /\ Stands(c, "reclaim")
  /\ Claimed(c) /\ Steps(c, "run")
  /\ UNCHANGED <<effects, overtaken, unsaved>>

(* A key that failed, or of which the time has passed, is taken over, also *)
(* if the request it belonged to completed it meanwhile.                   *)
Reclaim(c) ==
  /\ Stands(c, "reclaim")
  /\ IF record.status = "FAILED" \/ ~record.live THEN Claimed(c) /\ Steps(c, "run")
     ELSE record' = record /\ Refused(c)
  /\ UNCHANGED <<effects, overtaken, unsaved>>

----------------------------------------------------------------------------
(* IdempotencyInterceptor, after the claim.                                *)

(* The handler commits, or throws.                                         *)
Handle(c) ==
  /\ Stands(c, "run")
  /\ \/ effects' = effects \cup {c} /\ Steps(c, "complete")
     \/ effects' = effects /\ Steps(c, "fail")
  /\ UNCHANGED <<record, overtaken, unsaved>>

(* By the id of the record, whoever holds it now.                          *)
Complete(c) ==
  /\ Stands(c, "complete")
  /\ record' = [record EXCEPT !.status = "COMPLETED", !.answer = c]
  /\ Told(c, c)
  /\ UNCHANGED <<effects, overtaken, unsaved>>

(* An error of complete is handled like one of the command.                *)
CompleteFails(c) ==
  /\ Stands(c, "complete")
  /\ Steps(c, "fail") /\ unsaved' = unsaved \cup {c}
  /\ UNCHANGED <<record, effects, overtaken>>

Fail(c) ==
  /\ Stands(c, "fail")
  /\ \/ record' = IF record.status = "PENDING" THEN [record EXCEPT !.status = "FAILED"] ELSE record
     \/ record' = record  \* the update fails, and its error is dropped
  /\ Refused(c)
  /\ UNCHANGED <<effects, overtaken, unsaved>>

(* The process ends.                                                       *)
CrashCommand(c) ==
  /\ command[c].at \notin {"new", "ended"}
  /\ unsaved' = IF Stands(c, "complete") THEN unsaved \cup {c} ELSE unsaved
  /\ Refused(c)
  /\ UNCHANGED <<record, effects, overtaken>>

(* Twenty-four hours pass.                                                 *)
KeyExpires ==
  /\ record.live
  /\ record' = [record EXCEPT !.live = FALSE]
  /\ overtaken' = (overtaken \/ \E c \in Commands : command[c].at \in Busy)
  /\ UNCHANGED <<command, effects, unsaved>>

KeyNext ==
  \/ \E c \in Commands :
       \/ Insert(c) \/ Look(c) \/ Reclaim(c) \/ Handle(c) \/ Complete(c) \/ CompleteFails(c)
       \/ Fail(c) \/ CrashCommand(c)
  \/ KeyExpires

KeySpec == KeyInit /\ [][KeyNext]_keyVars

----------------------------------------------------------------------------
(* Properties.                                                             *)

KeyTypeOK ==
  /\ record.status \in {"none", "PENDING", "COMPLETED", "FAILED"}
  /\ record.answer \in Commands \cup {NoAnswer} /\ record.live \in BOOLEAN
  /\ command \in [Commands -> [at : {"new", "look", "reclaim", "run", "complete", "fail", "ended"},
                               answer : Commands \cup {NoAnswer}]]
  /\ effects \subseteq Commands /\ unsaved \subseteq effects /\ overtaken \in BOOLEAN

(* A key runs its command once: it commits again only if the record could   *)
(* not tell that it had (the process ended, or complete failed), or if the  *)
(* key expired under a request that was still in progress.                      *)
RunOnce == overtaken \/ Cardinality(effects \ unsaved) <= 1

(* Whoever is answered is told of an effect that exists, of the content he  *)
(* sent; and all are told of the same one, unless the key expired under a   *)
(* request in progress.                                                      *)
Answered == {c \in Commands : command[c].answer # NoAnswer}
AnswersAgree ==
  /\ \A c \in Answered : command[c].answer \in effects /\ BodyOf[command[c].answer] = BodyOf[c]
  /\ overtaken \/ \A c, d \in Answered : command[c].answer = command[d].answer

(* A key stands for one command and one answer.                            *)
CommandOnce == KeyTypeOK /\ RunOnce /\ AnswersAgree
================================================================================
