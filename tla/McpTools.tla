-------------------------------- MODULE McpTools --------------------------------
(***************************************************************************)
(* A write tool of the MCP server: assistants on one OAuth connection call *)
(* criar_conta_a_pagar, all with the same bill, which is due on one day,   *)
(* alone or as the first of a series.  The guard reads what the connection *)
(* may do, McpToolRunner counts the actions of the hour, runs the handler  *)
(* against a timeout, answers, and logs what it answered without waiting   *)
(* for the log.  Meanwhile the store edits its settings                    *)
(* (StoreMcpConfigurationService), cancels bills and enters others.        *)
(***************************************************************************)
EXTENDS Naturals, FiniteSets

CONSTANTS
  ToolCalls,      \* requests, all within one hour
  HourLimit,      \* MCP_ACTIONS_PER_HOUR
  PageSize,       \* bills of the day that findDuplicate reads: 100
  Edits,          \* bound: saves of the settings
  OtherBills      \* bound: other bills of the store that are due on the day

ASSUME ToolsAssumption ==
  /\ IsFiniteSet(ToolCalls) /\ HourLimit \in Nat \ {0} /\ PageSize \in Nat \ {0}
  /\ Edits \in Nat /\ OtherBills \in Nat

VARIABLES
  settings,  \* [enabled, area, actions]: store_mcp_configurations; area: PAYABLES is enabled
  editor,    \* [at, saw, wants, left]: a save; wants: "on", "off" or "as is"
  callOf,    \* [ToolCalls -> [at, sure, series, reply, answer]]
  callLog,   \* calls logged as a success
  made,      \* bills: calls that created one
  undone,    \* of these, cancelled
  others,    \* how many other bills are due on the day
  before,    \* [ToolCalls -> Nat]: of a bill, the bills of the day that are older
  unseen,    \* history: calls whose success a later count did not find
  abreast    \* history [ToolCalls -> SUBSET ToolCalls]: handlers that ran at one time with it

billVars == <<made, undone, others, before>>
toolVars == <<settings, editor, callOf, callLog, billVars, unseen, abreast>>

Handling      == {"look", "create", "return"}
Runs(r)       == callOf[r].at \in Handling
Shows(r, at)  == callOf' = [callOf EXCEPT ![r].at = at]
Replies(r, reply) == callOf' = [callOf EXCEPT ![r].at = "return", ![r].reply = reply]
Answers(r, answer) == callOf' = [callOf EXCEPT ![r].at = "over", ![r].answer = answer]
Succeeds      == {"CREATED", "DUPLICATE"}

ToolsInit ==
  /\ settings = [enabled |-> TRUE, area |-> TRUE, actions |-> TRUE]
  /\ editor \in [at : {"idle"}, saw : {FALSE}, wants : {"as is"}, left : 0..Edits]
  /\ callOf \in [ToolCalls -> [at : {"guard"}, sure : BOOLEAN, series : BOOLEAN, reply : {"none"}, answer : {"none"}]]
  /\ callLog = {} /\ made = {} /\ undone = {} /\ unseen = {} /\ others \in 0..OtherBills /\ before = [r \in ToolCalls |-> 0]
  /\ abreast = [r \in ToolCalls |-> {}]

----------------------------------------------------------------------------
(* canActivate, then handle: a tool that is not available is not           *)
(* registered.  What is decided here is not read again.                    *)
Authorize(r) ==
  /\ callOf[r].at = "guard"
  /\ IF ~settings.enabled THEN Answers(r, "DENIED")
     ELSE IF ~settings.area THEN Answers(r, "AREA_DISABLED")
     ELSE IF ~settings.actions THEN Answers(r, "ACTION_NOT_ALLOWED")
     ELSE Shows(r, "count")
  /\ UNCHANGED <<settings, editor, callLog, billVars, unseen, abreast>>

\* criar_conta_a_pagar looks for an equal bill first, unless the caller is sure.
Begins(r) ==
  LET running == {q \in ToolCalls : Runs(q)} IN
  /\ Shows(r, IF callOf[r].sure THEN "create" ELSE "look")
  /\ abreast' = [q \in ToolCalls |-> IF q = r THEN running ELSE IF q \in running THEN abreast[q] \cup {r} ELSE abreast[q]]
  /\ unseen' = unseen \cup {q \in made \cup running : q \notin callLog}

\* actionBlock: the successes that are logged by now.
ActionBlock(r) ==
  /\ callOf[r].at = "count"
  /\ IF Cardinality(callLog) >= HourLimit THEN Answers(r, "ACTION_RATE_LIMITED") /\ UNCHANGED <<unseen, abreast>>
     ELSE Begins(r)
  /\ UNCHANGED <<settings, editor, callLog, billVars>>

Shed(r) ==
  /\ callOf[r].at = "count" /\ Cardinality(callLog) < HourLimit
  /\ Answers(r, "MEMORY_PRESSURE")
  /\ UNCHANGED <<settings, editor, callLog, billVars, unseen, abreast>>

\* findDuplicate: an equal bill that is not cancelled, among the oldest of
\* the day; the first of a series has " (1/n)" behind its description, so
\* it equals none.
OnPage(p) == before[p] < PageSize
Found     == {p \in made \ undone : ~callOf[p].series /\ OnPage(p)}

FindDuplicateMut(r) ==
  /\ callOf[r].at = "look"
  /\ IF Found # {} /\ made \subseteq callLog THEN Replies(r, "DUPLICATE") ELSE Shows(r, "create")
  /\ UNCHANGED <<settings, editor, callLog, billVars, unseen, abreast>>

FindDuplicate(r) ==
  /\ callOf[r].at = "look"
  /\ IF Found # {} THEN Replies(r, "DUPLICATE") ELSE Shows(r, "create")
  /\ UNCHANGED <<settings, editor, callLog, billVars, unseen, abreast>>

Adds(r) == made' = made \cup {r} /\ before' = [before EXCEPT ![r] = Cardinality(made) + others]

CreateBill(r) ==
  /\ callOf[r].at = "create" /\ Adds(r) /\ Replies(r, "CREATED")
  /\ UNCHANGED <<settings, editor, callLog, undone, others, unseen, abreast>>

\* A rule of the service refuses it, before anything is written...
RefuseBill(r) ==
  /\ callOf[r].at = "create" /\ Replies(r, "BUSINESS_RULE")
  /\ UNCHANGED <<settings, editor, callLog, billVars, unseen, abreast>>

\* ... or the database fails; it may have committed.
BreakBill(r) ==
  /\ callOf[r].at = "create" /\ Replies(r, "INTERNAL")
  /\ Adds(r) \/ UNCHANGED <<made, before>>
  /\ UNCHANGED <<settings, editor, callLog, undone, others, unseen, abreast>>

\* withTimeout answers; the handler goes on.
TimeOut(r) ==
  /\ Runs(r) /\ callOf[r].answer = "none"
  /\ callOf' = [callOf EXCEPT ![r].answer = "TIMEOUT"]
  /\ UNCHANGED <<settings, editor, callLog, billVars, unseen, abreast>>

Reply(r) ==
  LET answered == callOf[r].answer # "none" IN
  /\ callOf[r].at = "return"
  /\ callOf' = [callOf EXCEPT ![r].at = IF answered \/ callOf[r].reply \notin Succeeds THEN "over" ELSE "log",
                              ![r].answer = IF answered THEN @ ELSE callOf[r].reply, ![r].reply = "none"]
  /\ UNCHANGED <<settings, editor, callLog, billVars, unseen, abreast>>

\* record: after the answer; a failure is only a warning.
RecordCall(r) ==
  /\ callOf[r].at = "log" /\ Shows(r, "over")
  /\ callLog' \in {callLog, callLog \cup {r}}
  /\ UNCHANGED <<settings, editor, billVars, unseen, abreast>>

\* The process ends.
CutCall(r) ==
  /\ callOf[r].at \in Handling \cup {"count", "log"} /\ Shows(r, "over")
  /\ UNCHANGED <<settings, editor, callLog, billVars, unseen, abreast>>

----------------------------------------------------------------------------
(* StoreMcpConfigurationService.update: the answer to "actions" may be     *)
(* left out, then it is what was read before.                              *)
ReadSettings ==
  /\ editor.at = "idle" /\ editor.left > 0
  /\ \E wants \in {"on", "off", "as is"} :
       editor' = [at |-> "write", saw |-> settings.actions, wants |-> wants, left |-> editor.left - 1]
  /\ UNCHANGED <<settings, callOf, callLog, billVars, unseen, abreast>>

WriteSettings ==
  /\ editor.at = "write" /\ editor' = [editor EXCEPT !.at = "idle"]
  /\ \E enabled, area \in BOOLEAN :
       settings' = [enabled |-> enabled, area |-> area,
                    actions |-> IF editor.wants = "as is" THEN editor.saw ELSE editor.wants = "on"]
  /\ UNCHANGED <<callOf, callLog, billVars, unseen, abreast>>

CancelBill(r) ==
  /\ r \in made \ undone /\ undone' = undone \cup {r}
  /\ UNCHANGED <<settings, editor, callOf, callLog, made, others, before, unseen, abreast>>

\* Somebody enters another bill that is due on the day.
EnterOther ==
  /\ others < OtherBills /\ others' = others + 1
  /\ UNCHANGED <<settings, editor, callOf, callLog, made, undone, before, unseen, abreast>>

ToolsNext ==
  \/ \E r \in ToolCalls :
       \/ Authorize(r) \/ ActionBlock(r) \/ Shed(r) \/ FindDuplicate(r) \/ CreateBill(r) \/ RefuseBill(r)
       \/ BreakBill(r) \/ TimeOut(r) \/ Reply(r) \/ RecordCall(r) \/ CutCall(r) \/ CancelBill(r)
  \/ ReadSettings \/ WriteSettings \/ EnterOther

ToolsSpec == ToolsInit /\ [][ToolsNext]_toolVars

----------------------------------------------------------------------------
ToolsTypeOK ==
  /\ settings \in [enabled : BOOLEAN, area : BOOLEAN, actions : BOOLEAN]
  /\ editor.saw \in BOOLEAN /\ editor.left \in 0..Edits
  /\ \A r \in ToolCalls : callOf[r].at \in Handling \cup {"guard", "count", "log", "over"}
  /\ callLog \subseteq ToolCalls /\ made \subseteq ToolCalls /\ undone \subseteq made
  /\ others \in 0..OtherBills /\ before \in [ToolCalls -> Nat]
  /\ unseen \subseteq ToolCalls /\ abreast \in [ToolCalls -> SUBSET ToolCalls]

(* The limit of the hour holds, but for the calls whose success was not in *)
(* the log when a later one was counted: they overlapped with it, timed    *)
(* out and went on, or were never logged.                                  *)
HourlyLimit == Cardinality(made \ unseen) <= HourLimit

(* A bill that nobody was sure about has no equal that is older, but one   *)
(* whose call overlapped, the first of a series, or one beyond the first   *)
(* page of its day: an assistant that was told of a timeout and calls      *)
(* again makes a second single bill only while the first call still runs,  *)
(* or on a day of many bills.                                              *)
Older(p, q) == p \in made \ undone /\ q \in made /\ before[p] < before[q]
NotTwiceUnasked ==
  \A p, q \in ToolCalls :
    Older(p, q) /\ ~callOf[q].sure /\ ~callOf[p].series /\ OnPage(p) => p \in abreast[q]

(* The answer tells what happened: only after TIMEOUT, INTERNAL or none is *)
(* it open whether there is a bill.                                        *)
AnswersTellTheTruth ==
  \A r \in ToolCalls :
    /\ callOf[r].answer \notin {"TIMEOUT", "INTERNAL", "none", "CREATED"} => r \notin made
    /\ callOf[r].answer = "CREATED" => r \in made

(* What assistants may do, and are told.                                   *)
ToolsSafe == ToolsTypeOK /\ HourlyLimit /\ NotTwiceUnasked /\ AnswersTellTheTruth
================================================================================
