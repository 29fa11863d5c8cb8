------------------------------- MODULE StaffProofs -------------------------------
(***********************************************************************************)
(* Proofs about what the people of a store, of the platform, and the assistants of *)
(* the store do: bills that assistants create (McpTools), accounts and letters     *)
(* (StoreAccess), what makes up a store (StoreSetup), and orders and their stock   *)
(* (OrderStock), for any number of requests.  They share no state; each has its    *)
(* invariant, and what follows from it.                                            *)
(***********************************************************************************)
EXTENDS OrderStock, StoreAccess, StoreSetup, McpTools, FiniteSetTheorems, WellFoundedInduction, TLAPS

(* What is contained in a finite set has no more elements.                         *)
LEMMA Smaller ==
  ASSUME NEW S, IsFiniteSet(S), NEW T, T \subseteq S
  PROVE  IsFiniteSet(T) /\ Cardinality(T) <= Cardinality(S) /\ Cardinality(T) \in Nat /\ Cardinality(S) \in Nat
  BY FS_Subset, FS_CardinalityType

----------------------------------------------------------------------------
(* McpTools.                                                                       *)

CallRow == [at : Handling \cup {"guard", "count", "log", "over"}, sure : BOOLEAN, series : BOOLEAN,
            reply : {"none", "CREATED", "DUPLICATE", "BUSINESS_RULE", "INTERNAL"},
            answer : {"none", "DENIED", "AREA_DISABLED", "ACTION_NOT_ALLOWED", "ACTION_RATE_LIMITED", "MEMORY_PRESSURE",
                      "TIMEOUT", "CREATED", "DUPLICATE", "BUSINESS_RULE", "INTERNAL"}]
ToolShapes ==
  /\ settings \in [enabled : BOOLEAN, area : BOOLEAN, actions : BOOLEAN]
  /\ editor \in [at : {"idle", "write"}, saw : BOOLEAN, wants : {"on", "off", "as is"}, left : 0..Edits]
  /\ callOf \in [ToolCalls -> CallRow]
  /\ callLog \subseteq ToolCalls /\ made \subseteq ToolCalls /\ undone \subseteq made
  /\ others \in 0..OtherBills /\ before \in [ToolCalls -> Nat]
  /\ unseen \subseteq ToolCalls /\ abreast \in [ToolCalls -> SUBSET ToolCalls]

(* What is older than a bill is no more than there is but for the bill.            *)
RowsBefore == \A p \in made : before[p] < Cardinality(made) + others

(* The limit counts those that run as well: what they make was let in.             *)
Running    == {r \in ToolCalls : Runs(r)}
RunsCounted == Cardinality((made \cup Running) \ unseen) <= HourLimit

(* Handlers that run at one time know of each other; one that has not begun is     *)
(* known to nobody.                                                                *)
Unbegun(r) == callOf[r].at \in {"guard", "count"}
RunAbreast ==
  /\ \A p, q \in Running : p = q \/ p \in abreast[q]
  /\ \A p, q \in ToolCalls : p \in abreast[q] => q \in abreast[p]
  /\ \A p, q \in ToolCalls : Unbegun(p) => p \notin abreast[q]

(* A call that looked, and is about to create, found no bill: who made one since   *)
(* that it could find ran beside it.                                               *)
FoundNone ==
  \A q \in ToolCalls : callOf[q].at = "create" /\ ~callOf[q].sure => \A p \in Found : p \in abreast[q]

(* What a call is going to answer agrees with what it has made.                    *)
Honest(r) ==
  /\ callOf[r].at \in {"guard", "count", "look", "create"} => r \notin made /\ callOf[r].answer \in {"none", "TIMEOUT"}
  /\ callOf[r].at = "return" =>
       /\ callOf[r].answer \in {"none", "TIMEOUT"} /\ callOf[r].reply # "none"
       /\ callOf[r].reply = "CREATED" => r \in made
       /\ callOf[r].reply \in {"DUPLICATE", "BUSINESS_RULE"} => r \notin made
  /\ callOf[r].answer \notin {"TIMEOUT", "INTERNAL", "none", "CREATED"} => r \notin made
  /\ callOf[r].answer = "CREATED" => r \in made

ToolsInv ==
  /\ ToolShapes /\ RunsCounted /\ RunAbreast /\ RowsBefore /\ FoundNone /\ NotTwiceUnasked
  /\ \A r \in ToolCalls : Honest(r)

LEMMA ToolsStart == ToolsInit => ToolsInv
  <1> SUFFICES ASSUME ToolsInit PROVE ToolsInv
    OBVIOUS
  <1> USE ToolsAssumption
  <1>1. /\ callOf \in [ToolCalls -> CallRow]
        /\ \A r \in ToolCalls : callOf[r].at = "guard" /\ callOf[r].answer = "none"
    BY DEF ToolsInit, CallRow, Handling
  <1>2. ToolShapes
    <2>1. settings \in [enabled : BOOLEAN, area : BOOLEAN, actions : BOOLEAN]
      BY DEF ToolsInit
    <2>2. editor \in [at : {"idle", "write"}, saw : BOOLEAN, wants : {"on", "off", "as is"}, left : 0..Edits]
      <3>1. editor \in [at : {"idle"}, saw : {FALSE}, wants : {"as is"}, left : 0..Edits]
        BY DEF ToolsInit
      <3> QED
        BY <3>1
    <2> QED
      BY <1>1, <2>1, <2>2 DEF ToolsInit, ToolShapes
  <1>3. Running = {} /\ made = {}
    BY <1>1 DEF ToolsInit, Running, Runs, Handling
  <1>4. RunsCounted
    BY <1>3, FS_EmptySet DEF RunsCounted
  <1>5. RunAbreast
    BY <1>1, <1>3 DEF ToolsInit, RunAbreast, Unbegun
  <1> QED
    BY <1>1, <1>2, <1>3, <1>4, <1>5 DEF ToolsInv, RowsBefore, FoundNone, Found, NotTwiceUnasked, Older, Honest

(* A step of one call that makes and begins nothing.                               *)
LEMMA CallKeeps ==
  ASSUME ToolsInv, NEW r \in ToolCalls, callOf' \in [ToolCalls -> CallRow],
         \A q \in ToolCalls \ {r} : callOf'[q] = callOf[q],
         callOf'[r].sure = callOf[r].sure /\ callOf'[r].series = callOf[r].series, Runs(r)' => Runs(r), Unbegun(r)' => Unbegun(r), Honest(r)',
         callOf'[r].at = "create" => callOf[r].at = "create" \/ callOf[r].sure \/ Found = {},
         callLog' \subseteq ToolCalls, UNCHANGED <<settings, editor, made, undone, others, before, unseen, abreast>>
  PROVE  ToolsInv'
  <1>1. ToolShapes'
    BY DEF ToolsInv, ToolShapes
  <1>2. Running' \subseteq Running
    BY DEF Running, Runs
  <1>3. RunsCounted'
    <2> DEFINE S == (made \cup Running) \ unseen
    <2>1. IsFiniteSet(S)
      <3>1. S \subseteq ToolCalls
        BY DEF ToolsInv, ToolShapes, Running
      <3> QED
        BY <3>1, ToolsAssumption, FS_Subset
    <2>2. (made' \cup Running') \ unseen' \subseteq S
      BY <1>2
    <2>3. Cardinality((made' \cup Running') \ unseen') <= Cardinality(S) /\ Cardinality(S) \in Nat
          /\ Cardinality((made' \cup Running') \ unseen') \in Nat
      BY <2>1, <2>2, Smaller
    <2>4. Cardinality(S) <= HourLimit
      BY DEF ToolsInv, RunsCounted
    <2> QED
      BY <2>3, <2>4, ToolsAssumption DEF RunsCounted
  <1>4. RunAbreast'
    BY <1>2 DEF ToolsInv, RunAbreast, Unbegun
  <1>5. RowsBefore' /\ FoundNone' /\ NotTwiceUnasked'
    <2>1. \A q \in ToolCalls : callOf'[q].sure = callOf[q].sure /\ callOf'[q].series = callOf[q].series
      OBVIOUS
    <2>2. \A q \in ToolCalls : callOf'[q].at = "create" /\ ~callOf'[q].sure =>
            (callOf[q].at = "create" /\ ~callOf[q].sure) \/ Found = {}
      OBVIOUS
    <2>3. made \subseteq ToolCalls
      BY DEF ToolsInv, ToolShapes
    <2>4. Found' = Found
      BY <2>1, <2>3 DEF Found, OnPage
    <2>5. RowsBefore'
      BY DEF ToolsInv, RowsBefore
    <2>6. FoundNone'
      BY <2>2, <2>4 DEF ToolsInv, FoundNone
    <2>7. NotTwiceUnasked'
      BY <2>1 DEF ToolsInv, NotTwiceUnasked, Older, OnPage
    <2> QED
      BY <2>5, <2>6, <2>7
  <1>6. \A q \in ToolCalls : Honest(q)'
    BY DEF ToolsInv, Honest
  <1> QED
    BY <1>1, <1>3, <1>4, <1>5, <1>6 DEF ToolsInv

LEMMA Showing ==
  ASSUME ToolsInv, NEW r \in ToolCalls, NEW at \in Handling \cup {"guard", "count", "log", "over"}, Shows(r, at)
  PROVE  /\ callOf' \in [ToolCalls -> CallRow]
         /\ callOf'[r].at = at /\ callOf'[r].sure = callOf[r].sure /\ callOf'[r].series = callOf[r].series
         /\ callOf'[r].reply = callOf[r].reply /\ callOf'[r].answer = callOf[r].answer
         /\ \A q \in ToolCalls \ {r} : callOf'[q] = callOf[q]
  <1>1. callOf \in [ToolCalls -> CallRow] /\ callOf[r] \in CallRow
    BY DEF ToolsInv, ToolShapes
  <1>2. PICK row : row = [callOf[r] EXCEPT !.at = at]
    OBVIOUS
  <1>3. callOf' = [callOf EXCEPT ![r] = row]
    BY <1>2 DEF Shows
  <1>4. /\ row \in CallRow /\ row.at = at /\ row.sure = callOf[r].sure /\ row.series = callOf[r].series
        /\ row.reply = callOf[r].reply /\ row.answer = callOf[r].answer
    BY <1>1, <1>2 DEF CallRow, Handling
  <1> QED
    BY <1>1, <1>3, <1>4

LEMMA Replying ==
  ASSUME ToolsInv, NEW r \in ToolCalls, NEW reply \in {"CREATED", "DUPLICATE", "BUSINESS_RULE", "INTERNAL"},
         Replies(r, reply)
  PROVE  /\ callOf' \in [ToolCalls -> CallRow]
         /\ callOf'[r].at = "return" /\ callOf'[r].sure = callOf[r].sure /\ callOf'[r].series = callOf[r].series
         /\ callOf'[r].reply = reply /\ callOf'[r].answer = callOf[r].answer
         /\ \A q \in ToolCalls \ {r} : callOf'[q] = callOf[q]
  <1>1. callOf \in [ToolCalls -> CallRow] /\ callOf[r] \in CallRow
    BY DEF ToolsInv, ToolShapes
  <1>2. PICK row : row = [callOf[r] EXCEPT !.at = "return", !.reply = reply]
    OBVIOUS
  <1>3. callOf' = [callOf EXCEPT ![r] = row]
    BY <1>2 DEF Replies
  <1>4. /\ row \in CallRow /\ row.at = "return" /\ row.sure = callOf[r].sure /\ row.series = callOf[r].series
        /\ row.reply = reply /\ row.answer = callOf[r].answer
    BY <1>1, <1>2 DEF CallRow, Handling
  <1> QED
    BY <1>1, <1>3, <1>4

LEMMA Answering ==
  ASSUME ToolsInv, NEW r \in ToolCalls,
         NEW answer \in {"DENIED", "AREA_DISABLED", "ACTION_NOT_ALLOWED", "ACTION_RATE_LIMITED", "MEMORY_PRESSURE"},
         Answers(r, answer)
  PROVE  /\ callOf' \in [ToolCalls -> CallRow]
         /\ callOf'[r].at = "over" /\ callOf'[r].sure = callOf[r].sure /\ callOf'[r].series = callOf[r].series
         /\ callOf'[r].reply = callOf[r].reply /\ callOf'[r].answer = answer
         /\ \A q \in ToolCalls \ {r} : callOf'[q] = callOf[q]
  <1>1. callOf \in [ToolCalls -> CallRow] /\ callOf[r] \in CallRow
    BY DEF ToolsInv, ToolShapes
  <1>2. PICK row : row = [callOf[r] EXCEPT !.at = "over", !.answer = answer]
    OBVIOUS
  <1>3. callOf' = [callOf EXCEPT ![r] = row]
    BY <1>2 DEF Answers
  <1>4. /\ row \in CallRow /\ row.at = "over" /\ row.sure = callOf[r].sure /\ row.series = callOf[r].series
        /\ row.reply = callOf[r].reply /\ row.answer = answer
    BY <1>1, <1>2 DEF CallRow
  <1> QED
    BY <1>1, <1>3, <1>4

(* A handler that begins is counted with those that the log does not show: they    *)
(* are unseen from now on.                                                         *)
LEMMA BeginKeeps ==
  ASSUME ToolsInv, NEW r \in ToolCalls, callOf[r].at = "count", Cardinality(callLog) < HourLimit, Begins(r),
         UNCHANGED <<settings, editor, callLog, made, undone, others, before>>
  PROVE  ToolsInv'
  <1> DEFINE running == {q \in ToolCalls : Runs(q)}
  <1>1. /\ callOf' \in [ToolCalls -> CallRow] /\ callOf'[r].at \in {"look", "create"}
        /\ callOf'[r].at = "create" => callOf[r].sure
        /\ callOf'[r].sure = callOf[r].sure /\ callOf'[r].series = callOf[r].series /\ callOf'[r].answer = callOf[r].answer
        /\ \A q \in ToolCalls \ {r} : callOf'[q] = callOf[q]
    BY Showing DEF Begins, Handling
  <1>2. /\ abreast' = [q \in ToolCalls |-> IF q = r THEN running
                                           ELSE IF q \in running THEN abreast[q] \cup {r} ELSE abreast[q]]
        /\ unseen' = unseen \cup {q \in made \cup running : q \notin callLog}
    BY DEF Begins
  <1>3. running = Running /\ r \notin running /\ running \subseteq ToolCalls /\ Running' = running \cup {r}
    BY <1>1 DEF Running, Runs, Handling
  <1> HIDE DEF running
  <1>4. ToolShapes'
    BY <1>1, <1>2, <1>3 DEF ToolsInv, ToolShapes
  <1>5. RunsCounted'
    <2> DEFINE S == (made' \cup Running') \ unseen'
    <2>1. S \subseteq callLog \cup {r}
      BY <1>2, <1>3
    <2>2. IsFiniteSet(callLog) /\ Cardinality(callLog) \in Nat
      <3>1. callLog \subseteq ToolCalls
        BY DEF ToolsInv, ToolShapes
      <3> QED
        BY <3>1, ToolsAssumption, Smaller
    <2>3. IsFiniteSet(callLog \cup {r}) /\ Cardinality(callLog \cup {r}) <= Cardinality(callLog) + 1
      <3>1. IsFiniteSet(callLog \cup {r})
              /\ Cardinality(callLog \cup {r}) = IF r \in callLog THEN Cardinality(callLog) ELSE Cardinality(callLog) + 1
        BY <2>2, FS_AddElement
      <3> QED
        BY <2>2, <3>1
    <2>4. Cardinality(S) <= Cardinality(callLog \cup {r}) /\ Cardinality(S) \in Nat /\ Cardinality(callLog \cup {r}) \in Nat
      BY <2>1, <2>3, Smaller
    <2>5. Cardinality(S) <= HourLimit
      BY <2>2, <2>3, <2>4, ToolsAssumption
    <2> QED
      BY <2>5 DEF RunsCounted
  <1>6. RunAbreast'
    <2> RunAbreast
      BY DEF ToolsInv
    <2>1. \A p \in ToolCalls : r \notin abreast[p] /\ p \notin abreast[r]
      BY DEF RunAbreast, Unbegun
    <2>2. \A q \in ToolCalls : abreast'[q] = IF q = r THEN running
                                             ELSE IF q \in running THEN abreast[q] \cup {r} ELSE abreast[q]
      BY <1>2
    <2>3. \A p, q \in Running' : p = q \/ p \in abreast'[q]
      <3>1. \A p, q \in running : p = q \/ p \in abreast[q]
        BY <1>3 DEF RunAbreast
      <3>2. ASSUME NEW p \in Running', NEW q \in Running', p # q
            PROVE  p \in abreast'[q]
        <4>1. CASE q = r
          BY <1>3, <2>2, <3>2, <4>1
        <4>2. CASE q # r
          <5>1. q \in running /\ abreast'[q] = abreast[q] \cup {r}
            BY <1>3, <2>2, <4>2
          <5>2. p = r \/ p \in abreast[q]
            BY <1>3, <3>1, <3>2, <5>1
          <5> QED
            BY <5>1, <5>2
        <4> QED
          BY <4>1, <4>2
      <3> QED
        BY <3>2
    <2>4. \A p, q \in ToolCalls : p \in abreast'[q] => q \in abreast'[p]
      <3>1. ASSUME NEW p \in ToolCalls, NEW q \in ToolCalls, p \in abreast'[q]
            PROVE  q \in abreast'[p]
        <4>1. CASE p = r
          BY <3>1, <4>1, <2>1, <2>2, <1>3
        <4>2. CASE p # r /\ q = r
          BY <3>1, <4>2, <2>1, <2>2, <1>3
        <4>3. CASE p # r /\ q # r
          <5>1. p \in abreast[q]
            BY <3>1, <4>3, <2>2
          <5>2. q \in abreast[p]
            BY <5>1 DEF RunAbreast
          <5> QED
            BY <5>2, <4>3, <2>2
        <4> QED
          BY <4>1, <4>2, <4>3
      <3> QED
        BY <3>1
    <2>5. \A q \in running : callOf[q].at \in Handling
      BY DEF running, Runs
    <2>6. \A p, q \in ToolCalls : Unbegun(p)' => p \notin abreast'[q]
      <3>1. \A p \in ToolCalls : Unbegun(p)' => Unbegun(p) /\ p # r /\ p \notin running
        BY <1>1, <2>5 DEF Unbegun, Handling
      <3> QED
        <4>1. ASSUME NEW p \in ToolCalls, NEW q \in ToolCalls, Unbegun(p)'
              PROVE  p \notin abreast'[q]
          <5>1. p # r /\ p \notin running /\ p \notin abreast[q]
            BY <3>1, <4>1 DEF RunAbreast
          <5> QED
            BY <2>2, <5>1
        <4> QED
          BY <4>1
    <2> QED
      BY <2>3, <2>4, <2>6 DEF RunAbreast
  <1>7. RowsBefore' /\ FoundNone' /\ NotTwiceUnasked'
    <2>1. \A q \in ToolCalls : callOf'[q].sure = callOf[q].sure /\ callOf'[q].series = callOf[q].series
      BY <1>1
    <2>2. r \notin made /\ made \subseteq ToolCalls
      BY DEF ToolsInv, Honest, ToolShapes
    <2>3. \A q \in ToolCalls : q # r => abreast[q] \subseteq abreast'[q]
      BY <1>2
    <2>4. \A q \in ToolCalls : callOf'[q].at = "create" /\ ~callOf'[q].sure => q # r /\ callOf[q].at = "create" /\ ~callOf[q].sure
      BY <1>1
    <2>5. Found' = Found
      BY <2>1, <2>2 DEF Found, OnPage
    <2>6. RowsBefore'
      BY DEF ToolsInv, RowsBefore
    <2>7. FoundNone'
      BY <2>3, <2>4, <2>5 DEF ToolsInv, FoundNone
    <2>8. NotTwiceUnasked'
      <3>1. \A p, q \in ToolCalls : Older(p, q)' => Older(p, q) /\ q # r
        BY <2>2 DEF Older
      <3> QED
        BY <2>1, <2>3, <3>1 DEF ToolsInv, NotTwiceUnasked, OnPage
    <2> QED
      BY <2>6, <2>7, <2>8
  <1>8. \A q \in ToolCalls : Honest(q)'
    BY <1>1 DEF ToolsInv, Honest
  <1> QED
    BY <1>4, <1>5, <1>6, <1>7, <1>8 DEF ToolsInv

(* The database takes the bill, whatever the call is told.                         *)
LEMMA MakeKeeps ==
  ASSUME ToolsInv, NEW r \in ToolCalls, callOf[r].at = "create", Adds(r),
         Replies(r, "CREATED") \/ Replies(r, "INTERNAL"),
         UNCHANGED <<settings, editor, callLog, undone, others, unseen, abreast>>
  PROVE  ToolsInv'
  <1>1. /\ callOf' \in [ToolCalls -> CallRow] /\ callOf'[r].at = "return" /\ callOf'[r].sure = callOf[r].sure /\ callOf'[r].series = callOf[r].series
        /\ callOf'[r].reply \in {"CREATED", "INTERNAL"} /\ callOf'[r].answer = callOf[r].answer
        /\ \A q \in ToolCalls \ {r} : callOf'[q] = callOf[q]
    BY Replying
  <1> DEFINE rows == Cardinality(made) + others
  <1>0. /\ made' = made \cup {r} /\ before' = [before EXCEPT ![r] = rows]
        /\ r \notin made /\ made \subseteq ToolCalls /\ rows \in Nat /\ Cardinality(made') + others' = rows + 1
    <2>1. r \notin made /\ made \subseteq ToolCalls /\ others \in Nat
      <3>1. r \notin made /\ made \subseteq ToolCalls /\ others \in 0..OtherBills
        BY DEF ToolsInv, ToolShapes, Honest
      <3> QED
        BY <3>1
    <2>2. IsFiniteSet(made) /\ Cardinality(made) \in Nat
      BY <2>1, ToolsAssumption, Smaller
    <2>3. Cardinality(made \cup {r}) = Cardinality(made) + 1
      BY <2>1, <2>2, FS_AddElement
    <2> QED
      BY <2>1, <2>2, <2>3 DEF Adds
  <1> HIDE DEF rows
  <1>2. ToolShapes'
    BY <1>0, <1>1 DEF ToolsInv, ToolShapes
  <1>3. Running' = Running /\ r \in Running
    BY <1>1 DEF Running, Runs, Handling
  <1>4. RunsCounted'
    <2>1. made' \cup Running' = made \cup Running
      BY <1>0, <1>3
    <2> QED
      BY <2>1 DEF ToolsInv, RunsCounted
  <1>5. RunAbreast'
    BY <1>1, <1>3 DEF ToolsInv, RunAbreast, Unbegun
  <1>6. \A q \in ToolCalls : callOf'[q].sure = callOf[q].sure /\ callOf'[q].series = callOf[q].series
    BY <1>1
  <1>7. RowsBefore' /\ FoundNone' /\ NotTwiceUnasked'
    <2>1. \A p \in made : before'[p] = before[p] /\ before[p] < rows /\ before[p] \in Nat
      BY <1>0 DEF ToolsInv, RowsBefore, ToolShapes, rows
    <2>2. before'[r] = rows
      BY <1>0 DEF ToolsInv, ToolShapes
    <2>3. RowsBefore'
      <3>1. \A p \in made' : before'[p] < rows + 1
        BY <1>0, <2>1, <2>2
      <3> QED
        BY <1>0, <3>1 DEF RowsBefore
    <2>4. \A p \in made \ undone : (p \in Found <=> p \in Found')
      BY <1>0, <1>6, <2>1 DEF Found, OnPage
    <2>5. Found' \subseteq Found \cup {r}
      BY <1>0, <2>4 DEF Found
    <2>6. FoundNone'
      <3>1. \A q \in ToolCalls : callOf'[q].at = "create" => q # r /\ callOf'[q] = callOf[q] /\ r \in abreast[q]
        BY <1>1 DEF ToolsInv, RunAbreast, Running, Runs, Handling
      <3> QED
        BY <2>5, <3>1 DEF ToolsInv, FoundNone
    <2>7. NotTwiceUnasked'
      <3>1. ASSUME NEW p \in ToolCalls, NEW q \in ToolCalls, Older(p, q)', ~callOf'[q].sure, ~callOf'[p].series, OnPage(p)'
            PROVE  p \in abreast'[q]
        <4>1. p \in made' /\ p \notin undone /\ q \in made' /\ before'[p] < before'[q]
          BY <3>1 DEF Older
        <4>2. p \in made
          BY <1>0, <2>1, <2>2, <4>1
        <4>3. ~callOf[q].sure /\ ~callOf[p].series /\ OnPage(p)
          BY <1>6, <2>1, <3>1, <4>2 DEF OnPage
        <4>4. CASE q = r
          <5>1. p \in Found
            BY <4>1, <4>2, <4>3 DEF Found
          <5> QED
            BY <4>3, <4>4, <5>1 DEF ToolsInv, FoundNone
        <4>5. CASE q # r
          <5>1. Older(p, q)
            BY <1>0, <2>1, <4>1, <4>2, <4>5 DEF Older
          <5> QED
            BY <4>3, <5>1 DEF ToolsInv, NotTwiceUnasked
        <4> QED
          BY <4>4, <4>5
      <3> QED
        BY <3>1 DEF NotTwiceUnasked
    <2> QED
      BY <2>3, <2>6, <2>7
  <1>8. \A q \in ToolCalls : Honest(q)'
    BY <1>0, <1>1 DEF ToolsInv, Honest
  <1> QED
    BY <1>2, <1>4, <1>5, <1>7, <1>8 DEF ToolsInv

LEMMA ToolsStep ==
  ASSUME ToolsInv, [ToolsNext]_toolVars
  PROVE  ToolsInv'
  <1>1. ASSUME NEW r \in ToolCalls, Authorize(r)
        PROVE  ToolsInv'
    <2>1. \/ Shows(r, "count")
          \/ \E answer \in {"DENIED", "AREA_DISABLED", "ACTION_NOT_ALLOWED"} : Answers(r, answer)
      BY <1>1 DEF Authorize
    <2>2. /\ callOf' \in [ToolCalls -> CallRow] /\ \A q \in ToolCalls \ {r} : callOf'[q] = callOf[q]
          /\ callOf'[r].sure = callOf[r].sure /\ callOf'[r].series = callOf[r].series
          /\ \/ callOf'[r].at = "count" /\ callOf'[r].answer = callOf[r].answer
             \/ callOf'[r].at = "over" /\ callOf'[r].answer \in {"DENIED", "AREA_DISABLED", "ACTION_NOT_ALLOWED"}
      BY <2>1, Showing, Answering
    <2>3. callOf[r].at = "guard" /\ UNCHANGED <<settings, editor, callLog, made, undone, others, before, unseen, abreast>>
          /\ callLog' \subseteq ToolCalls
      BY <1>1 DEF Authorize, billVars, ToolsInv, ToolShapes
    <2>4. Honest(r)'
      BY <2>2, <2>3 DEF ToolsInv, Honest
    <2>5. (Runs(r)' => Runs(r)) /\ (Unbegun(r)' => Unbegun(r)) /\ callOf'[r].at # "create"
      BY <2>2, <2>3 DEF Runs, Unbegun, Handling
    <2> QED
      BY <2>2, <2>3, <2>4, <2>5, CallKeeps
  <1>2. ASSUME NEW r \in ToolCalls, ActionBlock(r)
        PROVE  ToolsInv'
    <2>1. CASE Cardinality(callLog) >= HourLimit
      <3>1. /\ callOf' \in [ToolCalls -> CallRow] /\ \A q \in ToolCalls \ {r} : callOf'[q] = callOf[q]
            /\ callOf'[r].sure = callOf[r].sure /\ callOf'[r].series = callOf[r].series
            /\ callOf'[r].at = "over" /\ callOf'[r].answer = "ACTION_RATE_LIMITED"
        BY <1>2, <2>1, Answering DEF ActionBlock
      <3>2. callOf[r].at = "count" /\ UNCHANGED <<settings, editor, callLog, made, undone, others, before, unseen, abreast>>
            /\ callLog' \subseteq ToolCalls
        BY <1>2, <2>1 DEF ActionBlock, billVars, ToolsInv, ToolShapes
      <3>3. Honest(r)' /\ (Runs(r)' => Runs(r)) /\ (Unbegun(r)' => Unbegun(r)) /\ callOf'[r].at # "create"
        BY <3>1, <3>2 DEF ToolsInv, Honest, Runs, Unbegun, Handling
      <3> QED
        BY <3>1, <3>2, <3>3, CallKeeps
    <2>2. CASE ~(Cardinality(callLog) >= HourLimit)
      <3>1. Cardinality(callLog) < HourLimit
        <4>1. callLog \subseteq ToolCalls
          BY DEF ToolsInv, ToolShapes
        <4>2. Cardinality(callLog) \in Nat /\ HourLimit \in Nat
          BY <4>1, ToolsAssumption, Smaller
        <4> QED
          BY <2>2, <4>2
      <3> QED
        BY <1>2, <2>2, <3>1, BeginKeeps DEF ActionBlock, billVars
    <2> QED
      BY <2>1, <2>2
  <1>3. ASSUME NEW r \in ToolCalls, Shed(r)
        PROVE  ToolsInv'
    <2>1. /\ callOf' \in [ToolCalls -> CallRow] /\ \A q \in ToolCalls \ {r} : callOf'[q] = callOf[q]
          /\ callOf'[r].sure = callOf[r].sure /\ callOf'[r].series = callOf[r].series
          /\ callOf'[r].at = "over" /\ callOf'[r].answer = "MEMORY_PRESSURE"
      BY <1>3, Answering DEF Shed
    <2>2. callOf[r].at = "count" /\ UNCHANGED <<settings, editor, callLog, made, undone, others, before, unseen, abreast>>
          /\ callLog' \subseteq ToolCalls
      BY <1>3 DEF Shed, billVars, ToolsInv, ToolShapes
    <2>3. Honest(r)' /\ (Runs(r)' => Runs(r)) /\ (Unbegun(r)' => Unbegun(r)) /\ callOf'[r].at # "create"
      BY <2>1, <2>2 DEF ToolsInv, Honest, Runs, Unbegun, Handling
    <2> QED
      BY <2>1, <2>2, <2>3, CallKeeps
  <1>4. ASSUME NEW r \in ToolCalls, FindDuplicate(r)
        PROVE  ToolsInv'
    <2>1. Replies(r, "DUPLICATE") \/ (Shows(r, "create") /\ Found = {})
      BY <1>4 DEF FindDuplicate
    <2>2. /\ callOf' \in [ToolCalls -> CallRow] /\ \A q \in ToolCalls \ {r} : callOf'[q] = callOf[q]
          /\ callOf'[r].sure = callOf[r].sure /\ callOf'[r].series = callOf[r].series /\ callOf'[r].answer = callOf[r].answer
          /\ \/ callOf'[r].at = "return" /\ callOf'[r].reply = "DUPLICATE"
             \/ callOf'[r].at = "create" /\ Found = {}
      BY <2>1, Replying, Showing DEF Handling
    <2>3. callOf[r].at = "look" /\ UNCHANGED <<settings, editor, callLog, made, undone, others, before, unseen, abreast>>
          /\ callLog' \subseteq ToolCalls
      BY <1>4 DEF FindDuplicate, billVars, ToolsInv, ToolShapes
    <2>4. Honest(r)'
      BY <2>2, <2>3 DEF ToolsInv, Honest
    <2>5. (Runs(r)' => Runs(r)) /\ (Unbegun(r)' => Unbegun(r))
      BY <2>2, <2>3 DEF Runs, Unbegun, Handling
    <2> QED
      BY <2>2, <2>3, <2>4, <2>5, CallKeeps
  <1>5. ASSUME NEW r \in ToolCalls, CreateBill(r)
        PROVE  ToolsInv'
    BY <1>5, MakeKeeps DEF CreateBill
  <1>6. ASSUME NEW r \in ToolCalls, callOf[r].at = "create", Replies(r, "BUSINESS_RULE") \/ Replies(r, "INTERNAL"),
               UNCHANGED <<settings, editor, callLog, made, undone, others, before, unseen, abreast>>
        PROVE  ToolsInv'
    <2>1. /\ callOf' \in [ToolCalls -> CallRow] /\ \A q \in ToolCalls \ {r} : callOf'[q] = callOf[q]
          /\ callOf'[r].sure = callOf[r].sure /\ callOf'[r].series = callOf[r].series /\ callOf'[r].answer = callOf[r].answer
          /\ callOf'[r].at = "return" /\ callOf'[r].reply \in {"BUSINESS_RULE", "INTERNAL"}
      BY <1>6, Replying
    <2>2. Honest(r)'
      BY <1>6, <2>1 DEF ToolsInv, Honest
    <2>3. (Runs(r)' => Runs(r)) /\ (Unbegun(r)' => Unbegun(r)) /\ callLog' \subseteq ToolCalls
      BY <1>6, <2>1 DEF Runs, Unbegun, Handling, ToolsInv, ToolShapes
    <2> QED
      BY <1>6, <2>1, <2>2, <2>3, CallKeeps
  <1>7. ASSUME NEW r \in ToolCalls, RefuseBill(r) \/ BreakBill(r)
        PROVE  ToolsInv'
    BY <1>6, <1>7, MakeKeeps DEF RefuseBill, BreakBill, billVars
  <1>8. ASSUME NEW r \in ToolCalls, TimeOut(r)
        PROVE  ToolsInv'
    <2>1. callOf[r].at \in Handling /\ callOf[r].answer = "none" /\ callOf' = [callOf EXCEPT ![r].answer = "TIMEOUT"]
      BY <1>8 DEF TimeOut, Runs
    <2>2. /\ callOf' \in [ToolCalls -> CallRow] /\ \A q \in ToolCalls \ {r} : callOf'[q] = callOf[q]
          /\ callOf'[r].sure = callOf[r].sure /\ callOf'[r].series = callOf[r].series /\ callOf'[r].answer = "TIMEOUT"
          /\ callOf'[r].at = callOf[r].at /\ callOf'[r].reply = callOf[r].reply
      <3>1. callOf \in [ToolCalls -> CallRow] /\ callOf[r] \in CallRow
        BY DEF ToolsInv, ToolShapes
      <3>2. PICK row : row = [callOf[r] EXCEPT !.answer = "TIMEOUT"]
        OBVIOUS
      <3>3. callOf' = [callOf EXCEPT ![r] = row]
        BY <2>1, <3>2
      <3>4. /\ row \in CallRow /\ row.at = callOf[r].at /\ row.sure = callOf[r].sure /\ row.series = callOf[r].series
            /\ row.reply = callOf[r].reply /\ row.answer = "TIMEOUT"
        BY <3>1, <3>2 DEF CallRow
      <3> QED
        BY <3>1, <3>3, <3>4
    <2>3. UNCHANGED <<settings, editor, callLog, made, undone, others, before, unseen, abreast>> /\ callLog' \subseteq ToolCalls
      BY <1>8 DEF TimeOut, billVars, ToolsInv, ToolShapes
    <2>4. Honest(r)'
      BY <2>1, <2>2, <2>3 DEF ToolsInv, Honest, Handling
    <2>5. (Runs(r)' => Runs(r)) /\ (Unbegun(r)' => Unbegun(r))
      BY <2>2 DEF Runs, Unbegun
    <2> QED
      BY <2>2, <2>3, <2>4, <2>5, CallKeeps
  <1>9. ASSUME NEW r \in ToolCalls, Reply(r)
        PROVE  ToolsInv'
    <2>1. callOf[r].at = "return" /\ callOf[r] \in CallRow
      BY <1>9 DEF Reply, billVars, ToolsInv, ToolShapes
    <2>2. /\ callOf' \in [ToolCalls -> CallRow] /\ \A q \in ToolCalls \ {r} : callOf'[q] = callOf[q]
          /\ callOf'[r].sure = callOf[r].sure /\ callOf'[r].series = callOf[r].series /\ callOf'[r].at \in {"over", "log"}
          /\ callOf'[r].answer = IF callOf[r].answer # "none" THEN callOf[r].answer ELSE callOf[r].reply
      <3>1. callOf \in [ToolCalls -> CallRow]
        BY DEF ToolsInv, ToolShapes
      <3>2. PICK at \in {"over", "log"} :
              callOf' = [callOf EXCEPT ![r] = [callOf[r] EXCEPT !.at = at, !.reply = "none",
                          !.answer = IF callOf[r].answer # "none" THEN callOf[r].answer ELSE callOf[r].reply]]
        BY <1>9, <2>1, <3>1 DEF Reply
      <3>3. PICK row : row = [callOf[r] EXCEPT !.at = at, !.reply = "none",
                                !.answer = IF callOf[r].answer # "none" THEN callOf[r].answer ELSE callOf[r].reply]
        OBVIOUS
      <3>4. callOf' = [callOf EXCEPT ![r] = row]
        BY <3>2, <3>3
      <3>5. /\ row \in CallRow /\ row.at = at /\ row.sure = callOf[r].sure /\ row.series = callOf[r].series
            /\ row.answer = IF callOf[r].answer # "none" THEN callOf[r].answer ELSE callOf[r].reply
        BY <2>1, <3>3 DEF CallRow
      <3> QED
        BY <3>1, <3>4, <3>5
    <2>3. UNCHANGED <<settings, editor, callLog, made, undone, others, before, unseen, abreast>> /\ callLog' \subseteq ToolCalls
      BY <1>9 DEF Reply, billVars, ToolsInv, ToolShapes
    <2>4. Honest(r)'
      BY <2>1, <2>2, <2>3 DEF ToolsInv, Honest, CallRow
    <2>5. (Runs(r)' => Runs(r)) /\ (Unbegun(r)' => Unbegun(r)) /\ callOf'[r].at # "create"
      BY <2>2 DEF Runs, Unbegun, Handling
    <2> QED
      BY <2>2, <2>3, <2>4, <2>5, CallKeeps
  <1>10. ASSUME NEW r \in ToolCalls, RecordCall(r) \/ CutCall(r)
         PROVE  ToolsInv'
    <2>1. Shows(r, "over") /\ callOf[r].at \in Handling \cup {"count", "log"}
      BY <1>10 DEF RecordCall, CutCall
    <2>2. /\ callOf' \in [ToolCalls -> CallRow] /\ \A q \in ToolCalls \ {r} : callOf'[q] = callOf[q]
          /\ callOf'[r].sure = callOf[r].sure /\ callOf'[r].series = callOf[r].series /\ callOf'[r].at = "over" /\ callOf'[r].answer = callOf[r].answer
      BY <2>1, Showing
    <2>3. UNCHANGED <<settings, editor, made, undone, others, before, unseen, abreast>> /\ callLog' \subseteq ToolCalls
      BY <1>10 DEF RecordCall, CutCall, billVars, ToolsInv, ToolShapes
    <2>4. Honest(r)' /\ (Runs(r)' => Runs(r)) /\ (Unbegun(r)' => Unbegun(r)) /\ callOf'[r].at # "create"
      BY <2>2, <2>3 DEF ToolsInv, Honest, Runs, Unbegun, Handling
    <2> QED
      BY <2>2, <2>3, <2>4, CallKeeps
  <1>11. ASSUME NEW r \in ToolCalls, CancelBill(r)
         PROVE  ToolsInv'
    <2>1. undone' = undone \cup {r} /\ r \in made /\ UNCHANGED <<settings, editor, callOf, callLog, made, others, before, unseen, abreast>>
      BY <1>11 DEF CancelBill
    <2>2. ToolShapes' /\ RunsCounted' /\ RunAbreast'
      BY <2>1 DEF ToolsInv, ToolShapes, RunsCounted, RunAbreast, Running, Runs, Unbegun
    <2>3. Found' \subseteq Found /\ \A p, q \in ToolCalls : Older(p, q)' => Older(p, q)
      BY <2>1 DEF Found, OnPage, Older
    <2>4. RowsBefore' /\ FoundNone' /\ NotTwiceUnasked' /\ \A q \in ToolCalls : Honest(q)'
      BY <2>1, <2>3 DEF ToolsInv, RowsBefore, FoundNone, NotTwiceUnasked, OnPage, Honest
    <2> QED
      BY <2>2, <2>4 DEF ToolsInv
  <1>12. CASE ReadSettings \/ WriteSettings \/ UNCHANGED toolVars
    <2>1. UNCHANGED <<callOf, callLog, made, undone, others, before, unseen, abreast>>
      BY <1>12 DEF ReadSettings, WriteSettings, toolVars, billVars
    <2>2. /\ settings' \in [enabled : BOOLEAN, area : BOOLEAN, actions : BOOLEAN]
          /\ editor' \in [at : {"idle", "write"}, saw : BOOLEAN, wants : {"on", "off", "as is"}, left : 0..Edits]
      <3>1. CASE ReadSettings
        <4>1. settings.actions \in BOOLEAN /\ editor.left \in 0..Edits
          BY DEF ToolsInv, ToolShapes
        <4>2. editor.left - 1 \in 0..Edits
          <5>1. editor.left > 0 /\ Edits \in Nat
            BY <3>1, ToolsAssumption DEF ReadSettings
          <5>2. \A n \in 0..Edits : n > 0 => n - 1 \in 0..Edits
            BY <5>1
          <5> QED
            BY <4>1, <5>1, <5>2
        <4>3. PICK wants \in {"on", "off", "as is"} :
                editor' = [at |-> "write", saw |-> settings.actions, wants |-> wants, left |-> editor.left - 1]
          BY <3>1 DEF ReadSettings
        <4>4. editor' \in [at : {"idle", "write"}, saw : BOOLEAN, wants : {"on", "off", "as is"}, left : 0..Edits]
          BY <4>1, <4>2, <4>3
        <4> QED
          BY <3>1, <4>4 DEF ReadSettings, ToolsInv, ToolShapes
      <3>2. CASE WriteSettings
        <4>1. (IF editor.wants = "as is" THEN editor.saw ELSE editor.wants = "on") \in BOOLEAN
          BY DEF ToolsInv, ToolShapes
        <4>2. editor' \in [at : {"idle", "write"}, saw : BOOLEAN, wants : {"on", "off", "as is"}, left : 0..Edits]
          BY <3>2 DEF WriteSettings, ToolsInv, ToolShapes
        <4>3. PICK enabled \in BOOLEAN, area \in BOOLEAN :
                settings' = [enabled |-> enabled, area |-> area,
                             actions |-> IF editor.wants = "as is" THEN editor.saw ELSE editor.wants = "on"]
          BY <3>2 DEF WriteSettings
        <4> QED
          BY <4>1, <4>2, <4>3
      <3>3. CASE UNCHANGED toolVars
        BY <3>3 DEF toolVars, ToolsInv, ToolShapes
      <3> QED
        BY <1>12, <3>1, <3>2, <3>3
    <2>3. ToolShapes' /\ RunsCounted' /\ RunAbreast'
      BY <2>1, <2>2 DEF ToolsInv, ToolShapes, RunsCounted, RunAbreast, Running, Runs, Unbegun
    <2>4. RowsBefore' /\ FoundNone' /\ NotTwiceUnasked' /\ \A q \in ToolCalls : Honest(q)'
      BY <2>1 DEF ToolsInv, RowsBefore, FoundNone, Found, NotTwiceUnasked, Older, OnPage, Honest
    <2> QED
      BY <2>3, <2>4 DEF ToolsInv
  <1>13. ASSUME EnterOther
         PROVE  ToolsInv'
    <2>1. others' = others + 1 /\ others < OtherBills
          /\ UNCHANGED <<settings, editor, callOf, callLog, made, undone, before, unseen, abreast>>
      BY <1>13 DEF EnterOther
    <2>2. others \in Nat /\ others' \in 0..OtherBills
      <3>1. others \in 0..OtherBills /\ OtherBills \in Nat
        BY ToolsAssumption DEF ToolsInv, ToolShapes
      <3>2. \A n \in 0..OtherBills : n < OtherBills => n \in Nat /\ n + 1 \in 0..OtherBills
        BY <3>1
      <3> QED
        BY <2>1, <3>1, <3>2
    <2>3. ToolShapes' /\ RunsCounted' /\ RunAbreast'
      BY <2>1, <2>2 DEF ToolsInv, ToolShapes, RunsCounted, RunAbreast, Running, Runs, Unbegun
    <2>4. RowsBefore'
      <3>1. made \subseteq ToolCalls /\ \A p \in made : before[p] < Cardinality(made) + others /\ before[p] \in Nat
        BY DEF ToolsInv, RowsBefore, ToolShapes
      <3>2. Cardinality(made) \in Nat
        BY <3>1, ToolsAssumption, Smaller
      <3> QED
        BY <2>1, <2>2, <3>1, <3>2 DEF RowsBefore
    <2>5. FoundNone' /\ NotTwiceUnasked' /\ \A q \in ToolCalls : Honest(q)'
      BY <2>1 DEF ToolsInv, FoundNone, Found, NotTwiceUnasked, Older, OnPage, Honest
    <2> QED
      BY <2>3, <2>4, <2>5 DEF ToolsInv
  <1> QED
    BY <1>1, <1>2, <1>3, <1>4, <1>5, <1>7, <1>8, <1>9, <1>10, <1>11, <1>12, <1>13 DEF ToolsNext

LEMMA ToolsAreSafe ==
  ASSUME ToolsInv
  PROVE  ToolsSafe
  <1>1. HourlyLimit
    <2>1. made \ unseen \subseteq (made \cup Running) \ unseen
      OBVIOUS
    <2>2. IsFiniteSet((made \cup Running) \ unseen)
      <3>1. (made \cup Running) \ unseen \subseteq ToolCalls
        BY DEF ToolsInv, ToolShapes, Running
      <3> QED
        BY <3>1, ToolsAssumption, FS_Subset
    <2>3. /\ Cardinality(made \ unseen) <= Cardinality((made \cup Running) \ unseen)
          /\ Cardinality(made \ unseen) \in Nat /\ Cardinality((made \cup Running) \ unseen) \in Nat
      BY <2>1, <2>2, Smaller
    <2>4. Cardinality((made \cup Running) \ unseen) <= HourLimit
      BY DEF ToolsInv, RunsCounted
    <2> QED
      BY <2>3, <2>4, ToolsAssumption DEF HourlyLimit
  <1>2. ToolsTypeOK
    <2>1. \A r \in ToolCalls : callOf[r].at \in Handling \cup {"guard", "count", "log", "over"}
      BY DEF ToolsInv, ToolShapes, CallRow
    <2> QED
      BY <2>1 DEF ToolsInv, ToolShapes, ToolsTypeOK
  <1>3. AnswersTellTheTruth
    BY DEF ToolsInv, Honest, AnswersTellTheTruth
  <1> QED
    BY <1>1, <1>2, <1>3 DEF ToolsInv, ToolsSafe

(* Assistants create no more bills in an hour than the limit, but for calls whose  *)
(* success was not logged when a later one was counted; no second bill unasked     *)
(* where an equal single one is among the oldest of its day, but by a call that    *)
(* overlaps; and no answer that is wrong about it (McpToolRunner, findDuplicate    *)
(* and criar_conta_a_pagar), for any number of calls, any limit and any page.      *)
THEOREM ToolsCorrect == ToolsSpec => []ToolsSafe
  <1>1. ToolsInit => ToolsInv
    BY ToolsStart
  <1>2. ToolsInv /\ [ToolsNext]_toolVars => ToolsInv'
    BY ToolsStep
  <1>3. ToolsInv => ToolsSafe
    BY ToolsAreSafe
  <1> QED
    BY <1>1, <1>2, <1>3, PTL DEF ToolsSpec

----------------------------------------------------------------------------
(* StoreAccess.                                                                    *)

AccountRow == [status : Stopped \cup {"ACTIVE", "INVITED"}, master : BOOLEAN]
LetterRow  == [to : People \cup {NoBody}, status : {"none", "ACTIVE", "USED", "expired"}]
VisitRow   == [at : {"idle", "count", "write", "stamp", "issue", "set"}, who : People \cup {NoBody},
               change : Changes \cup {"none"}, letter : Letters \cup {NoBody}, master : BOOLEAN]
VisitOK(v) ==
  /\ v.at # "idle" => v.who \in People
  /\ v.at \in {"count", "write"} => v.change \in Changes
  /\ v.at = "set" <=> v.letter \in Letters
AccessShapes ==
  /\ account \in [People -> AccountRow] /\ letter \in [Letters -> LetterRow] /\ clerk \in [Clerks -> VisitRow]
  /\ visits \in 0..Visits /\ touched \in [Clerks -> BOOLEAN] /\ hasty \in BOOLEAN
  /\ barred \subseteq People /\ leftover \subseteq People /\ passwords \in [Letters -> Nat]
  /\ \A k \in Clerks : VisitOK(clerk[k])
  /\ \A t \in Letters : letter[t].status = "ACTIVE" => letter[t].to \in People

(* Who is about to stop or demote a master, and has seen every change of an        *)
(* account, leaves another one that is active.                                     *)
Removes(k) == clerk[k].change \in Stopped \cup {"demote"}
CountHolds ==
  \A k \in Clerks : clerk[k].at = "write" /\ Removes(k) /\ ~touched[k] =>
    ~account[clerk[k].who].master \/ \E q \in ActiveMasters : q # clerk[k].who

(* Who was stopped with nothing open has nothing open now.                         *)
ShutOut == \A p \in barred \ leftover : account[p].status \in Stopped /\ ~StillOpen(p)

(* A letter that one confirmation reads sets nothing before, and is used after.    *)
Readers(t) == {k \in Clerks : clerk[k].letter = t}
ReadOnce(t) ==
  /\ \A j, k \in Readers(t) : j = k
  /\ passwords[t] = 0 \/ (passwords[t] = 1 /\ letter[t].status = "USED" /\ Readers(t) = {})

AccessInv ==
  /\ AccessShapes /\ MasterRemains /\ CountHolds /\ ShutOut
  /\ \A t \in Letters \ doubled : ReadOnce(t)

(* One that is not the one.                                                        *)
LEMMA Several ==
  ASSUME NEW S, IsFiniteSet(S), NEW x, ~(Cardinality(S) <= 1)
  PROVE  \E y \in S : y # x
  <1> SUFFICES ASSUME S \subseteq {x} PROVE FALSE
    OBVIOUS
  <1>1. IsFiniteSet({x}) /\ Cardinality({x}) = 1
    BY FS_Singleton
  <1>2. Cardinality(S) <= Cardinality({x})
    BY <1>1, Smaller
  <1> QED
    BY <1>1, <1>2

LEMMA AccessStart == AccessInit => AccessInv
  <1> SUFFICES ASSUME AccessInit PROVE AccessInv
    OBVIOUS
  <1> USE AccessAssumption
  <1>1. NoVisit \in VisitRow /\ VisitOK(NoVisit)
    BY DEF NoVisit, VisitRow, VisitOK
  <1>2. \A k \in Clerks : clerk[k] = NoVisit
    BY DEF AccessInit
  <1>3. clerk \in [Clerks -> VisitRow] /\ account \in [People -> AccountRow] /\ letter \in [Letters -> LetterRow]
    BY <1>1 DEF AccessInit, AccountRow, LetterRow
  <1>4. visits \in 0..Visits /\ touched \in [Clerks -> BOOLEAN] /\ passwords \in [Letters -> Nat]
    BY DEF AccessInit
  <1>5. AccessShapes
    BY <1>1, <1>2, <1>3, <1>4 DEF AccessInit, AccessShapes
  <1>6. MasterRemains
    <2>1. PICK p \in Masters : TRUE
      OBVIOUS
    <2>2. account[p].master /\ account[p].status \notin Stopped
      BY <2>1 DEF AccessInit, Stopped
    <2> QED
      BY <2>1, <2>2 DEF MasterRemains
  <1>7. CountHolds /\ ShutOut
    BY <1>2 DEF AccessInit, CountHolds, ShutOut, NoVisit
  <1>8. \A t \in Letters : ReadOnce(t)
    <2>1. \A t \in Letters : Readers(t) = {}
      BY <1>2 DEF Readers, NoVisit
    <2> QED
      BY <2>1 DEF AccessInit, ReadOnce
  <1> QED
    BY <1>5, <1>6, <1>7, <1>8 DEF AccessInv

(* A request begins, moves on, or ends.                                            *)
LEMMA Entering ==
  ASSUME AccessInv, NEW k \in Clerks, NEW visit \in VisitRow, Enters(k, visit)
  PROVE  /\ clerk' \in [Clerks -> VisitRow] /\ clerk'[k] = visit /\ clerk[k] = NoVisit
         /\ \A j \in Clerks \ {k} : clerk'[j] = clerk[j] /\ touched'[j] = touched[j]
         /\ visits' \in 0..Visits /\ touched' \in [Clerks -> BOOLEAN]
  <1>1. /\ clerk[k] = NoVisit /\ visits < Visits /\ visits' = visits + 1
        /\ clerk' = [clerk EXCEPT ![k] = visit] /\ touched' = [touched EXCEPT ![k] = FALSE]
    BY DEF Enters
  <1>2. visits \in 0..Visits /\ Visits \in Nat
    BY AccessAssumption DEF AccessInv, AccessShapes
  <1>3. visits' \in 0..Visits
    BY <1>1, <1>2
  <1> QED
    BY <1>1, <1>3 DEF AccessInv, AccessShapes

LEMMA Turning ==
  ASSUME AccessInv, NEW k \in Clerks, NEW at \in {"write"}, Turns(k, at)
  PROVE  /\ clerk' \in [Clerks -> VisitRow] /\ clerk'[k].at = at
         /\ clerk'[k].who = clerk[k].who /\ clerk'[k].change = clerk[k].change /\ clerk'[k].letter = clerk[k].letter
         /\ \A j \in Clerks \ {k} : clerk'[j] = clerk[j]
  BY DEF AccessInv, AccessShapes, Turns, VisitRow

LEMMA Leaving ==
  ASSUME AccessInv, NEW k \in Clerks, Leaves(k)
  PROVE  /\ clerk' \in [Clerks -> VisitRow] /\ clerk'[k] = NoVisit
         /\ \A j \in Clerks \ {k} : clerk'[j] = clerk[j]
         /\ NoVisit.at = "idle" /\ NoVisit.letter \notin Letters /\ VisitOK(NoVisit)
  <1>1. NoVisit \in VisitRow /\ NoVisit.at = "idle" /\ NoVisit.letter \notin Letters /\ VisitOK(NoVisit)
    BY AccessAssumption DEF NoVisit, VisitRow, VisitOK
  <1> QED
    BY <1>1 DEF AccessInv, AccessShapes, Leaves

LEMMA Touching ==
  ASSUME AccessInv, NEW k \in Clerks, Touches(k)
  PROVE  /\ touched' \in [Clerks -> BOOLEAN]
         /\ \A j \in Clerks \ {k} : clerk[j].at # "idle" => touched'[j]
  <1>1. touched' = [j \in Clerks |-> j # k /\ (touched[j] \/ clerk[j] # NoVisit)]
    BY DEF Touches
  <1>2. \A j \in Clerks : clerk[j].at # "idle" => clerk[j] # NoVisit
    BY DEF NoVisit
  <1>3. \A j \in Clerks : touched[j] \in BOOLEAN
    BY DEF AccessInv, AccessShapes
  <1> QED
    BY <1>1, <1>2, <1>3

(* What a request does before it writes: a login and a letter are for who may      *)
(* enter, and a master is counted.                                                 *)
LEMMA VisitKeeps ==
  ASSUME AccessInv, NEW k \in Clerks, clerk' \in [Clerks -> VisitRow],
         \A j \in Clerks \ {k} : clerk'[j] = clerk[j] /\ touched'[j] = touched[j],
         VisitOK(clerk'[k]), clerk'[k].letter \notin Letters,
         clerk'[k].at \in {"stamp", "issue"} => account[clerk'[k].who].status \notin Stopped,
         clerk'[k].at = "write" /\ clerk'[k].change \in Stopped \cup {"demote"} =>
           \/ ~account[clerk'[k].who].master
           \/ \E q \in ActiveMasters : q # clerk'[k].who
           \/ touched'[k],
         visits' \in 0..Visits, touched' \in [Clerks -> BOOLEAN],
         UNCHANGED <<account, letter, hasty, barred, leftover, passwords, doubled>>
  PROVE  AccessInv'
  <1>1. AccessShapes'
    BY DEF AccessInv, AccessShapes
  <1>2. ActiveMasters' = ActiveMasters
    BY DEF ActiveMasters
  <1>3. MasterRemains'
    BY DEF AccessInv, MasterRemains
  <1>4. CountHolds'
    BY <1>2 DEF AccessInv, CountHolds, Removes
  <1>5. ShutOut'
    <2>1. ASSUME NEW p \in barred \ leftover, StillOpen(p)'
          PROVE  FALSE
      <3>1. account[p].status \in Stopped /\ ~StillOpen(p)
        BY DEF AccessInv, ShutOut
      <3>2. clerk'[k].who = p /\ clerk'[k].at \in {"stamp", "issue", "set"}
        BY <2>1, <3>1 DEF StillOpen
      <3>3. clerk'[k].at # "set"
        BY DEF VisitOK
      <3> QED
        BY <3>1, <3>2, <3>3
    <2> QED
      BY <2>1 DEF AccessInv, ShutOut
  <1>6. \A t \in Letters \ doubled' : ReadOnce(t)'
    <2>1. \A t \in Letters : Readers(t)' \subseteq Readers(t)
      BY DEF Readers
    <2> QED
      BY <2>1 DEF AccessInv, ReadOnce
  <1> QED
    BY <1>1, <1>3, <1>4, <1>5, <1>6 DEF AccessInv

(* An account that becomes active lets in who was stopped only with what they had  *)
(* open then, and every request in progress is touched.                            *)
LEMMA ActiveKeeps ==
  ASSUME AccessInv, NEW k \in Clerks, clerk[k].at \in {"stamp", "set"},
         account' = [account EXCEPT ![clerk[k].who].status = "ACTIVE"], Touches(k), Leaves(k),
         letter' \in [Letters -> LetterRow],
         \A t \in Letters : letter'[t].to = letter[t].to /\ (letter'[t].status = "ACTIVE" => letter[t].status = "ACTIVE"),
         passwords' \in [Letters -> Nat], UNCHANGED <<visits, hasty, barred, leftover>>
  PROVE  AccessShapes' /\ MasterRemains' /\ CountHolds' /\ ShutOut'
  <1>1. PICK who \in People : who = clerk[k].who
    BY DEF AccessInv, AccessShapes, VisitOK
  <1>2. /\ account' \in [People -> AccountRow] /\ account'[who].status = "ACTIVE"
        /\ account'[who].master = account[who].master /\ \A p \in People \ {who} : account'[p] = account[p]
    <2>1. PICK row : row = [account[who] EXCEPT !.status = "ACTIVE"]
      OBVIOUS
    <2>2. account' = [account EXCEPT ![who] = row]
      BY <1>1, <2>1
    <2>3. account \in [People -> AccountRow] /\ account[who] \in AccountRow
      BY DEF AccessInv, AccessShapes
    <2>4. row \in AccountRow /\ row.status = "ACTIVE" /\ row.master = account[who].master
      BY <2>1, <2>3 DEF AccountRow
    <2> QED
      BY <2>2, <2>3, <2>4
  <1>3. AccessShapes'
    <2>1. clerk' \in [Clerks -> VisitRow] /\ \A j \in Clerks : VisitOK(clerk'[j])
      BY Leaving DEF AccessInv, AccessShapes
    <2>2. touched' \in [Clerks -> BOOLEAN]
      BY Touching
    <2> QED
      BY <1>2, <2>1, <2>2 DEF AccessInv, AccessShapes
  <1>4. MasterRemains'
    BY <1>2 DEF AccessInv, MasterRemains, Stopped
  <1>5. CountHolds'
    BY Leaving, Touching DEF CountHolds
  <1>6. ShutOut'
    <2>1. StillOpen(who)
      BY <1>1 DEF StillOpen
    <2>2. ASSUME NEW p \in barred \ leftover
          PROVE  account'[p].status \in Stopped /\ ~StillOpen(p)'
      <3>1. account[p].status \in Stopped /\ ~StillOpen(p) /\ p \in People
        BY <2>2 DEF AccessInv, AccessShapes, ShutOut
      <3>2. account'[p].status \in Stopped
        BY <1>2, <2>1, <3>1
      <3>3. ~StillOpen(p)'
        BY <3>1, Leaving DEF StillOpen
      <3> QED
        BY <3>2, <3>3
    <2> QED
      BY <2>2 DEF ShutOut
  <1> QED
    BY <1>3, <1>4, <1>5, <1>6

(* An update stops, demotes, promotes or lets in.                                  *)
LEMMA UpdateKeeps ==
  ASSUME AccessInv, NEW k \in Clerks, WriteUser(k)
  PROVE  AccessInv'
  <1>1. PICK who \in People, change \in Changes : who = clerk[k].who /\ change = clerk[k].change
    BY DEF WriteUser, ClerkIs, AccessInv, AccessShapes, VisitOK
  <1>2. /\ account' \in [People -> AccountRow] /\ \A p \in People \ {who} : account'[p] = account[p]
        /\ account'[who].status = IF change \in {"promote", "demote"} THEN account[who].status ELSE change
        /\ account'[who].master = IF change = "promote" THEN TRUE
                                  ELSE IF change = "demote" THEN FALSE ELSE account[who].master
    <2>1. account \in [People -> AccountRow] /\ account[who] \in AccountRow
      BY DEF AccessInv, AccessShapes
    <2>2. PICK status : status = IF change \in {"promote", "demote"} THEN account[who].status ELSE change
      OBVIOUS
    <2>3. PICK master : master = IF change = "promote" THEN TRUE ELSE IF change = "demote" THEN FALSE ELSE account[who].master
      OBVIOUS
    <2>4. PICK row : row = [account[who] EXCEPT !.status = status, !.master = master]
      OBVIOUS
    <2>5. status \in Stopped \cup {"ACTIVE", "INVITED"}
      BY <2>1, <2>2 DEF AccountRow, Changes, Stopped
    <2>6. master \in BOOLEAN
      BY <2>1, <2>3 DEF AccountRow
    <2>7. row \in AccountRow /\ row.status = status /\ row.master = master
      BY <2>1, <2>4, <2>5, <2>6 DEF AccountRow
    <2>8. account' = [account EXCEPT ![who] = row]
      BY <1>1, <2>2, <2>3, <2>4 DEF WriteUser
    <2>9. account' \in [People -> AccountRow] /\ \A p \in People \ {who} : account'[p] = account[p]
      BY <2>1, <2>7, <2>8
    <2>10. account'[who] = row
      BY <2>1, <2>8
    <2> QED
      BY <2>2, <2>3, <2>7, <2>9, <2>10
  <1>3. /\ clerk[k].at = "write" /\ Touches(k) /\ Leaves(k) /\ hasty' = (hasty \/ touched[k])
        /\ UNCHANGED <<letter, visits, passwords, doubled>>
    BY DEF WriteUser, ClerkIs
  <1>4. /\ barred' = IF change \in Stopped THEN barred \cup {who}
                     ELSE IF change \in {"ACTIVE", "INVITED"} THEN barred \ {who} ELSE barred
        /\ leftover' = IF change \in Stopped /\ StillOpen(who) THEN leftover \cup {who} ELSE leftover
    BY <1>1 DEF WriteUser
  <1>5. AccessShapes'
    <2>1. clerk' \in [Clerks -> VisitRow] /\ \A j \in Clerks : VisitOK(clerk'[j])
      BY <1>3, Leaving DEF AccessInv, AccessShapes
    <2>2. touched' \in [Clerks -> BOOLEAN] /\ hasty' \in BOOLEAN
      <3>1. hasty \in BOOLEAN /\ touched[k] \in BOOLEAN
        BY DEF AccessInv, AccessShapes
      <3> QED
        BY <1>3, <3>1, Touching
    <2>3. barred' \subseteq People /\ leftover' \subseteq People
      BY <1>4 DEF AccessInv, AccessShapes
    <2> QED
      BY <1>2, <1>3, <2>1, <2>2, <2>3 DEF AccessInv, AccessShapes
  <1>6. MasterRemains'
    <2>1. SUFFICES ASSUME ~hasty, ~touched[k]
                   PROVE  \E p \in People : account'[p].master /\ account'[p].status \notin Stopped
      <3>1. hasty \in BOOLEAN /\ touched[k] \in BOOLEAN
        BY DEF AccessInv, AccessShapes
      <3> QED
        BY <1>3, <2>1, <3>1 DEF MasterRemains
    <2>2. PICK m \in People : account[m].master /\ account[m].status \notin Stopped
      BY <2>1 DEF AccessInv, MasterRemains
    <2>3. CASE change \in Stopped \cup {"demote"}
      <3>1. ~account[who].master \/ \E q \in ActiveMasters : q # who
        BY <1>1, <1>3, <2>1, <2>3 DEF AccessInv, CountHolds, Removes
      <3>2. CASE ~account[who].master
        BY <1>2, <2>2, <3>2
      <3>3. CASE \E q \in ActiveMasters : q # who
        BY <1>2, <3>3 DEF ActiveMasters, Stopped
      <3> QED
        BY <3>1, <3>2, <3>3
    <2>4. CASE change \notin Stopped \cup {"demote"}
      BY <1>2, <2>2, <2>4 DEF Changes, Stopped
    <2> QED
      BY <2>3, <2>4
  <1>7. CountHolds'
    BY <1>3, Leaving, Touching DEF CountHolds
  <1>8. ShutOut'
    <2>1. ASSUME NEW p \in barred' \ leftover'
          PROVE  account'[p].status \in Stopped /\ ~StillOpen(p)
      <3>1. CASE p = who
        <4>1. CASE change \in Stopped
          BY <1>2, <1>4, <2>1, <3>1, <4>1 DEF Stopped
        <4>2. CASE change \notin Stopped
          <5>1. change \in {"promote", "demote"} /\ p \in barred \ leftover
            BY <1>4, <2>1, <3>1, <4>2 DEF Changes, Stopped
          <5> QED
            BY <1>2, <3>1, <5>1 DEF AccessInv, ShutOut
        <4> QED
          BY <4>1, <4>2
      <3>2. CASE p # who
        <4>1. p \in barred \ leftover /\ p \in People
          BY <1>4, <2>1, <3>2 DEF AccessInv, AccessShapes
        <4> QED
          BY <1>2, <3>2, <4>1 DEF AccessInv, ShutOut
      <3> QED
        BY <3>1, <3>2
    <2>2. \A p : StillOpen(p)' => StillOpen(p)
      BY <1>3, Leaving DEF StillOpen
    <2> QED
      BY <2>1, <2>2 DEF ShutOut
  <1>9. \A t \in Letters \ doubled' : ReadOnce(t)'
    <2>1. \A t \in Letters : Readers(t)' \subseteq Readers(t)
      BY <1>3, Leaving DEF Readers
    <2> QED
      BY <1>3, <2>1 DEF AccessInv, ReadOnce
  <1> QED
    BY <1>5, <1>6, <1>7, <1>8, <1>9 DEF AccessInv

(* A password is set: the letter is used up, unless another read it before.        *)
LEMMA PasswordKeeps ==
  ASSUME AccessInv, NEW k \in Clerks, SetPassword(k)
  PROVE  AccessInv'
  <1>1. clerk[k].at = "set"
    BY DEF SetPassword, ClerkIs
  <1>2. PICK t \in Letters : t = clerk[k].letter
    BY <1>1 DEF AccessInv, AccessShapes, VisitOK
  <1>3. /\ letter' = [letter EXCEPT ![t].status = "USED"] /\ passwords' = [passwords EXCEPT ![t] = @ + 1]
        /\ account' = [account EXCEPT ![clerk[k].who].status = "ACTIVE"] /\ Touches(k) /\ Leaves(k)
        /\ UNCHANGED <<visits, hasty, barred, leftover, doubled>>
    BY <1>2 DEF SetPassword
  <1>4. /\ letter' \in [Letters -> LetterRow] /\ letter'[t].status = "USED"
        /\ \A u \in Letters : letter'[u].to = letter[u].to
        /\ \A u \in Letters \ {t} : letter'[u] = letter[u]
    BY <1>3 DEF AccessInv, AccessShapes, LetterRow
  <1>5. /\ passwords' \in [Letters -> Nat] /\ passwords'[t] = passwords[t] + 1
        /\ \A u \in Letters \ {t} : passwords'[u] = passwords[u]
    BY <1>3 DEF AccessInv, AccessShapes
  <1>6. AccessShapes' /\ MasterRemains' /\ CountHolds' /\ ShutOut'
    <2>1. \A u \in Letters : letter'[u].status = "ACTIVE" => letter[u].status = "ACTIVE"
      BY <1>4
    <2> QED
      BY <1>1, <1>3, <1>4, <1>5, <2>1, ActiveKeeps
  <1>7. ASSUME NEW u \in Letters \ doubled'
        PROVE  ReadOnce(u)'
    <2>1. ReadOnce(u)
      BY <1>3, <1>7 DEF AccessInv
    <2>2. Readers(u)' = Readers(u) \ {k}
      BY <1>3, Leaving DEF Readers
    <2>3. CASE u = t
      <3>1. Readers(u) = {k} /\ passwords[u] = 0
        BY <1>2, <2>1, <2>3 DEF ReadOnce, Readers
      <3> QED
        BY <1>4, <1>5, <2>2, <2>3, <3>1 DEF ReadOnce
    <2>4. CASE u # t
      BY <1>4, <1>5, <2>1, <2>2, <2>4 DEF ReadOnce
    <2> QED
      BY <2>3, <2>4
  <1> QED
    BY <1>6, <1>7 DEF AccessInv

LEMMA AccessStep ==
  ASSUME AccessInv, [AccessNext]_accessVars
  PROVE  AccessInv'
  <1>1. ASSUME NEW k \in Clerks, AssertCanRemoveMaster(k)
        PROVE  AccessInv'
    <2>1. clerk[k].at = "count" /\ UNCHANGED <<account, letter, visits, touched, hasty, barred, leftover, passwords, doubled>>
      BY <1>1 DEF AssertCanRemoveMaster, ClerkIs
    <2>2. visits' \in 0..Visits /\ touched' \in [Clerks -> BOOLEAN]
      BY <2>1 DEF AccessInv, AccessShapes
    <2>3. CASE Cardinality(ActiveMasters) <= 1
      <3>1. Leaves(k)
        BY <1>1, <2>3 DEF AssertCanRemoveMaster
      <3> QED
        BY <2>1, <2>2, <3>1, Leaving, VisitKeeps
    <2>4. CASE ~(Cardinality(ActiveMasters) <= 1)
      <3>1. Turns(k, "write")
        BY <1>1, <2>4 DEF AssertCanRemoveMaster
      <3>2. \E q \in ActiveMasters : q # clerk[k].who
        <4>1. IsFiniteSet(ActiveMasters)
          BY AccessAssumption, FS_Subset DEF ActiveMasters
        <4> QED
          BY <2>4, <4>1, Several
      <3>3. VisitOK(clerk[k])
        BY DEF AccessInv, AccessShapes
      <3>4. /\ clerk' \in [Clerks -> VisitRow] /\ clerk'[k].at = "write" /\ clerk'[k].who = clerk[k].who
            /\ clerk'[k].change = clerk[k].change /\ clerk'[k].letter = clerk[k].letter
            /\ \A j \in Clerks \ {k} : clerk'[j] = clerk[j]
        BY <3>1, Turning
      <3>5. VisitOK(clerk'[k]) /\ clerk'[k].letter \notin Letters
        BY <2>1, <3>3, <3>4 DEF VisitOK
      <3> QED
        BY <2>1, <2>2, <3>2, <3>4, <3>5, VisitKeeps
    <2> QED
      BY <2>3, <2>4
  <1>2. ASSUME NEW k \in Clerks, NEW visit \in VisitRow, Enters(k, visit), VisitOK(visit), visit.at # "set",
               visit.at \in {"stamp", "issue"} => account[visit.who].status \notin Stopped,
               visit.at = "write" /\ visit.change \in Stopped \cup {"demote"} => ~account[visit.who].master,
               UNCHANGED <<account, letter, hasty, barred, leftover, passwords, doubled>>
        PROVE  AccessInv'
    <2>1. visit.letter \notin Letters
      BY <1>2 DEF VisitOK
    <2> QED
      BY <1>2, <2>1, Entering, VisitKeeps
  <1>3. ASSUME NEW k \in Clerks, NEW p \in People, NEW change \in Changes, ReadUser(k, p, change)
        PROVE  AccessInv'
    <2>1. PICK at \in {"count", "write"} :
            at = IF account[p].master /\ change \in Stopped \cup {"demote"} THEN "count" ELSE "write"
      OBVIOUS
    <2>2. PICK visit : visit = [NoVisit EXCEPT !.who = p, !.change = change, !.master = account[p].master, !.at = at]
      OBVIOUS
    <2>3. account[p].master \in BOOLEAN
      BY DEF AccessInv, AccessShapes, AccountRow
    <2>4. /\ visit \in VisitRow /\ visit.who = p /\ visit.change = change /\ visit.at = at /\ visit.letter = NoBody
      BY <2>2, <2>3 DEF NoVisit, VisitRow
    <2>5. VisitOK(visit)
      BY <2>4, AccessAssumption DEF VisitOK
    <2>6. Enters(k, visit) /\ UNCHANGED <<account, letter, hasty, barred, leftover, passwords, doubled>>
      BY <1>3, <2>1, <2>2 DEF ReadUser
    <2> QED
      BY <1>2, <2>1, <2>4, <2>5, <2>6
  <1>4. ASSUME NEW k \in Clerks, NEW p \in People, Login(k, p) \/ RequestLetter(k, p)
        PROVE  AccessInv'
    <2>1. PICK at \in {"stamp", "issue"} : Enters(k, [NoVisit EXCEPT !.at = at, !.who = p])
      BY <1>4 DEF Login, RequestLetter
    <2>2. PICK visit : visit = [NoVisit EXCEPT !.at = at, !.who = p]
      OBVIOUS
    <2>3. /\ visit \in VisitRow /\ visit.who = p /\ visit.at = at /\ visit.letter = NoBody
      BY <2>2 DEF NoVisit, VisitRow
    <2>4. VisitOK(visit)
      BY <2>3, AccessAssumption DEF VisitOK
    <2>5. account[p].status \notin Stopped /\ UNCHANGED <<account, letter, hasty, barred, leftover, passwords, doubled>>
      BY <1>4 DEF Login, RequestLetter, Stopped
    <2> QED
      BY <1>2, <2>1, <2>2, <2>3, <2>4, <2>5
  <1>5. ASSUME NEW k \in Clerks, WriteUser(k)
        PROVE  AccessInv'
    BY <1>5, UpdateKeeps
  <1>6. ASSUME NEW k \in Clerks, UpdateLastLogin(k)
        PROVE  AccessInv'
    <2>1. /\ clerk[k].at = "stamp" /\ account' = [account EXCEPT ![clerk[k].who].status = "ACTIVE"]
          /\ Touches(k) /\ Leaves(k) /\ UNCHANGED <<letter, visits, hasty, barred, leftover, passwords, doubled>>
      BY <1>6 DEF UpdateLastLogin, ClerkIs
    <2>2. letter' \in [Letters -> LetterRow] /\ passwords' \in [Letters -> Nat]
      BY <2>1 DEF AccessInv, AccessShapes
    <2>3. AccessShapes' /\ MasterRemains' /\ CountHolds' /\ ShutOut'
      BY <2>1, <2>2, ActiveKeeps
    <2>4. \A t \in Letters : Readers(t)' \subseteq Readers(t)
      BY <2>1, Leaving DEF Readers
    <2>5. \A t \in Letters \ doubled' : ReadOnce(t)'
      BY <2>1, <2>4 DEF AccessInv, ReadOnce
    <2> QED
      BY <2>3, <2>5 DEF AccessInv
  <1>7. ASSUME NEW k \in Clerks, SetPassword(k)
        PROVE  AccessInv'
    BY <1>7, PasswordKeeps
  <1>8. ASSUME NEW k \in Clerks, CutVisit(k)
        PROVE  AccessInv'
    <2>1. Leaves(k) /\ UNCHANGED <<account, letter, visits, touched, hasty, barred, leftover, passwords, doubled>>
      BY <1>8 DEF CutVisit
    <2>2. visits' \in 0..Visits /\ touched' \in [Clerks -> BOOLEAN]
      BY <2>1 DEF AccessInv, AccessShapes
    <2> QED
      BY <2>1, <2>2, Leaving, VisitKeeps
  <1>9. ASSUME NEW k \in Clerks, NEW t \in Letters, IssueLetter(k, t)
        PROVE  AccessInv'
    <2>1. PICK who \in People : who = clerk[k].who
      BY <1>9 DEF IssueLetter, ClerkIs, AccessInv, AccessShapes, VisitOK
    <2>2. /\ clerk[k].at = "issue" /\ letter[t].status = "none" /\ Leaves(k)
          /\ letter' = [letter EXCEPT ![t] = [to |-> who, status |-> "ACTIVE"]]
          /\ UNCHANGED <<account, visits, touched, hasty, barred, leftover, passwords, doubled>>
      BY <1>9, <2>1 DEF IssueLetter, ClerkIs
    <2>3. /\ letter' \in [Letters -> LetterRow] /\ letter'[t].to = who /\ letter'[t].status = "ACTIVE"
          /\ \A u \in Letters \ {t} : letter'[u] = letter[u]
      BY <2>2 DEF AccessInv, AccessShapes, LetterRow
    <2>4. AccessShapes'
      <3>1. clerk' \in [Clerks -> VisitRow] /\ \A j \in Clerks : VisitOK(clerk'[j])
        BY <2>2, Leaving DEF AccessInv, AccessShapes
      <3> QED
        BY <2>2, <2>3, <3>1 DEF AccessInv, AccessShapes
    <2>5. MasterRemains' /\ ActiveMasters' = ActiveMasters
      BY <2>2 DEF AccessInv, MasterRemains, ActiveMasters
    <2>6. CountHolds'
      BY <2>2, <2>5, Leaving DEF AccessInv, CountHolds, Removes
    <2>7. ShutOut'
      <3>1. StillOpen(who)
        BY <2>1, <2>2 DEF StillOpen
      <3>2. \A p : StillOpen(p)' => StillOpen(p)
        BY <2>2, <2>3, <3>1, Leaving DEF StillOpen
      <3> QED
        BY <2>2, <3>2 DEF AccessInv, ShutOut
    <2>8. ASSUME NEW u \in Letters \ doubled'
          PROVE  ReadOnce(u)'
      <3>1. ReadOnce(u) /\ Readers(u)' \subseteq Readers(u)
        BY <2>2, <2>8, Leaving DEF AccessInv, Readers
      <3> QED
        BY <2>2, <2>3, <3>1 DEF ReadOnce
    <2> QED
      BY <2>4, <2>5, <2>6, <2>7, <2>8 DEF AccessInv
  <1>10. ASSUME NEW k \in Clerks, NEW t \in Letters, Confirm(k, t)
         PROVE  AccessInv'
    <2>1. letter[t].status = "ACTIVE" /\ letter[t].to \in People
      BY <1>10 DEF Confirm, AccessInv, AccessShapes
    <2>2. PICK visit : visit = [NoVisit EXCEPT !.at = "set", !.who = letter[t].to, !.letter = t]
      OBVIOUS
    <2>3. /\ visit \in VisitRow /\ visit.at = "set" /\ visit.who = letter[t].to /\ visit.letter = t
      BY <2>1, <2>2 DEF NoVisit, VisitRow
    <2>4. VisitOK(visit)
      BY <2>1, <2>3 DEF VisitOK
    <2>5. /\ Enters(k, visit) /\ UNCHANGED <<account, letter, hasty, barred, leftover, passwords>>
          /\ doubled' = IF \E j \in Clerks : clerk[j].letter = t THEN doubled \cup {t} ELSE doubled
      BY <1>10, <2>2 DEF Confirm
    <2>6. /\ clerk' \in [Clerks -> VisitRow] /\ clerk'[k] = visit /\ clerk[k] = NoVisit
          /\ \A j \in Clerks \ {k} : clerk'[j] = clerk[j] /\ touched'[j] = touched[j]
          /\ visits' \in 0..Visits /\ touched' \in [Clerks -> BOOLEAN]
      BY <2>3, <2>5, Entering
    <2>7. AccessShapes'
      BY <2>4, <2>5, <2>6 DEF AccessInv, AccessShapes
    <2>8. MasterRemains' /\ ActiveMasters' = ActiveMasters
      BY <2>5 DEF AccessInv, MasterRemains, ActiveMasters
    <2>9. CountHolds'
      BY <2>3, <2>5, <2>6, <2>8 DEF AccessInv, CountHolds, Removes
    <2>10. ShutOut'
      <3>1. StillOpen(letter[t].to)
        BY <2>1 DEF StillOpen
      <3>2. \A p : StillOpen(p)' => StillOpen(p)
        BY <2>3, <2>5, <2>6, <3>1 DEF StillOpen
      <3> QED
        BY <2>5, <3>2 DEF AccessInv, ShutOut
    <2>11. ASSUME NEW u \in Letters \ doubled'
           PROVE  ReadOnce(u)'
      <3>1. ReadOnce(u)
        BY <2>5, <2>11 DEF AccessInv
      <3>2. CASE u = t
        <4>1. Readers(t) = {} /\ passwords[t] = 0
          BY <2>1, <2>5, <2>11, <3>1, <3>2 DEF ReadOnce, Readers
        <4>2. Readers(t)' = {k}
          BY <2>3, <2>6, <4>1 DEF Readers
        <4> QED
          BY <2>5, <3>2, <4>1, <4>2 DEF ReadOnce
      <3>3. CASE u # t
        <4>1. Readers(u)' \subseteq Readers(u)
          BY <2>3, <2>6, <3>3 DEF Readers
        <4> QED
          BY <2>5, <3>1, <4>1 DEF ReadOnce
      <3> QED
        BY <3>2, <3>3
    <2> QED
      BY <2>7, <2>8, <2>9, <2>10, <2>11 DEF AccessInv
  <1>11. ASSUME NEW t \in Letters, LetterExpires(t)
         PROVE  AccessInv'
    <2>1. /\ letter[t].status = "ACTIVE" /\ letter' = [letter EXCEPT ![t].status = "expired"]
          /\ UNCHANGED <<account, clerk, visits, touched, hasty, barred, leftover, passwords, doubled>>
      BY <1>11 DEF LetterExpires
    <2>2. /\ letter' \in [Letters -> LetterRow] /\ letter'[t].status = "expired"
          /\ \A u \in Letters : letter'[u].to = letter[u].to
          /\ \A u \in Letters \ {t} : letter'[u] = letter[u]
      BY <2>1 DEF AccessInv, AccessShapes, LetterRow
    <2>3. AccessShapes'
      BY <2>1, <2>2 DEF AccessInv, AccessShapes
    <2>4. MasterRemains' /\ CountHolds'
      BY <2>1 DEF AccessInv, MasterRemains, CountHolds, Removes, ActiveMasters
    <2>5. ShutOut'
      <3>1. \A p : StillOpen(p)' => StillOpen(p)
        BY <2>1, <2>2 DEF StillOpen
      <3> QED
        BY <2>1, <3>1 DEF AccessInv, ShutOut
    <2>6. \A u \in Letters \ doubled' : ReadOnce(u)'
      <3>1. \A u \in Letters : Readers(u)' = Readers(u)
        BY <2>1 DEF Readers
      <3> QED
        BY <2>1, <2>2, <3>1 DEF AccessInv, ReadOnce
    <2> QED
      BY <2>3, <2>4, <2>5, <2>6 DEF AccessInv
  <1>12. CASE UNCHANGED accessVars
    BY <1>12 DEF accessVars, AccessInv, AccessShapes, MasterRemains, CountHolds, Removes, ActiveMasters, ShutOut, StillOpen,
                 ReadOnce, Readers
  <1> QED
    BY <1>1, <1>3, <1>4, <1>5, <1>6, <1>7, <1>8, <1>9, <1>10, <1>11, <1>12 DEF AccessNext

(* Somebody can enter a store, who was stopped cannot, and a letter sets one       *)
(* password (UsersService, AuthService, PasswordResetService), each but for the    *)
(* requests that read before another wrote, for any number of people, requests and *)
(* letters.                                                                        *)
THEOREM AccessCorrect == AccessSpec => []AccessSafe
  <1>1. AccessInit => AccessInv
    BY AccessStart
  <1>2. AccessInv /\ [AccessNext]_accessVars => AccessInv'
    BY AccessStep
  <1>3. AccessInv => AccessSafe
    <2> SUFFICES ASSUME AccessInv PROVE AccessSafe
      OBVIOUS
    <2>1. AccessTypeOK
      <3>1. account \in [People -> [status : Stopped \cup {"ACTIVE", "INVITED"}, master : BOOLEAN]]
        BY DEF AccessInv, AccessShapes, AccountRow
      <3>2. \A t \in Letters : letter[t].to \in People \cup {NoBody} /\ letter[t].status \in {"none", "ACTIVE", "USED", "expired"}
        BY DEF AccessInv, AccessShapes, LetterRow
      <3>3. \A k \in Clerks : /\ clerk[k].who \in People \cup {NoBody}
                              /\ clerk[k].at \in {"idle", "count", "write", "stamp", "issue", "set"}
        BY DEF AccessInv, AccessShapes, VisitRow
      <3> QED
        BY <3>1, <3>2, <3>3 DEF AccessInv, AccessShapes, AccessTypeOK
    <2>2. StoppedStaysOut
      BY DEF AccessInv, ShutOut, StoppedStaysOut
    <2>3. LetterUsedOnce
      BY DEF AccessInv, AccessShapes, ReadOnce, LetterUsedOnce
    <2> QED
      BY <2>1, <2>2, <2>3 DEF AccessInv, AccessSafe
  <1> QED
    BY <1>1, <1>2, <1>3, PTL DEF AccessSpec

----------------------------------------------------------------------------
(* StoreSetup.                                                                     *)

(* Numbers have a least one, and so what is bounded has a last one.                *)
LEMMA Least ==
  ASSUME NEW T, T \subseteq Nat, T # {}
  PROVE  \E n \in T : \A m \in T : n <= m
  <1>1. PICK R : R = OpToRel(<, Nat)
    OBVIOUS
  <1>2. IsWellFoundedOn(R, Nat)
    BY <1>1, NatLessThanWellFounded
  <1>3. PICK n \in T : \A m \in T : ~(<<m, n>> \in R)
    BY <1>2, WFMin
  <1>4. \A k, m \in Nat : k < m => <<k, m>> \in R
    BY <1>1 DEF OpToRel
  <1>5. ASSUME NEW m \in T
        PROVE  n <= m
    <2>1. m \in Nat /\ n \in Nat
      OBVIOUS
    <2>2. ~(m < n)
      BY <1>3, <1>4, <2>1
    <2> QED
      BY <2>1, <2>2
  <1> QED
    BY <1>5

LEMMA Latest ==
  ASSUME NEW S, S # {}, NEW f \in [S -> Nat], NEW b \in Nat, \A x \in S : f[x] <= b
  PROVE  \E x \in S : \A y \in S : f[y] <= f[x]
  <1>1. PICK T : T = {b - f[x] : x \in S}
    OBVIOUS
  <1>2. T \subseteq Nat /\ T # {}
    <2>1. \A x \in S : f[x] \in Nat /\ b - f[x] \in Nat
      OBVIOUS
    <2> QED
      BY <1>1, <2>1
  <1>3. PICK n \in T : \A m \in T : n <= m
    BY <1>2, Least
  <1>4. PICK x \in S : n = b - f[x]
    BY <1>1, <1>3
  <1>5. ASSUME NEW y \in S
        PROVE  f[y] <= f[x]
    <2>1. b - f[x] <= b - f[y]
      BY <1>1, <1>3, <1>4
    <2>2. f[x] \in Nat /\ f[y] \in Nat
      OBVIOUS
    <2> QED
      BY <2>1, <2>2
  <1> QED
    BY <1>5

LookRow    == [status : {"none", "DRAFT", "PUBLISHED", "ARCHIVED"}, content : Nat, updated : Nat, published : Nat]
RequestRow ==
  [at : {"idle", "save", "archive", "publish", "unmap", "map", "profile", "create", "owner", "lower"},
   on : Looks \cup Products \cup Fields \cup Stores \cup Admins \cup {Nobody},
   to : Codes \cup {Nobody}, saw : {Nobody} \cup [Fields -> Nat]]

(* Each request writes at most twice: once more after it has archived.             *)
Open  == {d \in Desks : desk[d] # NoRequest}
Early == {d \in Open : desk[d].at # "publish"}
WritesLeft ==
  /\ IsFiniteSet(Open) /\ requests \in 0..Requests /\ clock \in Nat
  /\ clock + Cardinality(Open) + Cardinality(Early) <= 2 * requests

SetupShapes ==
  /\ subject \in Subjects /\ desk \in [Desks -> RequestRow] /\ look \in [Looks -> LookRow]
  /\ \A l \in Looks : look[l].content <= clock /\ look[l].updated <= clock /\ look[l].published <= clock
  /\ code \in [Products -> Codes \cup {Nobody}] /\ profile \in [Fields -> 0..clock]
  /\ asked \in [Products \cup Fields -> Codes \cup {Nobody} \cup Nat]
  /\ store \in [Stores -> {"none", "alone", "owned"}] /\ admins \subseteq Admins

Published == LooksThatAre("PUBLISHED")

(* One look is published; and who is going to write one that is published read it  *)
(* as a draft, before.                                                             *)
LookInv ==
  /\ mixed \subseteq Looks
  /\ \A d \in Open : /\ desk[d].at \in {"save", "archive", "publish"}
                     /\ desk[d].on \in Looks \/ (desk[d].at = "save" /\ desk[d].on = Nobody)
  /\ \A l, m \in Published : l = m
  /\ \A d \in Open : desk[d].at = "save" /\ desk[d].on \in Published => desk[d].on \in mixed
  /\ StaysPublished
NoLooks == \A l \in Looks : look[l] = NoLook

(* A product that is not mixed is replaced by one request at a time.               *)
CodeInv ==
  /\ mixed \subseteq Products
  /\ \A d \in Open : desk[d].at \in {"unmap", "map"} /\ desk[d].on \in Products
  /\ \A d, e \in Open : desk[d].on = desk[e].on => d = e \/ desk[d].on \in mixed
  /\ \A d \in Open : desk[d].at = "map" => code[desk[d].on] = Nobody \/ desk[d].on \in mixed
  /\ CodeKept
NoCodes == \A p \in Products : code[p] = Nobody /\ asked[p] = Nobody

(* One request at a time has seen what is there.                                   *)
ProfileInv ==
  /\ mixed \subseteq Fields
  /\ \A d \in Open : desk[d].at = "profile" /\ desk[d].on \in Fields /\ desk[d].saw \in [Fields -> 0..clock]
  /\ mixed = {} => \A d, e \in Open : d = e /\ desk[d].saw = profile
  /\ ProfileKept
NoFields == \A f \in Fields : profile[f] = 0 /\ asked[f] = 0

StoreInv ==
  /\ mixed \subseteq Stores
  /\ \A d \in Open : desk[d].at \in {"create", "owner"} /\ desk[d].on \in Stores
  /\ \A d, e \in Open : d = e \/ Stores \subseteq mixed
  /\ \A d \in Open : desk[d].on \in mixed \/ \A q \in Stores : store[q] # "owned"
  /\ StoreHasOwner
NoStores == \A s \in Stores : store[s] = "none"

AdminInv ==
  /\ mixed \subseteq Admins
  /\ \A d \in Open : desk[d].at = "lower"
  /\ mixed = {} => \A d, e \in Open : d = e /\ admins \ {desk[d].on} # {}
  /\ AdminRemains

SetupInv ==
  /\ SetupShapes /\ WritesLeft
  /\ IF subject = "look" THEN LookInv ELSE NoLooks
  /\ IF subject = "code" THEN CodeInv ELSE NoCodes
  /\ IF subject = "profile" THEN ProfileInv ELSE NoFields
  /\ IF subject = "store" THEN StoreInv ELSE NoStores
  /\ subject = "admin" => AdminInv

LEMMA Counted ==
  ASSUME NEW S, IsFiniteSet(S), NEW x
  PROVE  /\ IsFiniteSet(S \cup {x}) /\ Cardinality(S \cup {x}) \in Nat /\ Cardinality(S \cup {x}) <= Cardinality(S) + 1
         /\ IsFiniteSet(S \ {x}) /\ Cardinality(S \ {x}) \in Nat /\ Cardinality(S \ {x}) <= Cardinality(S)
         /\ x \in S => Cardinality(S \ {x}) = Cardinality(S) - 1
         /\ Cardinality(S) \in Nat
  <1>1. Cardinality(S) \in Nat
    BY FS_CardinalityType
  <1>2. IsFiniteSet(S \cup {x}) /\ Cardinality(S \cup {x}) = IF x \in S THEN Cardinality(S) ELSE Cardinality(S) + 1
    BY FS_AddElement
  <1>3. IsFiniteSet(S \ {x}) /\ Cardinality(S \ {x}) = IF x \in S THEN Cardinality(S) - 1 ELSE Cardinality(S)
    BY FS_RemoveElement
  <1>4. Cardinality(S \cup {x}) \in Nat /\ Cardinality(S \ {x}) \in Nat
    BY <1>2, <1>3, FS_CardinalityType
  <1> QED
    BY <1>1, <1>2, <1>3, <1>4

LEMMA OpenFinite ==
  ASSUME WritesLeft
  PROVE  IsFiniteSet(Open) /\ IsFiniteSet(Early)
  BY FS_Subset DEF WritesLeft, Early

(* A request begins, moves on, or is answered: enough writes are left.             *)
LEMMA Taken ==
  ASSUME SetupInv, NEW d \in Desks, NEW request \in RequestRow, Take(d, request), clock' = clock
  PROVE  /\ desk' \in [Desks -> RequestRow] /\ desk'[d] = request /\ desk[d] = NoRequest /\ d \notin Open
         /\ \A e \in Desks \ {d} : desk'[e] = desk[e]
         /\ Open' = IF request = NoRequest THEN Open ELSE Open \cup {d}
         /\ WritesLeft'
  <1>1. /\ desk[d] = NoRequest /\ requests < Requests /\ requests' = requests + 1
        /\ desk' = [desk EXCEPT ![d] = request] /\ desk \in [Desks -> RequestRow]
    BY DEF Take, SetupInv, SetupShapes
  <1>2. /\ desk' \in [Desks -> RequestRow] /\ desk'[d] = request /\ d \notin Open
        /\ \A e \in Desks \ {d} : desk'[e] = desk[e]
    BY <1>1 DEF Open
  <1>3. Open' = IF request = NoRequest THEN Open ELSE Open \cup {d}
    BY <1>1, <1>2 DEF Open
  <1>4. WritesLeft'
    <2>1. WritesLeft
      BY DEF SetupInv
    <2>2. IsFiniteSet(Open) /\ IsFiniteSet(Early)
      BY <2>1, OpenFinite
    <2>3. requests' \in 0..Requests
      BY <1>1, <2>1, SetupAssumption DEF WritesLeft
    <2>4. /\ IsFiniteSet(Open') /\ Cardinality(Open') \in Nat
          /\ Cardinality(Open') <= Cardinality(Open) + 1 /\ Cardinality(Open) \in Nat
      <3>1. Open' = Open \/ Open' = Open \cup {d}
        BY <1>3
      <3>2. /\ IsFiniteSet(Open \cup {d}) /\ Cardinality(Open \cup {d}) \in Nat
            /\ Cardinality(Open \cup {d}) <= Cardinality(Open) + 1 /\ Cardinality(Open) \in Nat
        BY <2>2, Counted
      <3>3. CASE Open' = Open
        BY <2>2, <3>2, <3>3
      <3>4. CASE Open' = Open \cup {d}
        BY <3>2, <3>4
      <3> QED
        BY <3>1, <3>3, <3>4
    <2>5. Early' \subseteq Early \cup {d}
      <3>1. ASSUME NEW e \in Early', e # d
            PROVE  e \in Early
        <4>1. e \in Open' /\ desk'[e].at # "publish"
          BY <3>1 DEF Early
        <4>2. e \in Open /\ desk'[e] = desk[e]
          BY <1>2, <1>3, <3>1, <4>1 DEF Open
        <4> QED
          BY <4>1, <4>2 DEF Early
      <3> QED
        BY <3>1
    <2>6. /\ IsFiniteSet(Early \cup {d}) /\ Cardinality(Early \cup {d}) \in Nat
          /\ Cardinality(Early \cup {d}) <= Cardinality(Early) + 1 /\ Cardinality(Early) \in Nat
      BY <2>2, Counted
    <2>7. Cardinality(Early') <= Cardinality(Early \cup {d}) /\ Cardinality(Early') \in Nat
      BY <2>5, <2>6, Smaller
    <2>8. requests \in Nat /\ clock \in Nat /\ clock + Cardinality(Open) + Cardinality(Early) <= 2 * requests
      BY <2>1, SetupAssumption DEF WritesLeft
    <2>9. clock' + Cardinality(Open') + Cardinality(Early') <= 2 * requests'
      BY <1>1, <2>4, <2>6, <2>7, <2>8
    <2> QED
      BY <2>3, <2>4, <2>8, <2>9 DEF WritesLeft
  <1> QED
    BY <1>1, <1>2, <1>3, <1>4

LEMMA Answered ==
  ASSUME SetupInv, NEW d \in Open, Answer(d), requests' = requests, clock' \in {clock, clock + 1}
  PROVE  /\ desk' \in [Desks -> RequestRow] /\ desk'[d] = NoRequest /\ d \in Desks
         /\ \A e \in Desks \ {d} : desk'[e] = desk[e]
         /\ Open' = Open \ {d}
         /\ WritesLeft'
  <1>1. /\ desk' = [desk EXCEPT ![d] = NoRequest] /\ desk \in [Desks -> RequestRow] /\ d \in Desks
        /\ NoRequest \in RequestRow
    BY DEF Answer, SetupInv, SetupShapes, Open, NoRequest, RequestRow
  <1>2. /\ desk' \in [Desks -> RequestRow] /\ desk'[d] = NoRequest
        /\ \A e \in Desks \ {d} : desk'[e] = desk[e]
    BY <1>1
  <1>3. Open' = Open \ {d}
    BY <1>1, <1>2 DEF Open
  <1>4. WritesLeft'
    <2>1. WritesLeft
      BY DEF SetupInv
    <2>2. IsFiniteSet(Open) /\ IsFiniteSet(Early)
      BY <2>1, OpenFinite
    <2>3. /\ IsFiniteSet(Open') /\ Cardinality(Open') \in Nat
          /\ Cardinality(Open') = Cardinality(Open) - 1 /\ Cardinality(Open) \in Nat
      BY <1>3, <2>2, Counted
    <2>4. Early' = Early \ {d}
      BY <1>2, <1>3 DEF Early, Open
    <2>5. Cardinality(Early') <= Cardinality(Early) /\ Cardinality(Early) \in Nat /\ Cardinality(Early') \in Nat
      BY <2>2, <2>4, Counted
    <2>6. requests \in Nat /\ clock \in Nat /\ clock + Cardinality(Open) + Cardinality(Early) <= 2 * requests
      BY <2>1, SetupAssumption DEF WritesLeft
    <2>7. clock' \in Nat /\ clock' + Cardinality(Open') + Cardinality(Early') <= 2 * requests'
      BY <2>3, <2>5, <2>6
    <2> QED
      BY <2>1, <2>3, <2>7 DEF WritesLeft
  <1> QED
    BY <1>1, <1>2, <1>3, <1>4

LEMMA Proceeded ==
  ASSUME SetupInv, NEW d \in Open, NEW at \in {"publish", "map", "owner"}, Proceeds(d, at), requests' = requests,
         desk[d].at # "publish", clock' = IF at = "publish" THEN clock + 1 ELSE clock
  PROVE  /\ desk' \in [Desks -> RequestRow] /\ d \in Desks
         /\ desk'[d].at = at /\ desk'[d].on = desk[d].on /\ desk'[d].to = desk[d].to /\ desk'[d].saw = desk[d].saw
         /\ \A e \in Desks \ {d} : desk'[e] = desk[e]
         /\ Open' = Open
         /\ WritesLeft'
  <1>1. desk \in [Desks -> RequestRow] /\ d \in Desks /\ desk[d] \in RequestRow
    BY DEF SetupInv, SetupShapes, Open
  <1>2. PICK row : row = [desk[d] EXCEPT !.at = at]
    OBVIOUS
  <1>3. /\ row \in RequestRow /\ row.at = at /\ row.on = desk[d].on /\ row.to = desk[d].to /\ row.saw = desk[d].saw
        /\ row # NoRequest
    BY <1>1, <1>2 DEF RequestRow, NoRequest
  <1>4. desk' = [desk EXCEPT ![d] = row]
    BY <1>2 DEF Proceeds
  <1>5. /\ desk' \in [Desks -> RequestRow] /\ desk'[d] = row /\ \A e \in Desks \ {d} : desk'[e] = desk[e]
    BY <1>1, <1>3, <1>4
  <1>6. Open' = Open
    BY <1>1, <1>3, <1>5 DEF Open
  <1>7. WritesLeft'
    <2>1. WritesLeft
      BY DEF SetupInv
    <2>2. IsFiniteSet(Open) /\ IsFiniteSet(Early)
      BY <2>1, OpenFinite
    <2>3. d \in Early /\ Early' = IF at = "publish" THEN Early \ {d} ELSE Early
      BY <1>3, <1>5, <1>6 DEF Early, Open
    <2>4. /\ Cardinality(Early') = IF at = "publish" THEN Cardinality(Early) - 1 ELSE Cardinality(Early)
          /\ Cardinality(Early) \in Nat /\ Cardinality(Open) \in Nat
      BY <2>2, <2>3, Counted
    <2>5. requests \in Nat /\ clock \in Nat /\ clock + Cardinality(Open) + Cardinality(Early) <= 2 * requests
      BY <2>1, SetupAssumption DEF WritesLeft
    <2>6. clock' \in Nat /\ clock' + Cardinality(Open') + Cardinality(Early') <= 2 * requests'
      BY <1>6, <2>4, <2>5
    <2> QED
      BY <1>6, <2>1, <2>6 DEF WritesLeft
  <1> QED
    BY <1>1, <1>3, <1>5, <1>6, <1>7

LEMMA AtWork ==
  ASSUME NEW d \in Desks, NEW at, desk[d].at = at, at # "idle"
  PROVE  d \in Open
  BY DEF Open, NoRequest

LEMMA SetupStart == SetupInit => SetupInv
  <1> SUFFICES ASSUME SetupInit PROVE SetupInv
    OBVIOUS
  <1> USE SetupAssumption
  <1>1. NoRequest \in RequestRow /\ NoLook \in LookRow
    BY DEF NoRequest, RequestRow, NoLook, LookRow
  <1>2. Open = {} /\ Early = {}
    BY DEF SetupInit, Open, Early
  <1>3. WritesLeft
    BY <1>2, FS_EmptySet DEF SetupInit, WritesLeft
  <1>4. desk \in [Desks -> RequestRow] /\ look \in [Looks -> LookRow] /\ \A l \in Looks : look[l] = NoLook
    BY <1>1 DEF SetupInit
  <1>5. \A x \in Products : asked[x] = Nobody
    BY DEF SetupInit
  <1>6. \A x \in Fields : asked[x] = 0 /\ profile[x] = 0
    BY DEF SetupInit
  <1>7. asked \in [Products \cup Fields -> Codes \cup {Nobody} \cup Nat]
    BY DEF SetupInit
  <1>8. SetupShapes
    <2>1. profile \in [Fields -> 0..clock] /\ code \in [Products -> Codes \cup {Nobody}]
      BY DEF SetupInit
    <2>2. store \in [Stores -> {"none", "alone", "owned"}] /\ admins \subseteq Admins
      BY DEF SetupInit
    <2>3. \A l \in Looks : look[l].content <= clock /\ look[l].updated <= clock /\ look[l].published <= clock
      BY <1>4 DEF SetupInit, NoLook
    <2> QED
      BY <1>4, <1>7, <2>1, <2>2, <2>3 DEF SetupInit, SetupShapes
  <1>9. mixed = {} /\ NoLooks /\ NoCodes /\ NoFields /\ NoStores /\ admins # {}
    BY <1>4, <1>5, <1>6 DEF SetupInit, NoLooks, NoCodes, NoFields, NoStores
  <1>10. LookInv
    <2>1. \A l \in Looks : look[l].published = 0 /\ look[l].status = "none"
      BY <1>4 DEF NoLook
    <2> QED
      BY <1>2, <1>9, <2>1 DEF LookInv, StaysPublished, Published, LooksThatAre
  <1>11. CodeInv /\ ProfileInv /\ StoreInv /\ AdminInv
    BY <1>2, <1>9 DEF CodeInv, CodeKept, ProfileInv, ProfileKept, StoreInv, StoreHasOwner, AdminInv, AdminRemains,
                      NoCodes, NoFields, NoStores
  <1> QED
    BY <1>3, <1>8, <1>9, <1>10, <1>11 DEF SetupInv

(* The look of the store.                                                          *)
LEMMA NewestIsOne ==
  ASSUME SetupInv, NEW S, S \subseteq Looks, S # {}
  PROVE  Newest(S) \in S /\ LastPublished(S) \in S
  <1>1. clock \in Nat /\ look \in [Looks -> LookRow]
        /\ \A l \in Looks : look[l].updated <= clock /\ look[l].published <= clock
    BY DEF SetupInv, SetupShapes, WritesLeft
  <1>2. \A l \in Looks : look[l].updated \in Nat /\ look[l].published \in Nat
    BY <1>1 DEF LookRow
  <1>3. \E l \in S : \A m \in S : look[m].updated <= look[l].updated
    <2>1. PICK f : f = [l \in S |-> look[l].updated]
      OBVIOUS
    <2>2. f \in [S -> Nat] /\ \A l \in S : f[l] <= clock
      BY <1>1, <1>2, <2>1
    <2>3. \E l \in S : \A m \in S : f[m] <= f[l]
      BY <1>1, <2>2, Latest
    <2> QED
      BY <2>1, <2>3
  <1>4. \E l \in S : \A m \in S : look[m].published <= look[l].published
    <2>1. PICK f : f = [l \in S |-> look[l].published]
      OBVIOUS
    <2>2. f \in [S -> Nat] /\ \A l \in S : f[l] <= clock
      BY <1>1, <1>2, <2>1
    <2>3. \E l \in S : \A m \in S : f[m] <= f[l]
      BY <1>1, <2>2, Latest
    <2> QED
      BY <2>1, <2>3
  <1> QED
    BY <1>3, <1>4 DEF Newest, LastPublished

LEMMA LookDone ==
  ASSUME SetupInv, subject = "look", UNCHANGED <<subject, code, profile, store, admins, asked>>,
         desk' \in [Desks -> RequestRow], WritesLeft', clock' \in {clock, clock + 1}, look' \in [Looks -> LookRow],
         \A l \in Looks : look'[l].content <= clock' /\ look'[l].updated <= clock' /\ look'[l].published <= clock',
         LookInv'
  PROVE  SetupInv'
  <1>1. profile' \in [Fields -> 0..clock']
    <2>1. profile \in [Fields -> 0..clock] /\ clock \in Nat
      BY DEF SetupInv, SetupShapes, WritesLeft
    <2>2. 0..clock \subseteq 0..clock'
      BY <2>1
    <2> QED
      BY <2>1, <2>2
  <1>2. SetupShapes'
    BY <1>1 DEF SetupInv, SetupShapes
  <1>3. NoCodes' /\ NoFields' /\ NoStores' /\ subject' # "admin"
    BY DEF SetupInv, NoCodes, NoFields, NoStores
  <1> QED
    BY <1>2, <1>3 DEF SetupInv

LEMMA LookStep ==
  ASSUME SetupInv, subject = "look", UNCHANGED <<subject, code, profile, store, admins, asked>>, NEW d \in Desks,
         SaveRead(d) \/ SaveWrite(d) \/ PublishRead(d) \/ RestoreRead(d) \/ Archive(d) \/ Publish(d)
  PROVE  SetupInv'
  <1> LookInv /\ SetupShapes /\ WritesLeft /\ clock \in Nat
    BY DEF SetupInv, WritesLeft
  <1>1. CASE SaveRead(d) \/ PublishRead(d) \/ RestoreRead(d)
    <2>1. PICK at \in {"save", "archive"}, on \in Looks \cup {Nobody} :
            /\ Take(d, [NoRequest EXCEPT !.at = at, !.on = on])
            /\ on = Nobody => at = "save"
            /\ at = "save" => on \notin Published
      <3>1. CASE SaveRead(d)
        <4>1. PICK on : on = IF LooksThatAre("DRAFT") = {} THEN Nobody ELSE Newest(LooksThatAre("DRAFT"))
          OBVIOUS
        <4>2. on \in LooksThatAre("DRAFT") \cup {Nobody}
          BY <4>1, NewestIsOne DEF LooksThatAre
        <4>3. on \in Looks \cup {Nobody} /\ on \notin Published
          BY <4>2, SetupAssumption DEF LooksThatAre, Published
        <4>4. Take(d, [NoRequest EXCEPT !.at = "save", !.on = on])
          BY <3>1, <4>1 DEF SaveRead
        <4> QED
          BY <4>3, <4>4
      <3>2. CASE PublishRead(d)
        <4>1. PICK on : on = Newest(LooksThatAre("DRAFT"))
          OBVIOUS
        <4>2. on \in Looks /\ on # Nobody
          BY <3>2, <4>1, NewestIsOne, SetupAssumption DEF LooksThatAre, PublishRead
        <4>3. Take(d, [NoRequest EXCEPT !.at = "archive", !.on = on])
          BY <3>2, <4>1 DEF PublishRead
        <4> QED
          BY <4>2, <4>3
      <3>3. CASE RestoreRead(d)
        <4>1. PICK on : on = LastPublished(LooksThatAre("ARCHIVED"))
          OBVIOUS
        <4>2. on \in Looks /\ on # Nobody
          BY <3>3, <4>1, NewestIsOne, SetupAssumption DEF LooksThatAre, RestoreRead
        <4>3. Take(d, [NoRequest EXCEPT !.at = "archive", !.on = on])
          BY <3>3, <4>1 DEF RestoreRead
        <4> QED
          BY <4>2, <4>3
      <3> QED
        BY <1>1, <3>1, <3>2, <3>3
    <2>2. UNCHANGED <<clock, look, mixed>>
      BY <1>1 DEF SaveRead, PublishRead, RestoreRead
    <2>3. PICK request : request = [NoRequest EXCEPT !.at = at, !.on = on]
      OBVIOUS
    <2>4. request \in RequestRow /\ request.at = at /\ request.on = on /\ request # NoRequest
      BY <2>3 DEF RequestRow, NoRequest
    <2>5. /\ desk' \in [Desks -> RequestRow] /\ desk'[d] = request /\ desk[d] = NoRequest /\ d \notin Open
          /\ \A e \in Desks \ {d} : desk'[e] = desk[e]
          /\ Open' = Open \cup {d} /\ WritesLeft'
      BY <2>1, <2>2, <2>3, <2>4, Taken
    <2>6. Published' = Published /\ LooksThatAre("PUBLISHED")' = LooksThatAre("PUBLISHED")
      BY <2>2 DEF Published, LooksThatAre
    <2>7. \A e \in Open : desk'[e] = desk[e]
      BY <2>5 DEF Open
    <2>8. StaysPublished'
      BY <2>2, <2>5, <2>6 DEF LookInv, StaysPublished, DeskAt, NoRequest
    <2>9. LookInv'
      BY <2>1, <2>2, <2>4, <2>5, <2>6, <2>7, <2>8 DEF LookInv
    <2>10. /\ look' \in [Looks -> LookRow] /\ clock' \in {clock, clock + 1}
           /\ \A l \in Looks : look'[l].content <= clock' /\ look'[l].updated <= clock' /\ look'[l].published <= clock'
      BY <2>2 DEF SetupShapes
    <2> QED
      BY <2>5, <2>9, <2>10, LookDone
  <1>2. CASE SaveWrite(d)
    <2>1. /\ desk[d].at = "save" /\ Answer(d) /\ clock' = clock + 1 /\ requests' = requests /\ mixed' = mixed
      BY <1>2 DEF SaveWrite, DeskAt, Ticks
    <2>2. d \in Open
      BY <2>1, AtWork
    <2>3. /\ desk' \in [Desks -> RequestRow] /\ \A e \in Desks \ {d} : desk'[e] = desk[e]
          /\ desk'[d] = NoRequest /\ Open' = Open \ {d} /\ WritesLeft'
      BY <2>1, <2>2, Answered
    <2>4. PICK l \in Looks, row \in LookRow :
            /\ look' = [look EXCEPT ![l] = row] /\ row.content <= clock' /\ row.updated <= clock'
            /\ row.published \in {0, look[l].published}
            /\ row.status = look[l].status \/ (look[l].status = "none" /\ row.status = "DRAFT")
      <3>1. CASE desk[d].on # Nobody
        <4>1. PICK l \in Looks : l = desk[d].on
          BY <2>2, <3>1 DEF LookInv
        <4>2. look' = [look EXCEPT ![l].content = clock', ![l].updated = clock']
          BY <1>2, <3>1, <4>1 DEF SaveWrite
        <4>3. PICK row : row = [look[l] EXCEPT !.content = clock', !.updated = clock']
          OBVIOUS
        <4>4. look[l] \in LookRow /\ clock' \in Nat
          BY <2>1 DEF SetupShapes
        <4>5. /\ row \in LookRow /\ row.content = clock' /\ row.updated = clock'
              /\ row.published = look[l].published /\ row.status = look[l].status
          BY <4>3, <4>4 DEF LookRow
        <4>6. look' = [look EXCEPT ![l] = row]
          BY <4>2, <4>3
        <4>7. row.content <= clock' /\ row.updated <= clock'
          BY <4>4, <4>5
        <4>8. row \in LookRow /\ row.published \in {0, look[l].published} /\ row.status = look[l].status
          BY <4>5
        <4> QED
          BY <4>6, <4>7, <4>8, Zenon
      <3>2. CASE desk[d].on = Nobody
        <4>1. PICK l \in LooksThatAre("none") :
                look' = [look EXCEPT ![l] = [NoLook EXCEPT !.status = "DRAFT", !.content = clock', !.updated = clock']]
          BY <1>2, <3>2 DEF SaveWrite
        <4>2. PICK row : row = [NoLook EXCEPT !.status = "DRAFT", !.content = clock', !.updated = clock']
          OBVIOUS
        <4>3. clock' \in Nat
          BY <2>1
        <4>4. /\ row \in LookRow /\ row.content = clock' /\ row.updated = clock'
              /\ row.published = 0 /\ row.status = "DRAFT"
          BY <4>2, <4>3 DEF LookRow, NoLook
        <4>5. l \in Looks /\ look[l].status = "none" /\ look' = [look EXCEPT ![l] = row]
          BY <4>1, <4>2 DEF LooksThatAre
        <4>6. row.content <= clock' /\ row.updated <= clock'
          BY <4>3, <4>4
        <4>7. row \in LookRow
          BY <4>4
        <4>8. row.published \in {0, look[l].published} /\ row.status = "DRAFT"
          BY <4>4
        <4> QED
          BY <4>5, <4>6, <4>7, <4>8, Zenon
      <3> QED
        BY <3>1, <3>2
    <2>5. /\ look' \in [Looks -> LookRow] /\ look'[l] = row /\ \A m \in Looks \ {l} : look'[m] = look[m]
      BY <2>4 DEF SetupShapes
    <2>6. Published' = Published /\ LooksThatAre("PUBLISHED")' = LooksThatAre("PUBLISHED")
      BY <2>4, <2>5 DEF Published, LooksThatAre
    <2>7. ASSUME NEW m \in Looks
          PROVE  look'[m].content <= clock' /\ look'[m].updated <= clock' /\ look'[m].published <= clock'
      <3>1. look[m] \in LookRow /\ look[m].content <= clock /\ look[m].updated <= clock /\ look[m].published <= clock
        BY DEF SetupShapes
      <3>2. look[m].content \in Nat /\ look[m].updated \in Nat /\ look[m].published \in Nat
        BY <3>1 DEF LookRow
      <3>3. CASE m = l
        BY <2>1, <2>4, <2>5, <3>1, <3>2, <3>3
      <3>4. CASE m # l
        BY <2>1, <2>5, <3>1, <3>2, <3>4
      <3> QED
        BY <3>3, <3>4
    <2>8. StaysPublished'
      <3>1. \A m \in Looks : look'[m].published > 0 => look[m].published > 0
        BY <2>4, <2>5
      <3>2. \A e \in Desks : desk[e].at = "publish" => desk'[e].at = "publish"
        BY <2>1, <2>3
      <3> QED
        BY <2>1, <2>6, <3>1, <3>2 DEF LookInv, StaysPublished, DeskAt
    <2>9. LookInv'
      <3>1. \A e \in Open' : e \in Open /\ desk'[e] = desk[e]
        BY <2>3 DEF Open
      <3> QED
        BY <2>1, <2>6, <2>8, <3>1 DEF LookInv
    <2> QED
      BY <2>1, <2>3, <2>5, <2>7, <2>9, LookDone
  <1>3. CASE Archive(d)
    <2>1. /\ desk[d].at = "archive" /\ Proceeds(d, "publish") /\ clock' = clock + 1 /\ requests' = requests
          /\ mixed' = mixed
          /\ look' = [l \in Looks |-> IF look[l].status = "PUBLISHED"
                                      THEN [look[l] EXCEPT !.status = "ARCHIVED", !.updated = clock'] ELSE look[l]]
      BY <1>3 DEF Archive, DeskAt, Ticks
    <2>2. d \in Open
      BY <2>1, AtWork
    <2>3. /\ desk' \in [Desks -> RequestRow] /\ \A e \in Desks \ {d} : desk'[e] = desk[e]
          /\ desk'[d].at = "publish" /\ desk'[d].on = desk[d].on /\ Open' = Open /\ WritesLeft' /\ d \in Desks
      BY <2>1, <2>2, Proceeded
    <2>4. ASSUME NEW m \in Looks
          PROVE  /\ look'[m] \in LookRow /\ look'[m].status # "PUBLISHED"
                 /\ look'[m].content <= clock' /\ look'[m].updated <= clock' /\ look'[m].published <= clock'
      <3>1. look[m] \in LookRow /\ look[m].content <= clock /\ look[m].updated <= clock /\ look[m].published <= clock
        BY DEF SetupShapes
      <3>2. look[m].content \in Nat /\ look[m].updated \in Nat /\ look[m].published \in Nat
        BY <3>1 DEF LookRow
      <3> clock' \in Nat /\ clock <= clock'
        <4>1. clock' = clock + 1
          BY <2>1
        <4> QED
          BY <4>1
      <3>3. CASE look[m].status = "PUBLISHED"
        <4>1. PICK row : row = [look[m] EXCEPT !.status = "ARCHIVED", !.updated = clock']
          OBVIOUS
        <4>2. row \in LookRow /\ row.status = "ARCHIVED" /\ row.updated = clock'
              /\ row.content = look[m].content /\ row.published = look[m].published
          BY <3>1, <4>1 DEF LookRow
        <4>3. look'[m] = row
          BY <2>1, <3>3, <4>1
        <4> QED
          BY <3>1, <3>2, <4>2, <4>3
      <3>4. CASE look[m].status # "PUBLISHED"
        <4>1. look'[m] = look[m]
          BY <2>1, <3>4
        <4> QED
          BY <3>1, <3>2, <3>4, <4>1
      <3> QED
        BY <3>3, <3>4
    <2>5. look' \in [Looks -> LookRow]
      BY <2>1, <2>4
    <2>6. Published' = {}
      BY <2>4 DEF Published, LooksThatAre
    <2>7. StaysPublished'
      BY <2>3 DEF StaysPublished, DeskAt
    <2>8. \A e \in Open : desk'[e].on = desk[e].on /\ (desk'[e].at = desk[e].at \/ (e = d /\ desk'[e].at = "publish"))
      BY <2>3 DEF Open
    <2>9. LookInv'
      BY <2>1, <2>3, <2>6, <2>7, <2>8 DEF LookInv
    <2> QED
      BY <2>1, <2>3, <2>4, <2>5, <2>9, LookDone
  <1>4. CASE Publish(d)
    <2>1. /\ desk[d].at = "publish" /\ Answer(d) /\ clock' = clock + 1 /\ requests' = requests
      BY <1>4 DEF Publish, DeskAt, Ticks
    <2>2. d \in Open
      BY <2>1, AtWork
    <2>3. /\ desk' \in [Desks -> RequestRow] /\ \A e \in Desks \ {d} : desk'[e] = desk[e]
          /\ desk'[d] = NoRequest /\ Open' = Open \ {d} /\ WritesLeft'
      BY <2>1, <2>2, Answered
    <2>4. PICK l \in Looks : l = desk[d].on
      BY <2>1, <2>2 DEF LookInv
    <2>5. mixed' = mixed \cup (IF \E e \in Desks : desk[e].at = "save" /\ desk[e].on = l THEN {l} ELSE {})
      BY <1>4, <2>4 DEF Publish, DeskAt
    <2>6. mixed \subseteq mixed' /\ mixed' \subseteq Looks /\ (mixed = Looks => mixed' = Looks)
      BY <2>5 DEF LookInv
    <2>7. \A e \in Open' : e \in Open /\ desk'[e] = desk[e]
      BY <2>3 DEF Open
    <2>8. CASE LooksThatAre("PUBLISHED") \subseteq {l}
      <3>1. look' = [look EXCEPT ![l].status = "PUBLISHED", ![l].updated = clock', ![l].published = clock']
        BY <1>4, <2>4, <2>8, SetupAssumption DEF Publish
      <3>2. PICK row : row = [look[l] EXCEPT !.status = "PUBLISHED", !.updated = clock', !.published = clock']
        OBVIOUS
      <3>3. look' = [look EXCEPT ![l] = row] /\ look[l] \in LookRow /\ clock' \in Nat
        <4>1. look[l] \in LookRow /\ clock' \in Nat
          BY <2>1 DEF SetupShapes
        <4> QED
          BY <3>1, <3>2, <4>1
      <3>4. /\ row \in LookRow /\ row.status = "PUBLISHED" /\ row.updated = clock' /\ row.published = clock'
            /\ row.content = look[l].content
        BY <3>2, <3>3 DEF LookRow
      <3>5. look' \in [Looks -> LookRow] /\ look'[l] = row /\ \A m \in Looks \ {l} : look'[m] = look[m]
        BY <3>3, <3>4 DEF SetupShapes
      <3>6. ASSUME NEW m \in Looks
            PROVE  look'[m].content <= clock' /\ look'[m].updated <= clock' /\ look'[m].published <= clock'
        <4>1. look[m] \in LookRow /\ look[m].content <= clock /\ look[m].updated <= clock /\ look[m].published <= clock
          BY DEF SetupShapes
        <4>2. look[m].content \in Nat /\ look[m].updated \in Nat /\ look[m].published \in Nat
          BY <4>1 DEF LookRow
        <4>3. CASE m = l
          BY <2>1, <3>3, <3>4, <3>5, <4>1, <4>2, <4>3
        <4>4. CASE m # l
          BY <2>1, <3>5, <4>1, <4>2, <4>4
        <4> QED
          BY <4>3, <4>4
      <3>7. LooksThatAre("PUBLISHED")' = {l}
        BY <2>8, <3>4, <3>5 DEF LooksThatAre
      <3>8. StaysPublished'
        BY <3>7, FS_Singleton DEF StaysPublished
      <3>9. LookInv'
        <4>1. \A e \in Open' : desk'[e].at = "save" /\ desk'[e].on = l => l \in mixed'
          BY <2>5, <2>7 DEF Open
        <4> QED
          BY <2>6, <2>7, <3>7, <3>8, <4>1 DEF LookInv, Published
      <3> QED
        BY <2>1, <2>3, <3>5, <3>6, <3>9, LookDone
    <2>9. CASE ~(LooksThatAre("PUBLISHED") \subseteq {l})
      <3>1. look' = look
        BY <1>4, <2>4, <2>9 DEF Publish
      <3>2. LooksThatAre("PUBLISHED")' = LooksThatAre("PUBLISHED")
        BY <3>1 DEF LooksThatAre
      <3>3. \E m : LooksThatAre("PUBLISHED") = {m}
        BY <2>9 DEF LookInv, Published
      <3>4. StaysPublished'
        BY <3>2, <3>3, FS_Singleton DEF StaysPublished
      <3>5. LookInv'
        BY <2>6, <2>7, <3>2, <3>4 DEF LookInv, Published
      <3>6. ASSUME NEW m \in Looks
            PROVE  look'[m].content <= clock' /\ look'[m].updated <= clock' /\ look'[m].published <= clock'
        <4>1. look[m] \in LookRow /\ look[m].content <= clock /\ look[m].updated <= clock /\ look[m].published <= clock
          BY DEF SetupShapes
        <4>2. look[m].content \in Nat /\ look[m].updated \in Nat /\ look[m].published \in Nat
          BY <4>1 DEF LookRow
        <4> QED
          BY <2>1, <3>1, <4>1, <4>2
      <3>7. look' \in [Looks -> LookRow]
        BY <3>1 DEF SetupShapes
      <3> QED
        BY <2>1, <2>3, <3>5, <3>6, <3>7, LookDone
    <2> QED
      BY <2>8, <2>9
  <1> QED
    BY <1>1, <1>2, <1>3, <1>4

(* The codes of the products.                                                      *)
LEMMA CodeDone ==
  ASSUME SetupInv, subject = "code", UNCHANGED <<subject, clock, look, profile, store, admins>>,
         desk' \in [Desks -> RequestRow], WritesLeft', code' \in [Products -> Codes \cup {Nobody}],
         asked' \in [Products \cup Fields -> Codes \cup {Nobody} \cup Nat], \A f \in Fields : asked'[f] = asked[f],
         CodeInv'
  PROVE  SetupInv'
  <1>1. SetupShapes'
    BY DEF SetupInv, SetupShapes
  <1>2. NoLooks' /\ NoFields' /\ NoStores' /\ subject' # "admin"
    BY DEF SetupInv, NoLooks, NoFields, NoStores
  <1> QED
    BY <1>1, <1>2 DEF SetupInv

LEMMA CodeStep ==
  ASSUME SetupInv, subject = "code", UNCHANGED <<subject, clock, look, profile, store, admins>>, NEW d \in Desks,
         Unmap(d) \/ Map(d) \/ \E p \in Products, c \in Codes \cup {Nobody} : MapRead(d, p, c)
  PROVE  SetupInv'
  <1> CodeInv /\ SetupShapes
    BY DEF SetupInv
  <1> clock' = clock /\ Products \cap Fields = {}
    BY SetupAssumption
  <1>1. ASSUME NEW p \in Products, NEW c \in Codes \cup {Nobody}, MapRead(d, p, c)
        PROVE  SetupInv'
    <2>1. PICK request : request = [NoRequest EXCEPT !.at = "unmap", !.on = p, !.to = c]
      OBVIOUS
    <2>2. request \in RequestRow /\ request.at = "unmap" /\ request.on = p /\ request # NoRequest
      BY <2>1 DEF RequestRow, NoRequest
    <2>3. Take(d, request) /\ mixed' = mixed \cup ({p} \cap Others(d)) /\ UNCHANGED <<code, asked>>
      BY <1>1, <2>1 DEF MapRead
    <2>4. /\ desk' \in [Desks -> RequestRow] /\ desk'[d] = request /\ desk[d] = NoRequest /\ d \notin Open
          /\ \A e \in Desks \ {d} : desk'[e] = desk[e]
          /\ Open' = Open \cup {d} /\ WritesLeft'
      BY <2>2, <2>3, Taken
    <2>5. \A e \in Open : desk'[e] = desk[e] /\ e # d
      BY <2>4 DEF Open
    <2>6. \A e \in Open : desk[e].on = p => p \in mixed'
      <3>1. \A e \in Open : desk[e].on \in Others(d)
        BY <2>4, <2>5 DEF Others, Open
      <3> QED
        BY <2>3, <3>1
    <2>7. \A e, f \in Open' : desk'[e].on = desk'[f].on => e = f \/ desk'[e].on \in mixed'
      BY <2>2, <2>3, <2>4, <2>5, <2>6 DEF CodeInv
    <2>8. CodeKept'
      <3>1. \A e \in Desks : desk[e].at = "map" => desk'[e] = desk[e]
        BY <2>4 DEF NoRequest
      <3> QED
        BY <2>3, <3>1 DEF CodeInv, CodeKept, DeskAt
    <2>9. CodeInv'
      BY <2>2, <2>3, <2>4, <2>5, <2>7, <2>8 DEF CodeInv
    <2>10. code' \in [Products -> Codes \cup {Nobody}] /\ asked' \in [Products \cup Fields -> Codes \cup {Nobody} \cup Nat]
      BY <2>3 DEF SetupShapes
    <2> QED
      BY <2>3, <2>4, <2>9, <2>10, CodeDone
  <1>2. CASE Unmap(d)
    <2>1. /\ desk[d].at = "unmap" /\ Proceeds(d, "map") /\ code' = [code EXCEPT ![desk[d].on] = Nobody]
          /\ UNCHANGED <<requests, asked, mixed>>
      BY <1>2 DEF Unmap, DeskAt
    <2>2. d \in Open
      BY <2>1, AtWork
    <2>3. PICK p \in Products : p = desk[d].on
      BY <2>2 DEF CodeInv
    <2>4. /\ desk' \in [Desks -> RequestRow] /\ \A e \in Desks \ {d} : desk'[e] = desk[e]
          /\ desk'[d].at = "map" /\ desk'[d].on = p /\ Open' = Open /\ WritesLeft'
      BY <2>1, <2>2, <2>3, Proceeded
    <2>5. code' \in [Products -> Codes \cup {Nobody}] /\ code'[p] = Nobody /\ \A q \in Products \ {p} : code'[q] = code[q]
      BY <2>1, <2>3 DEF SetupShapes
    <2>6. \A e \in Open : desk'[e].on = desk[e].on /\ desk'[e].at \in {"unmap", "map"} /\ (e # d => desk'[e] = desk[e])
      BY <2>3, <2>4 DEF CodeInv, Open
    <2>7. \A e \in Open' : desk'[e].at = "map" => code'[desk'[e].on] = Nobody \/ desk'[e].on \in mixed'
      <3>1. ASSUME NEW e \in Open, desk'[e].at = "map", desk[e].on \notin mixed
            PROVE  code'[desk[e].on] = Nobody
        <4>1. CASE e = d
          BY <2>3, <2>5, <4>1
        <4>2. CASE e # d
          BY <2>3, <2>5, <2>6, <3>1, <4>2 DEF CodeInv
        <4> QED
          BY <4>1, <4>2
      <3> QED
        BY <2>1, <2>4, <2>6, <3>1
    <2>8. CodeKept'
      <3>1. ASSUME NEW q \in Products \ mixed
            PROVE  code'[q] = asked[q] \/ \E e \in Desks : desk'[e].at = "map" /\ desk'[e].on = q
        <4>1. CASE q = p
          BY <2>4, <4>1
        <4>2. CASE q # p
          BY <2>3, <2>4, <2>5, <3>1, <4>2 DEF CodeInv, CodeKept, DeskAt
        <4> QED
          BY <4>1, <4>2
      <3> QED
        BY <2>1, <3>1 DEF CodeKept, DeskAt
    <2>9. CodeInv'
      BY <2>1, <2>4, <2>6, <2>7, <2>8 DEF CodeInv
    <2>10. asked' \in [Products \cup Fields -> Codes \cup {Nobody} \cup Nat]
      BY <2>1 DEF SetupShapes
    <2> QED
      BY <2>1, <2>4, <2>5, <2>9, <2>10, CodeDone
  <1>3. CASE Map(d)
    <2>1. desk[d].at = "map" /\ Answer(d) /\ requests' = requests
      BY <1>3 DEF Map, DeskAt
    <2>2. d \in Open
      BY <2>1, AtWork
    <2>3. PICK p \in Products, c \in Codes \cup {Nobody} : p = desk[d].on /\ c = desk[d].to
      BY <2>2 DEF CodeInv, SetupShapes, RequestRow
    <2>4. /\ desk' \in [Desks -> RequestRow] /\ \A e \in Desks \ {d} : desk'[e] = desk[e]
          /\ desk'[d] = NoRequest /\ Open' = Open \ {d} /\ WritesLeft'
      BY <2>1, <2>2, Answered
    <2>5. \/ /\ code' = IF c = Nobody THEN code ELSE [code EXCEPT ![p] = c]
             /\ asked' = [asked EXCEPT ![p] = c] /\ mixed' \in {mixed, mixed \cup {p}}
          \/ UNCHANGED <<code, asked>> /\ mixed' = mixed \cup {p}
      BY <1>3, <2>3 DEF Map
    <2>6. /\ code' \in [Products -> Codes \cup {Nobody}] /\ \A q \in Products \ {p} : code'[q] = code[q] /\ asked'[q] = asked[q]
          /\ asked' \in [Products \cup Fields -> Codes \cup {Nobody} \cup Nat] /\ \A f \in Fields : asked'[f] = asked[f]
      BY <2>5 DEF SetupShapes
    <2>7. p \in mixed' \/ code'[p] = asked'[p]
      <3>1. p \in mixed \/ code[p] = Nobody
        BY <2>1, <2>2, <2>3 DEF CodeInv
      <3> QED
        BY <2>5, <3>1 DEF SetupShapes
    <2>8. mixed \subseteq mixed' /\ mixed' \subseteq mixed \cup {p}
      BY <2>5
    <2>9. \A e \in Open' : e \in Open /\ desk'[e] = desk[e] /\ (desk[e].on = p => p \in mixed)
      BY <2>2, <2>3, <2>4 DEF Open, CodeInv
    <2>10. CodeKept'
      <3>1. ASSUME NEW q \in Products, q \notin mixed'
            PROVE  code'[q] = asked'[q] \/ \E e \in Desks : desk'[e].at = "map" /\ desk'[e].on = q
        <4>1. CASE q = p
          BY <2>7, <3>1, <4>1
        <4>2. CASE q # p
          <5>1. code[q] = asked[q] \/ \E e \in Desks : desk[e].at = "map" /\ desk[e].on = q
            BY <2>8, <3>1 DEF CodeInv, CodeKept, DeskAt
          <5> QED
            BY <2>3, <2>4, <2>6, <4>2, <5>1
        <4> QED
          BY <4>1, <4>2
      <3> QED
        BY <3>1 DEF CodeKept, DeskAt
    <2>11. \A e \in Open' : desk'[e].at = "map" => code'[desk'[e].on] = Nobody \/ desk'[e].on \in mixed'
      BY <2>6, <2>8, <2>9 DEF CodeInv
    <2>12. CodeInv'
      <3>1. mixed' \subseteq Products
        BY <2>8 DEF CodeInv
      <3>2. \A e \in Open' : desk'[e].at \in {"unmap", "map"} /\ desk'[e].on \in Products
        BY <2>9 DEF CodeInv
      <3>3. \A e, f \in Open' : desk'[e].on = desk'[f].on => e = f \/ desk'[e].on \in mixed'
        BY <2>8, <2>9 DEF CodeInv
      <3> QED
        BY <2>10, <2>11, <3>1, <3>2, <3>3 DEF CodeInv
    <2> QED
      BY <2>4, <2>6, <2>12, CodeDone
  <1> QED
    BY <1>1, <1>2, <1>3

(* Address and links.                                                              *)
LEMMA ProfileStep ==
  ASSUME SetupInv, subject = "profile", UNCHANGED <<subject, look, code, store, admins>>, NEW d \in Desks,
         ProfileWrite(d) \/ \E f \in Fields : ProfileRead(d, f)
  PROVE  SetupInv'
  <1> ProfileInv /\ SetupShapes /\ clock \in Nat
    BY DEF SetupInv, WritesLeft
  <1> Products \cap Fields = {}
    BY SetupAssumption
  <1>1. ASSUME clock' \in {clock, clock + 1}, desk' \in [Desks -> RequestRow], WritesLeft', profile' \in [Fields -> 0..clock'],
               asked' \in [Products \cup Fields -> Codes \cup {Nobody} \cup Nat], \A p \in Products : asked'[p] = asked[p],
               ProfileInv'
        PROVE  SetupInv'
    <2>1. ASSUME NEW l \in Looks
          PROVE  look'[l].content <= clock' /\ look'[l].updated <= clock' /\ look'[l].published <= clock'
      <3>1. look[l] \in LookRow /\ look[l].content <= clock /\ look[l].updated <= clock /\ look[l].published <= clock
        BY DEF SetupShapes
      <3>2. look[l].content \in Nat /\ look[l].updated \in Nat /\ look[l].published \in Nat
        BY <3>1 DEF LookRow
      <3> QED
        BY <1>1, <3>1, <3>2
    <2>2. SetupShapes'
      BY <1>1, <2>1 DEF SetupShapes
    <2>3. NoLooks' /\ NoCodes' /\ NoStores' /\ subject' # "admin"
      BY <1>1 DEF SetupInv, NoLooks, NoCodes, NoStores
    <2> QED
      BY <1>1, <2>2, <2>3 DEF SetupInv
  <1>2. ASSUME NEW f \in Fields, ProfileRead(d, f)
        PROVE  SetupInv'
    <2>1. PICK request : request = [NoRequest EXCEPT !.at = "profile", !.on = f, !.saw = profile]
      OBVIOUS
    <2>2. profile \in [Fields -> 0..clock] /\ profile \in [Fields -> Nat]
      BY DEF SetupShapes
    <2>3. request \in RequestRow /\ request.at = "profile" /\ request.on = f /\ request.saw = profile /\ request # NoRequest
      BY <2>1, <2>2 DEF RequestRow, NoRequest
    <2>4. Take(d, request) /\ mixed' = mixed \cup (IF Others(d) # {} THEN Fields ELSE {}) /\ UNCHANGED <<clock, profile, asked>>
      BY <1>2, <2>1 DEF ProfileRead
    <2>5. /\ desk' \in [Desks -> RequestRow] /\ desk'[d] = request /\ desk[d] = NoRequest /\ d \notin Open
          /\ \A e \in Desks \ {d} : desk'[e] = desk[e]
          /\ Open' = Open \cup {d} /\ WritesLeft'
      BY <2>3, <2>4, Taken
    <2>6. \A e \in Open : desk'[e] = desk[e] /\ e # d
      BY <2>5 DEF Open
    <2>7. mixed' = {} => mixed = {} /\ Open = {}
      <3>1. \A e \in Open : desk[e].on \in Others(d)
        BY <2>6 DEF Others, Open
      <3> QED
        BY <2>4, <3>1
    <2>8. ProfileInv'
      <3>1. mixed' \subseteq Fields /\ ProfileKept'
        BY <2>4, <2>7 DEF ProfileInv, ProfileKept
      <3>2. \A e \in Open' : desk'[e].at = "profile" /\ desk'[e].on \in Fields /\ desk'[e].saw \in [Fields -> 0..clock']
        BY <2>2, <2>3, <2>4, <2>5, <2>6 DEF ProfileInv
      <3>3. mixed' = {} => \A e, g \in Open' : e = g /\ desk'[e].saw = profile'
        BY <2>3, <2>4, <2>5, <2>7
      <3> QED
        BY <3>1, <3>2, <3>3 DEF ProfileInv
    <2>9. /\ profile' \in [Fields -> 0..clock'] /\ clock' \in {clock, clock + 1}
          /\ asked' \in [Products \cup Fields -> Codes \cup {Nobody} \cup Nat]
      BY <2>4 DEF SetupShapes
    <2> QED
      BY <1>1, <2>4, <2>5, <2>8, <2>9
  <1>3. CASE ProfileWrite(d)
    <2>1. desk[d].at = "profile" /\ Answer(d) /\ clock' = clock + 1 /\ requests' = requests /\ mixed' = mixed
      BY <1>3 DEF ProfileWrite, DeskAt, Ticks
    <2>2. d \in Open
      BY <2>1, AtWork
    <2>3. PICK f \in Fields, saw \in [Fields -> 0..clock] : f = desk[d].on /\ saw = desk[d].saw
      BY <2>2 DEF ProfileInv
    <2>4. /\ desk' \in [Desks -> RequestRow] /\ \A e \in Desks \ {d} : desk'[e] = desk[e]
          /\ desk'[d] = NoRequest /\ Open' = Open \ {d} /\ WritesLeft'
      BY <2>1, <2>2, Answered
    <2>5. profile' = [saw EXCEPT ![f] = clock'] /\ asked' = [asked EXCEPT ![f] = clock']
      BY <1>3, <2>3 DEF ProfileWrite, MergeStoreProfile
    <2>6. clock' \in Nat /\ clock' \in 0..clock' /\ 0..clock \subseteq 0..clock'
      BY <2>1
    <2>7. /\ profile' \in [Fields -> 0..clock'] /\ profile'[f] = clock' /\ asked'[f] = clock'
          /\ \A g \in Fields \ {f} : profile'[g] = saw[g] /\ asked'[g] = asked[g]
          /\ asked' \in [Products \cup Fields -> Codes \cup {Nobody} \cup Nat] /\ \A p \in Products : asked'[p] = asked[p]
      BY <2>5, <2>6 DEF SetupShapes
    <2>8. \A e \in Open' : e \in Open /\ e # d /\ desk'[e] = desk[e]
      BY <2>4 DEF Open
    <2>9. mixed = {} => saw = profile /\ Open' = {}
      BY <2>2, <2>3, <2>8 DEF ProfileInv
    <2>10. ProfileInv'
      <3>1. ProfileKept'
        BY <2>1, <2>7, <2>9 DEF ProfileInv, ProfileKept
      <3>2. \A e \in Open' : desk'[e].at = "profile" /\ desk'[e].on \in Fields /\ desk'[e].saw \in [Fields -> 0..clock']
        BY <2>6, <2>8 DEF ProfileInv
      <3> QED
        BY <2>1, <2>9, <3>1, <3>2 DEF ProfileInv
    <2> QED
      BY <1>1, <2>1, <2>4, <2>7, <2>10
  <1> QED
    BY <1>2, <1>3

(* A store and its owner.                                                          *)
LEMMA StoreDone ==
  ASSUME SetupInv, subject = "store", UNCHANGED <<subject, clock, look, code, profile, admins, asked>>,
         desk' \in [Desks -> RequestRow], WritesLeft', store' \in [Stores -> {"none", "alone", "owned"}], StoreInv'
  PROVE  SetupInv'
  <1>1. SetupShapes'
    BY DEF SetupInv, SetupShapes
  <1>2. NoLooks' /\ NoCodes' /\ NoFields' /\ subject' # "admin"
    BY DEF SetupInv, NoLooks, NoCodes, NoFields
  <1> QED
    BY <1>1, <1>2 DEF SetupInv

LEMMA StoreStep ==
  ASSUME SetupInv, subject = "store", UNCHANGED <<subject, clock, look, code, profile, admins, asked>>, NEW d \in Desks,
         CreateTenant(d) \/ CreateOwner(d) \/ \E s \in Stores : CreateRead(d, s)
  PROVE  SetupInv'
  <1> StoreInv /\ SetupShapes /\ clock' = clock
    BY DEF SetupInv
  <1>1. ASSUME NEW s \in Stores, CreateRead(d, s)
        PROVE  SetupInv'
    <2>1. PICK request : request = [NoRequest EXCEPT !.at = "create", !.on = s]
      OBVIOUS
    <2>2. request \in RequestRow /\ request.at = "create" /\ request.on = s /\ request # NoRequest
      BY <2>1 DEF RequestRow, NoRequest
    <2>3. /\ Take(d, request) /\ mixed' = mixed \cup (IF Others(d) # {} THEN Stores ELSE {}) /\ store' = store
          /\ \A q \in Stores : store[q] # "owned"
      BY <1>1, <2>1 DEF CreateRead, AssertOwnerEmailAvailable
    <2>4. /\ desk' \in [Desks -> RequestRow] /\ desk'[d] = request /\ desk[d] = NoRequest /\ d \notin Open
          /\ \A e \in Desks \ {d} : desk'[e] = desk[e]
          /\ Open' = Open \cup {d} /\ WritesLeft'
      BY <2>2, <2>3, Taken
    <2>5. \A e \in Open : desk'[e] = desk[e] /\ e # d
      BY <2>4 DEF Open
    <2>6. Open # {} => Stores \subseteq mixed'
      <3>1. \A e \in Open : desk[e].on \in Others(d)
        BY <2>5 DEF Others, Open
      <3> QED
        BY <2>3, <3>1
    <2>7. StoreInv'
      <3>1. mixed' \subseteq Stores /\ mixed \subseteq mixed'
        BY <2>3 DEF StoreInv
      <3>2. \A e \in Open' : desk'[e].at \in {"create", "owner"} /\ desk'[e].on \in Stores
        BY <2>2, <2>4, <2>5 DEF StoreInv
      <3>3. \A e, f \in Open' : e = f \/ Stores \subseteq mixed'
        BY <2>4, <2>6
      <3>4. \A e \in Open' : desk'[e].on \in mixed' \/ \A q \in Stores : store'[q] # "owned"
        BY <2>3
      <3>5. StoreHasOwner'
        <4>1. \A e \in Desks : desk[e].at = "owner" => desk'[e] = desk[e]
          BY <2>4 DEF NoRequest
        <4> QED
          BY <2>3, <3>1, <4>1 DEF StoreInv, StoreHasOwner, DeskAt
      <3> QED
        BY <3>1, <3>2, <3>3, <3>4, <3>5 DEF StoreInv
    <2>8. store' \in [Stores -> {"none", "alone", "owned"}]
      BY <2>3 DEF SetupShapes
    <2> QED
      BY <2>4, <2>7, <2>8, StoreDone
  <1>2. CASE CreateTenant(d)
    <2>1. desk[d].at = "create" /\ UNCHANGED <<requests, mixed>>
      BY <1>2 DEF CreateTenant, DeskAt
    <2>2. d \in Open
      BY <2>1, AtWork
    <2>3. PICK s \in Stores : s = desk[d].on
      BY <2>2 DEF StoreInv
    <2>4. CASE store[s] = "none"
      <3>1. store' = [store EXCEPT ![s] = "alone"] /\ Proceeds(d, "owner")
        BY <1>2, <2>3, <2>4 DEF CreateTenant
      <3>2. /\ desk' \in [Desks -> RequestRow] /\ \A e \in Desks \ {d} : desk'[e] = desk[e]
            /\ desk'[d].at = "owner" /\ desk'[d].on = s /\ Open' = Open /\ WritesLeft'
        BY <2>1, <2>2, <2>3, <3>1, Proceeded
      <3>3. /\ store' \in [Stores -> {"none", "alone", "owned"}] /\ store'[s] = "alone"
            /\ \A q \in Stores \ {s} : store'[q] = store[q]
        BY <3>1 DEF SetupShapes
      <3>4. \A e \in Open : desk'[e].on = desk[e].on /\ desk'[e].at \in {"create", "owner"}
        BY <2>3, <3>2 DEF StoreInv, Open
      <3>5. StoreHasOwner'
        <4>1. ASSUME NEW q \in Stores \ mixed, store'[q] = "alone"
              PROVE  \E e \in Desks : desk'[e].at = "owner" /\ desk'[e].on = q
          <5>1. CASE q = s
            BY <3>2, <5>1
          <5>2. CASE q # s
            BY <2>1, <2>3, <3>2, <3>3, <4>1, <5>2 DEF StoreInv, StoreHasOwner, DeskAt
          <5> QED
            BY <5>1, <5>2
        <4> QED
          BY <2>1, <4>1 DEF StoreHasOwner, DeskAt
      <3>6. StoreInv'
        <4>1. \A q \in Stores : store'[q] = "owned" => store[q] = "owned"
          BY <3>3
        <4>2. \A e \in Open' : desk'[e].on \in mixed' \/ \A q \in Stores : store'[q] # "owned"
          BY <2>1, <3>2, <3>4, <4>1 DEF StoreInv
        <4> QED
          BY <2>1, <3>2, <3>4, <3>5, <4>2 DEF StoreInv
      <3> QED
        BY <3>2, <3>3, <3>6, StoreDone
    <2>5. CASE store[s] # "none"
      <3>1. store' = store /\ Answer(d)
        BY <1>2, <2>3, <2>5 DEF CreateTenant
      <3>2. /\ desk' \in [Desks -> RequestRow] /\ \A e \in Desks \ {d} : desk'[e] = desk[e]
            /\ desk'[d] = NoRequest /\ Open' = Open \ {d} /\ WritesLeft'
        BY <2>1, <2>2, <3>1, Answered
      <3>3. \A e \in Open' : e \in Open /\ desk'[e] = desk[e]
        BY <3>2 DEF Open
      <3>4. StoreHasOwner'
        <4>1. \A e \in Desks : desk[e].at = "owner" => desk'[e] = desk[e]
          BY <2>1, <3>2
        <4> QED
          BY <2>1, <3>1, <4>1 DEF StoreInv, StoreHasOwner, DeskAt
      <3>5. StoreInv'
        BY <2>1, <3>1, <3>3, <3>4 DEF StoreInv
      <3>6. store' \in [Stores -> {"none", "alone", "owned"}]
        BY <3>1 DEF SetupShapes
      <3> QED
        BY <3>2, <3>5, <3>6, StoreDone
    <2> QED
      BY <2>4, <2>5
  <1>3. CASE CreateOwner(d)
    <2>1. desk[d].at = "owner" /\ Answer(d) /\ UNCHANGED <<requests, mixed>>
      BY <1>3 DEF CreateOwner, DeskAt
    <2>2. d \in Open
      BY <2>1, AtWork
    <2>3. PICK s \in Stores : s = desk[d].on
      BY <2>2 DEF StoreInv
    <2>4. /\ desk' \in [Desks -> RequestRow] /\ \A e \in Desks \ {d} : desk'[e] = desk[e]
          /\ desk'[d] = NoRequest /\ Open' = Open \ {d} /\ WritesLeft'
      BY <2>1, <2>2, Answered
    <2>5. store' = IF \A q \in Stores : store[q] # "owned" THEN [store EXCEPT ![s] = "owned"] ELSE store
      BY <1>3, <2>3 DEF CreateOwner
    <2>6. /\ store' \in [Stores -> {"none", "alone", "owned"}] /\ \A q \in Stores \ {s} : store'[q] = store[q]
          /\ (\A q \in Stores : store[q] # "owned") => store'[s] = "owned"
      BY <2>5 DEF SetupShapes
    <2>7. \A e \in Open' : e \in Open /\ desk'[e] = desk[e] /\ Stores \subseteq mixed
      BY <2>2, <2>4 DEF StoreInv, Open
    <2>8. StoreHasOwner'
      <3>1. ASSUME NEW q \in Stores \ mixed, store'[q] = "alone"
            PROVE  \E e \in Desks : desk'[e].at = "owner" /\ desk'[e].on = q
        <4>1. q # s
          BY <2>2, <2>3, <2>6, <3>1 DEF StoreInv
        <4>2. PICK e \in Desks : desk[e].at = "owner" /\ desk[e].on = q
          BY <2>6, <3>1, <4>1 DEF StoreInv, StoreHasOwner, DeskAt
        <4> QED
          BY <2>3, <2>4, <4>1, <4>2
      <3> QED
        BY <2>1, <3>1 DEF StoreHasOwner, DeskAt
    <2>9. StoreInv'
      BY <2>1, <2>7, <2>8 DEF StoreInv
    <2> QED
      BY <2>4, <2>6, <2>9, StoreDone
  <1> QED
    BY <1>1, <1>2, <1>3

(* The administrators of the platform.                                             *)
LEMMA AdminDone ==
  ASSUME SetupInv, subject = "admin", UNCHANGED <<subject, clock, look, code, profile, store, asked>>,
         desk' \in [Desks -> RequestRow], WritesLeft', admins' \subseteq Admins, AdminInv'
  PROVE  SetupInv'
  <1>1. SetupShapes'
    BY DEF SetupInv, SetupShapes
  <1>2. NoLooks' /\ NoCodes' /\ NoFields' /\ NoStores'
    BY DEF SetupInv, NoLooks, NoCodes, NoFields, NoStores
  <1> QED
    BY <1>1, <1>2 DEF SetupInv

LEMMA AdminStep ==
  ASSUME SetupInv, subject = "admin", UNCHANGED <<subject, clock, look, code, profile, store, asked>>, NEW d \in Desks,
         LowerAdmin(d) \/ \E a \in Admins : CountAdmins(d, a) \/ RaiseAdmin(d, a)
  PROVE  SetupInv'
  <1> AdminInv /\ SetupShapes /\ clock' = clock
    BY DEF SetupInv
  <1>1. ASSUME NEW a \in Admins, CountAdmins(d, a)
        PROVE  SetupInv'
    <2>1. PICK request : request = [NoRequest EXCEPT !.at = "lower", !.on = a]
      OBVIOUS
    <2>2. request \in RequestRow /\ request.at = "lower" /\ request.on = a /\ request # NoRequest
      BY <2>1 DEF RequestRow, NoRequest
    <2>3. /\ Take(d, request) /\ mixed' = mixed \cup (IF Others(d) # {} THEN Admins ELSE {}) /\ admins' = admins
          /\ a \in admins => Cardinality(admins \ {a}) > 0
      BY <1>1, <2>1 DEF CountAdmins
    <2>4. /\ desk' \in [Desks -> RequestRow] /\ desk'[d] = request /\ desk[d] = NoRequest /\ d \notin Open
          /\ \A e \in Desks \ {d} : desk'[e] = desk[e]
          /\ Open' = Open \cup {d} /\ WritesLeft'
      BY <2>2, <2>3, Taken
    <2>5. \A e \in Open : desk'[e] = desk[e] /\ e # d
      BY <2>4 DEF Open
    <2>6. mixed' = {} => mixed = {} /\ Open = {}
      <3>1. \A e \in Open : desk[e].on \in Others(d)
        BY <2>5 DEF Others, Open
      <3> QED
        BY <2>3, <3>1, SetupAssumption
    <2>7. mixed = {} => admins \ {a} # {}
      <3>1. a \in admins => admins \ {a} # {}
        BY <2>3, FS_EmptySet
      <3>2. mixed = {} => admins # {}
        BY DEF AdminInv, AdminRemains
      <3> QED
        BY <3>1, <3>2
    <2>8. AdminInv'
      <3>1. mixed' \subseteq Admins /\ AdminRemains'
        BY <2>3, <2>6 DEF AdminInv, AdminRemains
      <3>2. \A e \in Open' : desk'[e].at = "lower"
        BY <2>2, <2>4, <2>5 DEF AdminInv
      <3>3. mixed' = {} => \A e, f \in Open' : e = f /\ admins' \ {desk'[e].on} # {}
        BY <2>2, <2>3, <2>4, <2>6, <2>7
      <3> QED
        BY <3>1, <3>2, <3>3 DEF AdminInv
    <2>9. admins' \subseteq Admins
      BY <2>3 DEF SetupShapes
    <2> QED
      BY <2>4, <2>8, <2>9, AdminDone
  <1>2. ASSUME NEW a \in Admins, RaiseAdmin(d, a)
        PROVE  SetupInv'
    <2>1. Take(d, NoRequest) /\ admins' = admins \cup {a} /\ mixed' = mixed
      BY <1>2 DEF RaiseAdmin
    <2>2. NoRequest \in RequestRow
      BY DEF NoRequest, RequestRow
    <2>3. /\ desk' \in [Desks -> RequestRow] /\ desk'[d] = NoRequest /\ desk[d] = NoRequest
          /\ \A e \in Desks \ {d} : desk'[e] = desk[e]
          /\ Open' = Open /\ WritesLeft'
      BY <2>1, <2>2, Taken
    <2>4. \A e \in Open : desk'[e] = desk[e]
      BY <2>3 DEF Open
    <2>5. AdminInv'
      <3>1. AdminRemains'
        BY <2>1 DEF AdminRemains
      <3>2. mixed' = {} => \A e, f \in Open' : e = f /\ admins' \ {desk'[e].on} # {}
        BY <2>1, <2>3, <2>4 DEF AdminInv
      <3> QED
        BY <2>1, <2>3, <2>4, <3>1, <3>2 DEF AdminInv
    <2>6. admins' \subseteq Admins
      BY <2>1 DEF SetupShapes
    <2> QED
      BY <2>3, <2>5, <2>6, AdminDone
  <1>3. CASE LowerAdmin(d)
    <2>1. desk[d].at = "lower" /\ Answer(d) /\ admins' = admins \ {desk[d].on} /\ UNCHANGED <<requests, mixed>>
      BY <1>3 DEF LowerAdmin, DeskAt
    <2>2. d \in Open
      BY <2>1, AtWork
    <2>3. /\ desk' \in [Desks -> RequestRow] /\ \A e \in Desks \ {d} : desk'[e] = desk[e]
          /\ Open' = Open \ {d} /\ WritesLeft'
      BY <2>1, <2>2, Answered
    <2>4. \A e \in Open' : e \in Open /\ e # d /\ desk'[e] = desk[e]
      BY <2>3 DEF Open
    <2>5. AdminInv'
      <3>1. AdminRemains'
        BY <2>1, <2>2 DEF AdminInv, AdminRemains
      <3>2. mixed' = {} => Open' = {}
        BY <2>1, <2>2, <2>4 DEF AdminInv
      <3> QED
        BY <2>1, <2>4, <3>1, <3>2 DEF AdminInv
    <2>6. admins' \subseteq Admins
      BY <2>1 DEF SetupShapes
    <2> QED
      BY <2>3, <2>5, <2>6, AdminDone
  <1> QED
    BY <1>1, <1>2, <1>3

(* A request is cut: what it leaves half done is mixed.                            *)
LEMMA CutStep ==
  ASSUME SetupInv, subject' = subject, NEW d \in Desks, Cut(d)
  PROVE  SetupInv'
  <1> SetupShapes
    BY DEF SetupInv
  <1>1. /\ d \in Open /\ Answer(d) /\ UNCHANGED <<requests, clock, look, code, profile, store, admins, asked>>
    BY DEF Cut, Open
  <1>2. /\ desk' \in [Desks -> RequestRow] /\ \A e \in Desks \ {d} : desk'[e] = desk[e]
        /\ desk'[d] = NoRequest /\ Open' = Open \ {d} /\ WritesLeft'
    BY <1>1, Answered
  <1>3. \A e \in Open' : e \in Open /\ e # d /\ desk'[e] = desk[e]
    BY <1>2 DEF Open
  <1>4. CASE subject = "look"
    <2>1. LookInv /\ mixed' = mixed \cup (IF desk[d].at = "publish" THEN Looks ELSE {})
      BY <1>4 DEF Cut, DeskAt, SetupInv
    <2>2. LooksThatAre("PUBLISHED")' = LooksThatAre("PUBLISHED")
      BY <1>1 DEF LooksThatAre
    <2>3. StaysPublished'
      <3>1. CASE desk[d].at = "publish"
        <4>1. mixed' = Looks
          BY <2>1, <3>1 DEF LookInv
        <4> QED
          BY <1>1, <4>1 DEF StaysPublished
      <3>2. CASE desk[d].at # "publish"
        BY <1>1, <1>2, <2>1, <2>2, <3>2 DEF LookInv, StaysPublished, DeskAt
      <3> QED
        BY <3>1, <3>2
    <2>4. mixed \subseteq mixed' /\ mixed' \subseteq Looks
      BY <2>1 DEF LookInv
    <2>5. LookInv'
      BY <1>3, <2>1, <2>2, <2>3, <2>4 DEF LookInv, Published
    <2>6. /\ look' \in [Looks -> LookRow] /\ clock' \in {clock, clock + 1}
          /\ \A l \in Looks : look'[l].content <= clock' /\ look'[l].updated <= clock' /\ look'[l].published <= clock'
      BY <1>1 DEF SetupShapes
    <2> QED
      BY <1>1, <1>2, <1>4, <2>5, <2>6, LookDone
  <1>5. CASE subject = "code"
    <2>1. CodeInv /\ mixed' = mixed \cup (IF desk[d].at = "map" THEN {desk[d].on} ELSE {})
      BY <1>5 DEF Cut, DeskAt, SetupInv
    <2>2. mixed \subseteq mixed' /\ mixed' \subseteq Products
      BY <1>1, <2>1 DEF CodeInv
    <2>3. CodeKept'
      <3>1. ASSUME NEW q \in Products \ mixed'
            PROVE  code[q] = asked[q] \/ \E e \in Desks : desk'[e].at = "map" /\ desk'[e].on = q
        <4>1. code[q] = asked[q] \/ \E e \in Desks : desk[e].at = "map" /\ desk[e].on = q
          BY <2>1, <2>2, <3>1 DEF CodeInv, CodeKept, DeskAt
        <4>2. \A e \in Desks : desk[e].at = "map" /\ desk[e].on = q => e # d
          BY <2>1, <3>1
        <4> QED
          BY <1>2, <4>1, <4>2
      <3> QED
        BY <1>1, <3>1 DEF CodeKept, DeskAt
    <2>4. CodeInv'
      BY <1>1, <1>3, <2>1, <2>2, <2>3 DEF CodeInv
    <2>5. /\ code' \in [Products -> Codes \cup {Nobody}]
          /\ asked' \in [Products \cup Fields -> Codes \cup {Nobody} \cup Nat]
      BY <1>1 DEF SetupShapes
    <2> QED
      BY <1>1, <1>2, <1>5, <2>4, <2>5, CodeDone
  <1>6. CASE subject = "store"
    <2>1. StoreInv /\ mixed' = mixed \cup (IF desk[d].at = "owner" THEN {desk[d].on} ELSE {})
      BY <1>6 DEF Cut, DeskAt, SetupInv
    <2>2. mixed \subseteq mixed' /\ mixed' \subseteq Stores
      BY <1>1, <2>1 DEF StoreInv
    <2>3. StoreHasOwner'
      <3>1. ASSUME NEW q \in Stores \ mixed', store[q] = "alone"
            PROVE  \E e \in Desks : desk'[e].at = "owner" /\ desk'[e].on = q
        <4>1. PICK e \in Desks : desk[e].at = "owner" /\ desk[e].on = q
          BY <2>1, <2>2, <3>1 DEF StoreInv, StoreHasOwner, DeskAt
        <4>2. e # d
          BY <2>1, <3>1, <4>1
        <4> QED
          BY <1>2, <4>1, <4>2
      <3> QED
        BY <1>1, <3>1 DEF StoreHasOwner, DeskAt
    <2>4. StoreInv'
      BY <1>1, <1>3, <2>1, <2>2, <2>3 DEF StoreInv
    <2>5. store' \in [Stores -> {"none", "alone", "owned"}]
      BY <1>1 DEF SetupShapes
    <2> QED
      BY <1>1, <1>2, <1>6, <2>4, <2>5, StoreDone
  <1>7. CASE subject \in {"profile", "admin"}
    <2>1. mixed' = mixed
      BY <1>7 DEF Cut
    <2>2. SetupShapes'
      BY <1>1, <1>2 DEF SetupShapes
    <2>3. NoLooks' /\ NoCodes' /\ NoStores' /\ (NoFields => NoFields')
      BY <1>1, <1>7 DEF SetupInv, NoLooks, NoCodes, NoStores, NoFields
    <2>4. ProfileInv => ProfileInv'
      BY <1>1, <1>3, <2>1 DEF ProfileInv, ProfileKept
    <2>5. AdminInv => AdminInv'
      BY <1>1, <1>3, <2>1 DEF AdminInv, AdminRemains
    <2> QED
      BY <1>2, <1>7, <2>2, <2>3, <2>4, <2>5 DEF SetupInv
  <1> QED
    BY <1>4, <1>5, <1>6, <1>7 DEF SetupShapes, Subjects

LEMMA SetupStep ==
  ASSUME SetupInv, [SetupNext]_setupVars
  PROVE  SetupInv'
  <1>1. CASE SetupNext
    <2>1. subject' = subject
      BY <1>1 DEF SetupNext
    <2>2. CASE /\ subject = "look" /\ UNCHANGED <<code, profile, store, admins, asked>>
               /\ \E d \in Desks : \/ SaveRead(d) \/ SaveWrite(d) \/ PublishRead(d) \/ RestoreRead(d)
                                   \/ Archive(d) \/ Publish(d)
      BY <2>1, <2>2, LookStep
    <2>3. CASE /\ subject = "code" /\ UNCHANGED <<clock, look, profile, store, admins>>
               /\ \E d \in Desks : \/ Unmap(d) \/ Map(d)
                                   \/ \E p \in Products, c \in Codes \cup {Nobody} : MapRead(d, p, c)
      BY <2>1, <2>3, CodeStep
    <2>4. CASE /\ subject = "profile" /\ UNCHANGED <<look, code, store, admins>>
               /\ \E d \in Desks : ProfileWrite(d) \/ \E f \in Fields : ProfileRead(d, f)
      BY <2>1, <2>4, ProfileStep
    <2>5. CASE /\ subject = "store" /\ UNCHANGED <<clock, look, code, profile, admins, asked>>
               /\ \E d \in Desks : CreateTenant(d) \/ CreateOwner(d) \/ \E s \in Stores : CreateRead(d, s)
      BY <2>1, <2>5, StoreStep
    <2>6. CASE /\ subject = "admin" /\ UNCHANGED <<clock, look, code, profile, store, asked>>
               /\ \E d \in Desks : LowerAdmin(d) \/ \E a \in Admins : CountAdmins(d, a) \/ RaiseAdmin(d, a)
      BY <2>1, <2>6, AdminStep
    <2>7. CASE \E d \in Desks : Cut(d)
      BY <2>1, <2>7, CutStep
    <2> QED
      BY <1>1, <2>2, <2>3, <2>4, <2>5, <2>6, <2>7 DEF SetupNext
  <1>2. CASE UNCHANGED setupVars
    <2>1. UNCHANGED <<subject, desk, requests, clock, look, code, profile, store, admins, asked, mixed>>
      BY <1>2 DEF setupVars
    <2>2. SetupShapes' /\ WritesLeft' /\ Open' = Open
      BY <2>1 DEF SetupInv, SetupShapes, WritesLeft, Open, Early
    <2>3. LookInv => LookInv'
      BY <2>1, <2>2 DEF LookInv, Published, StaysPublished, LooksThatAre, DeskAt
    <2>4. (CodeInv => CodeInv') /\ (StoreInv => StoreInv')
      BY <2>1, <2>2 DEF CodeInv, CodeKept, StoreInv, StoreHasOwner, DeskAt
    <2>5. (ProfileInv => ProfileInv') /\ (AdminInv => AdminInv')
      BY <2>1, <2>2 DEF ProfileInv, ProfileKept, AdminInv, AdminRemains
    <2>6. (NoLooks => NoLooks') /\ (NoCodes => NoCodes') /\ (NoFields => NoFields') /\ (NoStores => NoStores')
      BY <2>1 DEF NoLooks, NoCodes, NoFields, NoStores
    <2> QED
      BY <2>1, <2>2, <2>3, <2>4, <2>5, <2>6 DEF SetupInv
  <1> QED
    BY <1>1, <1>2

LEMMA SetupIsSafe ==
  ASSUME SetupInv
  PROVE  SetupSafe
  <1> SetupShapes /\ WritesLeft
    BY DEF SetupInv
  <1>1. clock \in 0..2 * Requests
    <2>1. IsFiniteSet(Open) /\ IsFiniteSet(Early)
      BY OpenFinite
    <2>2. Cardinality(Open) \in Nat /\ Cardinality(Early) \in Nat
      BY <2>1, FS_CardinalityType
    <2>3. clock \in Nat /\ clock + Cardinality(Open) + Cardinality(Early) <= 2 * requests /\ requests \in 0..Requests
      BY DEF WritesLeft
    <2> QED
      BY <2>2, <2>3, SetupAssumption
  <1>2. SetupTypeOK
    <2>1. \A l \in Looks : /\ look[l].status \in {"none", "DRAFT", "PUBLISHED", "ARCHIVED"}
                           /\ look[l].content \in 0..clock
      <3>1. ASSUME NEW l \in Looks
            PROVE  look[l].status \in {"none", "DRAFT", "PUBLISHED", "ARCHIVED"} /\ look[l].content \in 0..clock
        <4>1. look[l] \in LookRow /\ look[l].content <= clock /\ clock \in Nat
          BY DEF SetupShapes, WritesLeft
        <4> QED
          BY <4>1 DEF LookRow
      <3> QED
        BY <3>1
    <2>2. \A d \in Desks : desk[d].at \in {"idle", "save", "archive", "publish", "unmap", "map", "profile", "create", "owner", "lower"}
      BY DEF SetupShapes, RequestRow
    <2> QED
      BY <1>1, <2>1, <2>2 DEF SetupShapes, WritesLeft, SetupTypeOK
  <1>3. StaysPublished
    <2>1. NoLooks => \A l \in Looks : look[l].published = 0
      BY DEF NoLooks, NoLook
    <2> QED
      BY <2>1 DEF SetupInv, LookInv, StaysPublished
  <1>4. CodeKept
    BY DEF SetupInv, CodeInv, NoCodes, CodeKept
  <1>5. ProfileKept
    BY DEF SetupInv, ProfileInv, NoFields, ProfileKept
  <1>6. StoreHasOwner
    BY DEF SetupInv, StoreInv, NoStores, StoreHasOwner
  <1>7. AdminRemains
    BY DEF SetupInv, AdminInv, AdminRemains
  <1> QED
    BY <1>2, <1>3, <1>4, <1>5, <1>6, <1>7 DEF SetupSafe

(* What a store is set up with is what was last asked for: one look is published,  *)
(* a code and a field are the last ones, a store has an owner and the platform an  *)
(* administrator (StoreBrandingService, CatalogService, PlatformStoreService,      *)
(* PlatformUserService), but for what was cut, refused or met another request, for *)
(* any number of requests, looks, products and stores.                             *)
THEOREM SetupCorrect == SetupSpec => []SetupSafe
  <1>1. SetupInit => SetupInv
    BY SetupStart
  <1>2. SetupInv /\ [SetupNext]_setupVars => SetupInv'
    BY SetupStep
  <1>3. SetupInv => SetupSafe
    BY SetupIsSafe
  <1> QED
    BY <1>1, <1>2, <1>3, PTL DEF SetupSpec

(* What is published changes by a publication only: a save writes a draft, or one  *)
(* that was published after the save had read it (StoreBrandingService).           *)
THEOREM DraftsStayApart == SetupSpec => DraftsApart
  <1> DEFINE Apart ==
        \A l \in Looks \ mixed :
          look[l].status = "PUBLISHED" /\ look'[l].status = "PUBLISHED" => look'[l].content = look[l].content
  <1>1. SetupInit => SetupInv
    BY SetupStart
  <1>2. SetupInv /\ [SetupNext]_setupVars => SetupInv'
    BY SetupStep
  <1>3. SetupInv /\ [SetupNext]_setupVars => [Apart]_setupVars
    <2> SUFFICES ASSUME SetupInv, SetupNext PROVE Apart
      OBVIOUS
    <2> look \in [Looks -> LookRow]
      BY DEF SetupInv, SetupShapes
    <2>1. CASE look' = look
      BY <2>1
    <2>2. ASSUME NEW d \in Desks, SaveWrite(d), subject = "look"
          PROVE  Apart
      <3>1. LookInv /\ d \in Open /\ desk[d].at = "save"
        BY <2>2, AtWork DEF SaveWrite, DeskAt, SetupInv
      <3>2. CASE desk[d].on # Nobody
        <4>1. PICK l \in Looks : l = desk[d].on
          BY <3>1, <3>2 DEF LookInv
        <4>2. look' = [look EXCEPT ![l].content = clock', ![l].updated = clock']
          BY <2>2, <3>2, <4>1 DEF SaveWrite
        <4>3. \A m \in Looks \ {l} : look'[m] = look[m]
          BY <4>2
        <4>4. look[l].status = "PUBLISHED" => l \in mixed
          BY <3>1, <4>1 DEF LookInv, Published, LooksThatAre
        <4> QED
          BY <4>3, <4>4
      <3>3. CASE desk[d].on = Nobody
        <4>1. PICK l \in LooksThatAre("none") :
                look' = [look EXCEPT ![l] = [NoLook EXCEPT !.status = "DRAFT", !.content = clock', !.updated = clock']]
          BY <2>2, <3>3 DEF SaveWrite
        <4>2. look[l].status = "none" /\ \A m \in Looks \ {l} : look'[m] = look[m]
          BY <4>1 DEF LooksThatAre
        <4> QED
          BY <4>2
      <3> QED
        BY <3>2, <3>3
    <2>3. ASSUME NEW d \in Desks, Archive(d)
          PROVE  Apart
      <3>1. look' = [l \in Looks |-> IF look[l].status = "PUBLISHED"
                                     THEN [look[l] EXCEPT !.status = "ARCHIVED", !.updated = clock'] ELSE look[l]]
        BY <2>3 DEF Archive
      <3>2. ASSUME NEW l \in Looks, look[l].status = "PUBLISHED"
            PROVE  look'[l].status = "ARCHIVED"
        <4>1. look'[l] = [look[l] EXCEPT !.status = "ARCHIVED", !.updated = clock'] /\ look[l] \in LookRow
          BY <3>1, <3>2
        <4> QED
          BY <4>1 DEF LookRow
      <3> QED
        BY <3>2
    <2>4. ASSUME NEW d \in Desks, Publish(d)
          PROVE  Apart
      <3>1. PICK l : l = desk[d].on
        OBVIOUS
      <3>2. \/ look' = look
            \/ look' = [look EXCEPT ![l].status = "PUBLISHED", ![l].updated = clock', ![l].published = clock']
        BY <2>4, <3>1 DEF Publish
      <3>3. ASSUME NEW m \in Looks, look' = [look EXCEPT ![l].status = "PUBLISHED", ![l].updated = clock', ![l].published = clock']
            PROVE  look'[m].content = look[m].content
        <4>1. CASE m = l
          <5>1. look'[m] = [look[m] EXCEPT !.status = "PUBLISHED", !.updated = clock', !.published = clock']
            BY <3>3, <4>1
          <5>2. look[m] \in LookRow
            OBVIOUS
          <5> QED
            BY <5>1, <5>2 DEF LookRow
        <4>2. CASE m # l
          BY <3>3, <4>2
        <4> QED
          BY <4>1, <4>2
      <3> QED
        BY <3>2, <3>3
    <2>5. \/ look' = look
          \/ \E d \in Desks : (SaveWrite(d) /\ subject = "look") \/ Archive(d) \/ Publish(d)
      BY DEF SetupNext, SaveRead, PublishRead, RestoreRead, Cut
    <2> QED
      BY <2>1, <2>2, <2>3, <2>4, <2>5
  <1> QED
    BY <1>1, <1>2, <1>3, PTL DEF SetupSpec, DraftsApart


----------------------------------------------------------------------------
(* OrderStock.  A command that carries a version makes only moves of the   *)
(* transition table: the version of an order grows with every change of    *)
(* its status, so that a command that still finds the version it checked   *)
(* finds the status it checked.  Hence an order commanded from the board   *)
(* ends once, and one request moves its stock.                             *)

Row == [status : Statuses \cup {None}, version : Nat, delivery : BOOLEAN, item : Nat, need : Nat, deleted : BOOLEAN]

Typed == order \in [Orders -> Row] /\ req = [u \in Users |-> req[u]] /\ \A u \in Users : "at" \in DOMAIN req[u]

(* A command in progress was legal at the version it carries.              *)
Legal(u) ==
  LET row == order[req[u].what] IN
  /\ req[u].what \in Orders /\ req[u].to \in Statuses /\ row.status # None
  /\ req[u].saw # None => /\ req[u].saw \in Nat /\ req[u].saw <= row.version
                          /\ req[u].saw = row.version => req[u].to \in Transitions(row.status, req[u].how)

Checked == \A u \in Users : req[u].at = "status" => Legal(u)

IInv == Typed /\ Checked

----------------------------------------------------------------------------
(* What a step may do to an order: nothing, place it, give it a status and *)
(* a new version, or correct or delete it.                                 *)
Placed(o)    == order[o].status = None /\ \E r \in Row : order' = [order EXCEPT ![o] = r]
Commanded(o) == \E to \in Statuses : order' = SetStatus(o, to)
Corrected(o) ==
  /\ order' = [order EXCEPT ![o] = order'[o]] /\ order'[o] \in Row
  /\ order'[o].status = order[o].status /\ order'[o].version = order[o].version
OrderEffect == order' = order \/ \E o \in Orders : Placed(o) \/ Commanded(o) \/ Corrected(o)

(* A request asks for a status only after its check, and a command with a  *)
(* version changes the order only if it finds that version.                *)
ReqEffect ==
  \A u \in Users :
    /\ req'[u].at = "status" => req'[u] = req[u] \/ (order' = order /\ Legal(u)')
    /\ req[u].at = "status" /\ req[u].saw # None /\ req'[u].at # "status" /\ order' # order =>
         order' = SetStatus(req[u].what, req[u].to) /\ order[req[u].what].version = req[u].saw

Effects == Typed' /\ OrderEffect /\ ReqEffect

(* A request goes on, and not to the update of a status.                   *)
LEMMA GoingOn ==
  ASSUME Typed, NEW u \in Users, NEW at, at # "status", Go(u, at) \/ End(u)
  PROVE  /\ req'[u].at # "status" /\ \A v \in Users \ {u} : req'[v] = req[v]
         /\ req' = [v \in Users |-> req'[v]] /\ \A v \in Users : "at" \in DOMAIN req'[v]
  BY DEF Typed, Go, End, Idle

LEMMA CheckedStep ==
  ASSUME Typed, Typed', Checked, OrderEffect, ReqEffect
  PROVE  Checked'
  <1> SUFFICES ASSUME NEW u \in Users, req'[u].at = "status", req'[u] = req[u]
               PROVE  Legal(u)'
    BY DEF Checked, ReqEffect
  <1>1. Legal(u) /\ order[req[u].what] \in Row
    BY DEF Checked, Legal, Typed
  <1>2. CASE order' = order
    BY <1>1, <1>2 DEF Legal
  <1>3. ASSUME NEW o \in Orders, Placed(o)
        PROVE  Legal(u)'
    <2>1. order'[req[u].what] = order[req[u].what]
      BY <1>1, <1>3 DEF Placed, Legal, Typed
    <2> QED
      BY <1>1, <2>1 DEF Legal
  <1>4. ASSUME NEW o \in Orders, Commanded(o)
        PROVE  Legal(u)'
    <2>1. CASE o = req[u].what
      <3>1. /\ order'[o].version = order[o].version + 1 /\ order[o].version \in Nat
            /\ order'[o].status \in Statuses
        BY <1>4 DEF Commanded, SetStatus, Typed, Row
      <3> QED
        BY <1>1, <2>1, <3>1, ParametersAssumption DEF Legal
    <2>2. CASE o # req[u].what
      <3>1. order'[req[u].what] = order[req[u].what]
        BY <1>1, <1>4, <2>2 DEF Commanded, SetStatus, Legal, Typed
      <3> QED
        BY <1>1, <3>1 DEF Legal
    <2> QED
      BY <2>1, <2>2
  <1>5. ASSUME NEW o \in Orders, Corrected(o)
        PROVE  Legal(u)'
    <2>1. /\ order'[req[u].what].status = order[req[u].what].status
          /\ order'[req[u].what].version = order[req[u].what].version
      BY <1>1, <1>5 DEF Corrected, Legal, Typed
    <2> QED
      BY <1>1, <2>1 DEF Legal
  <1> QED
    BY <1>2, <1>3, <1>4, <1>5 DEF OrderEffect

----------------------------------------------------------------------------
(* Every step of the system, as the orders see it.                         *)
LEMMA StepEffects ==
  ASSUME Typed, Checked, Next
  PROVE  Effects
  <1>1. ASSUME NEW o \in Orders, Place(o)
        PROVE  Effects
    <2>1. PICK r \in Row : order' = [order EXCEPT ![o] = r] /\ req' = req
      <3>1. PICK n \in 1..MaxNeed, d \in BOOLEAN :
              order' = [order EXCEPT ![o] = [status |-> "PENDING", version |-> 0, delivery |-> d, item |-> 1,
                                             need |-> n, deleted |-> FALSE]]
        BY <1>1 DEF Place
      <3>2. n \in Nat
        BY ParametersAssumption
      <3> QED
        BY <1>1, <3>1, <3>2 DEF Place, Row, Statuses, Active
    <2> QED
      BY <1>1, <2>1 DEF Place, Effects, Typed, OrderEffect, Placed, ReqEffect
  <1>2. ASSUME NEW o \in Orders, ReserveRead(o) \/ ReserveWrite(o) \/ CreatorDies(o)
        PROVE  Effects
    BY <1>2 DEF ReserveRead, ReserveWrite, CreatorDies, Effects, Typed, OrderEffect, ReqEffect
  <1>3. ASSUME NEW u \in Users, NEW o \in Orders, NEW to \in Statuses, StartStatus(u, o, to)
        PROVE  Effects
    <2>1. PICK saw \in {order[o].version, None} :
            req' = [req EXCEPT ![u] = [Idle EXCEPT !.at = "status", !.what = o, !.to = to, !.saw = saw,
                                                   !.how = order[o].delivery]]
      BY <1>3 DEF StartStatus
    <2>2. order' = order /\ order[o].status # None /\ to \in Transitions(order[o].status, order[o].delivery)
      BY <1>3 DEF StartStatus
    <2>3. Legal(u)'
      <3>1. req'[u].what = o /\ req'[u].to = to /\ req'[u].saw = saw /\ req'[u].how = order[o].delivery
        BY <2>1 DEF Typed, Idle
      <3>2. order[o].version \in Nat /\ (saw # None => saw = order[o].version)
        BY <2>1 DEF Typed, Row
      <3> QED
        BY <2>2, <3>1, <3>2 DEF Legal
    <2> QED
      BY <2>1, <2>2, <2>3 DEF Effects, Typed, OrderEffect, ReqEffect, Idle
  <1>4. ASSUME NEW u \in Users, FinishStatus(u)
        PROVE  Effects
    <2> DEFINE o == req[u].what
    <2>1. o \in Orders /\ req[u].to \in Statuses /\ req[u].at = "status"
      BY <1>4 DEF FinishStatus, Checked, Legal
    <2>2. Go(u, "release") \/ Go(u, "consume") \/ End(u)
      BY <1>4 DEF FinishStatus
    <2> HIDE DEF o
    <2>q. /\ req'[u].at # "status" /\ \A v \in Users \ {u} : req'[v] = req[v]
          /\ req' = [v \in Users |-> req'[v]] /\ \A v \in Users : "at" \in DOMAIN req'[v]
      BY <2>2, GoingOn
    <2>3. order' = order \/ (order' = SetStatus(o, req[u].to) /\ Matches(o, req[u].saw))
      BY <1>4 DEF FinishStatus, o
    <2>4. Typed'
      <3>1. order' \in [Orders -> Row]
        BY <2>1, <2>3 DEF Typed, SetStatus, Row
      <3> QED
        BY <2>q, <3>1 DEF Typed
    <2>5. OrderEffect
      BY <2>1, <2>3 DEF OrderEffect, Commanded
    <2>6. ReqEffect
      BY <2>1, <2>q, <2>3 DEF ReqEffect, Matches, o
    <2> QED
      BY <2>4, <2>5, <2>6 DEF Effects
  <1>5. ASSUME NEW u \in Users,
               ReadReserved(u) \/ Release(u) \/ Consume(u) \/ ReadSnapshots(u) \/ Snapshot(u) \/ Die(u)
        PROVE  Effects
    <2>1. order' = order
      BY <1>5 DEF ReadReserved, Release, Consume, ReadSnapshots, Snapshot, Die
    <2>2. /\ req'[u].at # "status" /\ \A v \in Users \ {u} : req'[v] = req[v]
          /\ req' = [v \in Users |-> req'[v]] /\ \A v \in Users : "at" \in DOMAIN req'[v]
      <3>1. CASE Go(u, "snapshot") \/ End(u)
        BY <3>1, GoingOn
      <3>2. CASE ReadReserved(u) /\ ~(Go(u, "snapshot") \/ End(u))
        BY <3>2 DEF ReadReserved, Typed
      <3>3. CASE ReadSnapshots(u) /\ ~End(u)
        BY <3>3 DEF ReadSnapshots, Typed
      <3> QED
        BY <1>5, <3>1, <3>2, <3>3 DEF Release, Consume, Snapshot, Die
    <2> QED
      BY <2>1, <2>2 DEF Effects, Typed, OrderEffect, ReqEffect
  <1>6. ASSUME NEW u \in Users, NEW o \in Orders, NEW at \in {"edit", "remove"}, LockOrder(u, o, at)
        PROVE  Effects
    BY <1>6 DEF LockOrder, Effects, Typed, OrderEffect, ReqEffect, Idle
  <1>7. ASSUME NEW u \in Users, Edit(u) \/ Remove(u)
        PROVE  Effects
    <2> DEFINE o == req[u].what
    <2>1. req' = [req EXCEPT ![u] = Idle] /\ req[u].at # "status"
      BY <1>7 DEF Edit, Remove, End
    <2>2. order' = order \/ (o \in Orders /\ Corrected(o))
      <3>1. CASE Edit(u)
        <4>1. PICK n \in 1..MaxNeed, d \in BOOLEAN :
                order' = [order EXCEPT ![o].item = order[o].item + 1, ![o].need = n, ![o].delivery = d]
          BY <3>1 DEF Edit
        <4>2. n \in Nat
          BY ParametersAssumption
        <4>3. CASE o \in Orders
          <5>1. order[o] \in Row
            BY <4>3 DEF Typed
          <5>2. order' = [order EXCEPT ![o] = [order[o] EXCEPT !.item = order[o].item + 1, !.need = n, !.delivery = d]]
            BY <4>1, <4>3 DEF Typed
          <5>3. order'[o] = [order[o] EXCEPT !.item = order[o].item + 1, !.need = n, !.delivery = d]
            BY <4>3, <5>2 DEF Typed
          <5>4. /\ order'[o] \in Row /\ order'[o].status = order[o].status
                /\ order'[o].version = order[o].version
            <6> DEFINE row == order[o]
            <6>1. /\ row \in Row /\ order'[o] = [row EXCEPT !.item = row.item + 1, !.need = n, !.delivery = d]
                  /\ row.item + 1 \in Nat
              BY <5>1, <5>3 DEF Row
            <6> HIDE DEF row
            <6>2. order'[o] = [status |-> row.status, version |-> row.version, delivery |-> d,
                               item |-> row.item + 1, need |-> n, deleted |-> row.deleted]
              BY <6>1 DEF Row
            <6>3. /\ row.status \in Statuses \cup {None} /\ row.version \in Nat /\ row.deleted \in BOOLEAN
                  /\ row.item + 1 \in Nat /\ n \in Nat /\ d \in BOOLEAN
              BY <4>1, <4>2, <6>1 DEF Row
            <6>4. order'[o] \in Row /\ order'[o].status = row.status /\ order'[o].version = row.version
              BY <6>2, <6>3 DEF Row
            <6> QED
              BY <6>4 DEF row
          <5>5. order' = [order EXCEPT ![o] = order'[o]]
            BY <5>2, <5>3
          <5> QED
            BY <4>3, <5>4, <5>5 DEF Corrected
        <4>4. CASE o \notin Orders
          BY <4>1, <4>4 DEF Typed
        <4> QED
          BY <4>3, <4>4
      <3>2. CASE Remove(u)
        BY <3>2 DEF Remove, Corrected, Typed, Row
      <3> QED
        BY <1>7, <3>1, <3>2
    <2>3. Typed'
      <3>1. order' \in [Orders -> Row]
        BY <2>2 DEF Typed, Corrected
      <3>2. req' = [v \in Users |-> req'[v]] /\ \A v \in Users : "at" \in DOMAIN req'[v]
        BY <2>1 DEF Typed, Idle
      <3> QED
        BY <3>1, <3>2 DEF Typed
    <2> QED
      BY <2>1, <2>2, <2>3 DEF Effects, OrderEffect, ReqEffect, Typed, Idle
  <1> QED
    BY <1>1, <1>2, <1>3, <1>4, <1>5, <1>6, <1>7 DEF Next

----------------------------------------------------------------------------
LEMMA Initially == Init => IInv
  BY DEF Init, IInv, Typed, Checked, Row, Idle

LEMMA Inductive == IInv /\ [Next]_stockVars => IInv'
  <1>1. CASE Next
    BY <1>1, StepEffects, CheckedStep DEF IInv, Effects
  <1>2. CASE UNCHANGED stockVars
    BY <1>2 DEF stockVars, IInv, Typed, Checked, Legal
  <1> QED
    BY <1>1, <1>2

(* OrderingService.updateOrderStatus with expectedVersion, the commands of *)
(* the board: only moves that the transition table has from the status of  *)
(* the order, whatever other commands, corrections and deletions run       *)
(* between the check and the update; for the way of handing it over that   *)
(* the command saw, which a correction may change without a new version.   *)
THEOREM CommandsAreLegal == Spec => LegalMoves
  <1> DEFINE A == \A u \in Users, o \in Orders :
                    req[u].what = o /\ req[u].at = "status" /\ req[u].saw # None /\ req'[u].at # "status" /\ order' # order
                      => order'[o].status \in Transitions(order[o].status, req[u].how)
  <1>1. IInv /\ [Next]_stockVars => [A]_stockVars
    <2> SUFFICES ASSUME IInv, Next, NEW u \in Users, NEW o \in Orders, req[u].what = o, req[u].at = "status",
                        req[u].saw # None, req'[u].at # "status", order' # order
                 PROVE  order'[o].status \in Transitions(order[o].status, req[u].how)
      OBVIOUS
    <2>1. order' = SetStatus(o, req[u].to) /\ order[o].version = req[u].saw
      BY StepEffects DEF IInv, Effects, ReqEffect
    <2>2. req[u].to \in Transitions(order[o].status, req[u].how)
      BY <2>1 DEF IInv, Checked, Legal
    <2> QED
      BY <2>1, <2>2 DEF SetStatus, IInv, Typed, Row
  <1>2. Spec => []IInv
    BY Initially, Inductive, PTL DEF Spec
  <1> QED
    BY <1>1, <1>2, PTL DEF Spec, LegalMoves

----------------------------------------------------------------------------
(* The stock of an order commanded from the board.                         *)

After == {"release", "releasing", "consume", "consuming", "snapshot", "snapping"}
Request == [at : {"idle", "status", "edit", "remove"} \cup After, what : Orders \cup {None}, to : Statuses \cup {None},
            saw : Nat \cup {None}, how : BOOLEAN, item : Nat, held : Movements]

(* What a request may be about, and who has locked what.                   *)
Asking(u) ==
  /\ IF req[u].at = "idle" THEN req[u] = Idle ELSE req[u].what \in Orders
  /\ req[u].at \in {"edit", "remove"} => by[req[u].what] = "desk"
  /\ req[u].at = "status" /\ by[req[u].what] = "board" => req[u].saw # None

Locks == \A o \in Orders : lock[o] # None => req[lock[o]].at \in {"edit", "remove"} /\ req[lock[o]].what = o

StockShapes ==
  /\ order \in [Orders -> Row] /\ moved \in [Orders -> Movements] /\ snaps \in [Orders -> Nat]
  /\ lock \in [Orders -> Users \cup {None}] /\ by \in [Orders -> {"board", "desk"}]
  /\ create \in [Orders -> {None, "read", "write", "done"}] /\ died \subseteq Orders
  /\ req \in [Users -> Request] /\ (\A u \in Users : Asking(u)) /\ Locks

(* The requests that have ended an order and now move its stock.           *)
Following(o) == {u \in Users : req[u].what = o /\ req[u].at \in After}

(* What they have read is still so: nobody else ends the order again.      *)
Pursuing(u, o) ==
  /\ req[u].at \in {"release", "releasing"} => order[o].status = "CANCELLED"
  /\ req[u].at \notin {"release", "releasing"} => order[o].status = "DELIVERED" /\ snaps[o] = 0
  /\ req[u].at \notin {"snapshot", "snapping"} => moved[o].rel = 0
  /\ req[u].at \in {"releasing", "consuming"} =>
       req[u].held.res = moved[o].res /\ req[u].held.oldRes = 0 /\ moved[o].res # 0
  /\ req[u].at \in {"releasing", "consuming", "snapping"} => req[u].item = 1

(* The reservation is written once, released or consumed once, and only    *)
(* when the order has ended.                                               *)
Stocked(o) ==
  LET m == moved[o] IN
  /\ order[o].status = None => create[o] = None
  /\ order[o].status # None => order[o].item = 1
  /\ m.oldRes = 0 /\ m.oldRel = 0 /\ m.res \in {0, order[o].need} /\ m.rel \in {0, m.res}
  /\ create[o] # "done" => m.res = 0
  /\ create[o] = "done" /\ o \notin died => m.res = order[o].need
  /\ order[o].status = "DELIVERED" => m.cons = m.rel /\ snaps[o] \in {0, 1}
  /\ order[o].status # "DELIVERED" => m.cons = 0 /\ snaps[o] = 0
  /\ order[o].status \notin {"DELIVERED", "CANCELLED"} => m.rel = 0 /\ Following(o) = {}

Followed(o) ==
  /\ \A u, v \in Following(o) : u = v
  /\ \A u \in Following(o) : Pursuing(u, o)
  /\ order[o].status = "DELIVERED" /\ Following(o) = {} /\ o \notin died => snaps[o] = 1

Boards   == \A o \in Orders : by[o] = "board" => Stocked(o) /\ Followed(o)
StockInv == IInv /\ StockShapes /\ Boards

LEMMA StockStarts == Init => StockInv
  <1> SUFFICES ASSUME Init
               PROVE  StockInv
    OBVIOUS
  <1>1. IInv
    BY Initially
  <1>2. Idle \in Request /\ Nothing \in Movements
    BY DEF Idle, Request, Nothing, Movements, After
  <1>3. StockShapes
    <2>1. order \in [Orders -> Row]
      BY <1>1 DEF IInv, Typed
    <2>2. moved \in [Orders -> Movements] /\ snaps \in [Orders -> Nat] /\ lock \in [Orders -> Users \cup {None}]
      BY <1>2 DEF Init
    <2>3. req \in [Users -> Request] /\ \A u \in Users : Asking(u)
      BY <1>2 DEF Init, Asking, Idle
    <2> QED
      BY <2>1, <2>2, <2>3 DEF Init, StockShapes, Locks
  <1>4. Boards
    <2>1. \A o \in Orders : Following(o) = {}
      BY DEF Init, Following, Idle, After
    <2>2. \A o \in Orders : moved[o] = Nothing /\ order[o].need = 0 /\ order[o].status = None /\ create[o] = None /\ snaps[o] = 0
      BY DEF Init
    <2>3. None # "done" /\ None \notin {"DELIVERED", "CANCELLED"}
      BY ParametersAssumption DEF Statuses
    <2>4. \A o \in Orders : Stocked(o)
      BY <2>1, <2>2, <2>3 DEF Stocked, Nothing
    <2>5. \A o \in Orders : Followed(o)
      BY <2>1, <2>2, <2>3 DEF Followed
    <2> QED
      BY <2>4, <2>5 DEF Boards
  <1> QED
    BY <1>1, <1>3, <1>4 DEF StockInv

(* A step about one order leaves what is said of the others.               *)
LEMMA OneOrder ==
  ASSUME StockShapes, Boards, by' = by, died \subseteq died', NEW o,
         \A p \in Orders \ {o} : /\ order'[p] = order[p] /\ moved'[p] = moved[p]
                                 /\ snaps'[p] = snaps[p] /\ create'[p] = create[p],
         \A v \in Users : \/ req'[v] = req[v]
                          \/ /\ req[v].what = o \/ req[v].at \notin After
                             /\ req'[v].what = o \/ req'[v].at \notin After,
         o \in Orders /\ by[o] = "board" => Stocked(o)' /\ Followed(o)'
  PROVE  Boards'
  <1> SUFFICES ASSUME NEW p \in Orders, by[p] = "board", p # o
               PROVE  Stocked(p)' /\ Followed(p)'
    BY DEF Boards
  <1>1. Stocked(p) /\ Followed(p)
    BY DEF Boards
  <1>2. order'[p] = order[p] /\ moved'[p] = moved[p] /\ snaps'[p] = snaps[p] /\ create'[p] = create[p]
    OBVIOUS
  <1>3. Following(p)' = Following(p) /\ \A v \in Following(p) : req'[v] = req[v]
    BY DEF Following
  <1>4. p \notin died' => p \notin died
    OBVIOUS
  <1>5. Stocked(p)'
    BY <1>1, <1>2, <1>3, <1>4 DEF Stocked
  <1>6. \A v \in Following(p) : Pursuing(v, p)'
    BY <1>1, <1>2, <1>3 DEF Followed, Pursuing
  <1>7. Followed(p)'
    BY <1>1, <1>2, <1>3, <1>4, <1>6 DEF Followed
  <1> QED
    BY <1>5, <1>7

(* The same for a step that leaves every order and its followers.          *)
LEMMA NoOrder ==
  ASSUME StockShapes, Boards, by' = by, died \subseteq died', UNCHANGED <<order, moved, snaps, create>>,
         \A v \in Users : req'[v] = req[v] \/ (req[v].at \notin After /\ req'[v].at \notin After)
  PROVE  Boards'
  <1> SUFFICES ASSUME NEW p \in Orders, by[p] = "board"
               PROVE  Stocked(p)' /\ Followed(p)'
    BY DEF Boards
  <1>1. Stocked(p) /\ Followed(p)
    BY DEF Boards
  <1>3. Following(p)' = Following(p) /\ \A v \in Following(p) : req'[v] = req[v]
    BY DEF Following
  <1>4. p \notin died' => p \notin died
    OBVIOUS
  <1>5. Stocked(p)'
    BY <1>1, <1>3, <1>4 DEF Stocked
  <1>6. \A v \in Following(p) : Pursuing(v, p)'
    BY <1>1, <1>3 DEF Followed, Pursuing
  <1>7. Followed(p)'
    BY <1>1, <1>3, <1>4, <1>6 DEF Followed
  <1> QED
    BY <1>5, <1>7

(* A request that is no maintenance goes on.                               *)
LEMMA RequestMoves ==
  ASSUME StockShapes, NEW u \in Users, NEW row \in Request, req' = [req EXCEPT ![u] = row], lock' = lock, by' = by,
         req[u].at \notin {"edit", "remove"}, row.at \notin {"edit", "remove"},
         IF row.at = "idle" THEN row = Idle ELSE row.what \in Orders,
         row.at = "status" /\ by[row.what] = "board" => row.saw # None
  PROVE  req' \in [Users -> Request] /\ (\A v \in Users : Asking(v)') /\ Locks'
  <1>1. req'[u] = row /\ \A v \in Users \ {u} : req'[v] = req[v]
    BY DEF StockShapes
  <1>2. req' \in [Users -> Request]
    BY DEF StockShapes
  <1>3. \A v \in Users : Asking(v)'
    BY <1>1 DEF StockShapes, Asking
  <1>4. Locks'
    BY <1>1 DEF StockShapes, Locks
  <1> QED
    BY <1>2, <1>3, <1>4

LEMMA IdleRow == Idle \in Request /\ Idle.at = "idle"
  BY DEF Idle, Request, Nothing, Movements, After

(* A request goes to its next statement, or ends.                          *)
LEMMA GoRow ==
  ASSUME StockShapes, NEW u \in Users, NEW at \in After, Go(u, at)
  PROVE  \E row \in Request : /\ req' = [req EXCEPT ![u] = row] /\ req'[u] = row
                              /\ row.at = at /\ row.what = req[u].what /\ row.held = req[u].held /\ row.item = req[u].item
  <1>1. PICK old \in Request : old = req[u]
    BY DEF StockShapes
  <1>2. PICK row : row = [old EXCEPT !.at = at]
    OBVIOUS
  <1>3. row \in Request /\ row.at = at /\ row.what = old.what /\ row.held = old.held /\ row.item = old.item
    BY <1>2 DEF Request
  <1>4. req' = [req EXCEPT ![u] = row]
    BY <1>1, <1>2 DEF Go, StockShapes
  <1>5. req'[u] = row
    BY <1>4 DEF StockShapes
  <1> QED
    BY <1>1, <1>3, <1>4, <1>5
(* What the creation of an order does to its stock.                        *)
LEMMA NoneIs == None \notin Users /\ None \notin Statuses /\ None \notin {"read", "write", "done"}
  BY ParametersAssumption

LEMMA CreationKeeps ==
  ASSUME StockInv, NEW o \in Orders, Place(o) \/ ReserveRead(o) \/ ReserveWrite(o) \/ CreatorDies(o)
  PROVE  StockShapes' /\ Boards'
  <1> USE DEF StockInv
  <1>1. UNCHANGED <<lock, by, req>> /\ died \subseteq died' /\ died' \subseteq Orders
    BY DEF Place, ReserveRead, ReserveWrite, CreatorDies, StockShapes
  <1>2. order' \in [Orders -> Row]
    <2>1. Next
      BY DEF Next
    <2> QED
      BY <2>1, StepEffects DEF IInv, Effects, Typed
  <1>3. snaps' = snaps /\ moved' \in [Orders -> Movements] /\ create' \in [Orders -> {None, "read", "write", "done"}]
    <2>1. CASE Place(o) \/ ReserveRead(o) \/ CreatorDies(o)
      BY <2>1 DEF Place, ReserveRead, CreatorDies, StockShapes
    <2>2. CASE ReserveWrite(o)
      <3>1. PICK m \in Movements : m = moved[o]
        BY DEF StockShapes
      <3>2. order[o].need \in Nat
        BY DEF StockShapes, Row
      <3>3. PICK row : row = [m EXCEPT !.res = m.res + order[o].need]
        OBVIOUS
      <3>4. row \in Movements
        BY <3>2, <3>3 DEF Movements
      <3>5. moved' = moved \/ moved' = [moved EXCEPT ![o] = row]
        BY <2>2, <3>1, <3>3 DEF ReserveWrite, StockShapes
      <3> QED
        BY <2>2, <3>4, <3>5 DEF ReserveWrite, StockShapes
    <2> QED
      BY <2>1, <2>2
  <1>4. \A u \in Users : Asking(u)'
    BY <1>1 DEF StockShapes, Asking
  <1>5. StockShapes'
    BY <1>1, <1>2, <1>3, <1>4 DEF StockShapes, Locks
  <1>6. \A p \in Orders \ {o} : /\ order'[p] = order[p] /\ moved'[p] = moved[p]
                                /\ snaps'[p] = snaps[p] /\ create'[p] = create[p]
    BY DEF Place, ReserveRead, ReserveWrite, CreatorDies, StockShapes
  <1>7. ASSUME by[o] = "board"
        PROVE  Stocked(o)' /\ Followed(o)'
    <2>1. Stocked(o) /\ Followed(o) /\ Following(o)' = Following(o)
      BY <1>1, <1>7 DEF Boards, Following
    <2>2. moved[o] \in Movements /\ order[o].need \in Nat
      BY DEF StockShapes, Row
    <2>3. CASE Place(o)
      <3>1. PICK n \in 1..MaxNeed, d \in BOOLEAN :
              order' = [order EXCEPT ![o] = [status |-> "PENDING", version |-> 0, delivery |-> d, item |-> 1,
                                             need |-> n, deleted |-> FALSE]]
        BY <2>3 DEF Place
      <3>2. order'[o].status = "PENDING" /\ order'[o].item = 1 /\ order[o].status = None
        BY <2>3, <3>1 DEF Place, StockShapes
      <3>3. create'[o] = "read" /\ create[o] = None /\ moved' = moved /\ snaps' = snaps
        BY <2>1, <2>3, <3>2 DEF Place, Stocked, StockShapes
      <3>4. moved[o].res = 0 /\ moved[o].rel = 0 /\ moved[o].cons = 0 /\ snaps[o] = 0 /\ Following(o) = {}
            /\ moved[o].oldRes = 0 /\ moved[o].oldRel = 0
        BY <2>1, <3>2, <3>3, NoneIs DEF Stocked, Statuses
      <3>5. Stocked(o)'
        BY <2>1, <3>2, <3>3, <3>4, NoneIs DEF Stocked, Statuses, Active
      <3>6. Followed(o)'
        BY <2>1, <3>2, <3>4 DEF Followed
      <3> QED
        BY <3>5, <3>6
    <2>4. CASE ReserveRead(o) \/ CreatorDies(o)
      <3>1. order' = order /\ moved' = moved /\ snaps' = snaps /\ create[o] \in {"read", "write"}
        BY <2>4 DEF ReserveRead, CreatorDies
      <3>2. moved[o].res = 0 /\ moved[o].oldRes = 0
        BY <2>1, <3>1 DEF Stocked
      <3>3. create'[o] = "write" \/ (create'[o] = "done" /\ o \in died')
        BY <2>4, <3>2 DEF ReserveRead, CreatorDies, StockShapes
      <3>4. order[o].status # None
        BY <2>1, <3>1, NoneIs DEF Stocked
      <3>5. Stocked(o)'
        BY <2>1, <3>1, <3>2, <3>3, <3>4 DEF Stocked
      <3>6. \A u \in Following(o) : Pursuing(u, o)'
        BY <1>1, <2>1, <3>1 DEF Followed, Pursuing
      <3>7. Followed(o)'
        BY <1>1, <2>1, <3>1, <3>6 DEF Followed
      <3> QED
        BY <3>5, <3>7
    <2>5. CASE ReserveWrite(o)
      <3>1. order' = order /\ snaps' = snaps /\ create[o] = "write" /\ create'[o] = "done" /\ died' = died
        BY <2>5 DEF ReserveWrite, StockShapes
      <3>2. order[o].status # None /\ moved[o].res = 0 /\ moved[o].rel = 0
        BY <2>1, <3>1, NoneIs DEF Stocked
      <3>3. PICK m \in Movements : m = moved[o]
        BY DEF StockShapes
      <3>4. moved'[o] = [m EXCEPT !.res = m.res + order[o].need]
        BY <2>1, <2>5, <3>2, <3>3 DEF ReserveWrite, Stocked, StockShapes
      <3>5. /\ moved'[o].res = order[o].need /\ moved'[o].rel = moved[o].rel /\ moved'[o].cons = moved[o].cons
            /\ moved'[o].oldRes = moved[o].oldRes /\ moved'[o].oldRel = moved[o].oldRel
        BY <2>2, <3>2, <3>3, <3>4 DEF Movements
      <3>6. Stocked(o)'
        BY <2>1, <3>1, <3>2, <3>5 DEF Stocked
      <3>7. \A u \in Following(o) : Pursuing(u, o)'
        BY <1>1, <2>1, <3>1, <3>2, <3>5 DEF Followed, Pursuing
      <3>8. Followed(o)'
        BY <1>1, <2>1, <3>1, <3>7 DEF Followed
      <3> QED
        BY <3>6, <3>8
    <2> QED
      BY <2>3, <2>4, <2>5
  <1>8. \A v \in Users : req'[v] = req[v]
    BY <1>1
  <1>9. Boards'
    BY <1>1, <1>6, <1>7, <1>8, OneOrder
  <1> QED
    BY <1>5, <1>9

(* A check of a command, and a lock.                                       *)
LEMMA CommandBegins ==
  ASSUME StockInv, NEW u \in Users, NEW o \in Orders,
         (\E to \in Statuses : StartStatus(u, o, to)) \/ \E at \in {"edit", "remove"} : LockOrder(u, o, at)
  PROVE  StockShapes' /\ Boards'
  <1> USE DEF StockInv
  <1>1. /\ UNCHANGED <<order, moved, snaps, by, create, died>> /\ req[u] = Idle
        /\ \E row : req' = [req EXCEPT ![u] = row]
    BY DEF StartStatus, LockOrder
  <1>2. CASE \E to \in Statuses : StartStatus(u, o, to)
    <2>1. PICK to \in Statuses : StartStatus(u, o, to)
      BY <1>2
    <2>2. PICK saw \in {order[o].version} \cup (IF by[o] = "desk" THEN {None} ELSE {}) :
            req' = [req EXCEPT ![u] = [Idle EXCEPT !.at = "status", !.what = o, !.to = to, !.saw = saw,
                                                   !.how = order[o].delivery]]
      BY <2>1 DEF StartStatus
    <2>3. PICK row : row = [Idle EXCEPT !.at = "status", !.what = o, !.to = to, !.saw = saw, !.how = order[o].delivery]
      OBVIOUS
    <2>4. order[o].version \in Nat /\ None \notin Nat /\ order[o].delivery \in BOOLEAN
      BY ParametersAssumption DEF StockShapes, Row
    <2>5. row \in Request /\ row.at = "status" /\ row.what = o /\ (by[o] = "board" => row.saw # None)
      BY <2>2, <2>3, <2>4, IdleRow DEF Request, Idle
    <2>6. req' = [req EXCEPT ![u] = row] /\ lock' = lock
      BY <2>1, <2>2, <2>3 DEF StartStatus
    <2>7. req[u].at = "idle"
      BY <1>1, IdleRow
    <2>8. req' \in [Users -> Request] /\ (\A v \in Users : Asking(v)') /\ Locks'
      BY <1>1, <2>5, <2>6, <2>7, RequestMoves
    <2>9. StockShapes'
      BY <1>1, <2>6, <2>8 DEF StockShapes
    <2>10. \A v \in Users : req'[v] = req[v] \/ (req[v].at \notin After /\ req'[v].at \notin After)
      BY <2>5, <2>6, <2>7 DEF StockShapes, After
    <2>11. Boards'
      BY <1>1, <2>10, NoOrder
    <2> QED
      BY <2>9, <2>11
  <1>3. CASE \E at \in {"edit", "remove"} : LockOrder(u, o, at)
    <2>1. PICK at \in {"edit", "remove"} : LockOrder(u, o, at)
      BY <1>3
    <2>2. PICK held : held = [Nothing EXCEPT !.oldRes = Positive(Net(moved[o]))]
      OBVIOUS
    <2>3. PICK row : row = [Idle EXCEPT !.at = at, !.what = o, !.held = held]
      OBVIOUS
    <2>4. held \in Movements
      <3>1. Positive(Net(moved[o])) \in Nat
        <4>1. Net(moved[o]) \in Int
          BY DEF StockShapes, Movements, Net
        <4> QED
          BY <4>1 DEF Positive
      <3> QED
        BY <2>2, <3>1 DEF Nothing, Movements
    <2>5. row \in Request /\ row.at = at /\ row.what = o
      BY <2>3, <2>4, IdleRow DEF Request, Idle
    <2>6. req' = [req EXCEPT ![u] = row] /\ lock' = [lock EXCEPT ![o] = u] /\ by[o] = "desk"
      BY <2>1, <2>2, <2>3 DEF LockOrder
    <2>7. req[u].at = "idle" /\ req'[u] = row /\ \A v \in Users \ {u} : req'[v] = req[v]
      BY <1>1, <2>6, IdleRow DEF StockShapes
    <2>8. \A v \in Users : Asking(v)'
      BY <1>1, <2>5, <2>6, <2>7 DEF StockShapes, Asking
    <2>9. Locks'
      <3> SUFFICES ASSUME NEW p \in Orders, lock'[p] # None
                   PROVE  req'[lock'[p]].at \in {"edit", "remove"} /\ req'[lock'[p]].what = p
        BY DEF Locks
      <3>1. CASE p = o
        BY <2>5, <2>6, <2>7, <3>1 DEF StockShapes
      <3>2. CASE p # o
        <4>1. lock'[p] = lock[p] /\ lock[p] \in Users
          BY <2>6, <3>2 DEF StockShapes
        <4>2. req[lock[p]].at \in {"edit", "remove"} /\ req[lock[p]].what = p
          BY <4>1 DEF StockShapes, Locks
        <4> QED
          BY <2>7, <4>1, <4>2
      <3> QED
        BY <3>1, <3>2
    <2>10. req' \in [Users -> Request] /\ lock' \in [Orders -> Users \cup {None}]
      BY <2>5, <2>6 DEF StockShapes
    <2>11. StockShapes'
      BY <1>1, <2>8, <2>9, <2>10 DEF StockShapes
    <2>12. \A v \in Users : req'[v] = req[v] \/ (req[v].at \notin After /\ req'[v].at \notin After)
      BY <2>5, <2>7 DEF StockShapes, After
    <2>13. Boards'
      BY <1>1, <2>12, NoOrder
    <2> QED
      BY <2>11, <2>13
  <1> QED
    BY <1>2, <1>3
(* The one request that follows an order, after a step of it.              *)
LEMMA Follows ==
  ASSUME StockShapes, NEW u \in Users, NEW o \in Orders, NEW row, req' = [req EXCEPT ![u] = row],
         Following(o) \subseteq {u}
  PROVE  /\ row.what = o /\ row.at \in After => Following(o)' = {u}
         /\ row.at \notin After => Following(o)' = {}
  <1>1. req'[u] = row /\ \A v \in Users \ {u} : req'[v] = req[v]
    BY DEF StockShapes
  <1>2. \A v \in Users \ {u} : ~(req'[v].what = o /\ req'[v].at \in After)
    BY <1>1 DEF Following
  <1> QED
    BY <1>1, <1>2 DEF Following

(* A row of orders with a new status.                                      *)
LEMMA StatusSet ==
  ASSUME StockShapes, NEW o \in Orders, NEW to \in Statuses, order' = SetStatus(o, to)
  PROVE  /\ order' \in [Orders -> Row] /\ \A p \in Orders \ {o} : order'[p] = order[p]
         /\ order'[o].status = to /\ order'[o].item = order[o].item /\ order'[o].need = order[o].need
  <1>1. PICK old \in Row : old = order[o]
    BY DEF StockShapes
  <1>2. PICK row : row = [old EXCEPT !.status = to, !.version = old.version + 1]
    OBVIOUS
  <1>3. row \in Row /\ row.status = to /\ row.item = old.item /\ row.need = old.need
    <2>1. old.version + 1 \in Nat
      BY DEF Row
    <2>2. row = [status |-> to, version |-> old.version + 1, delivery |-> old.delivery, item |-> old.item,
                 need |-> old.need, deleted |-> old.deleted]
      BY <1>2 DEF Row
    <2> QED
      BY <2>1, <2>2 DEF Row
  <1>4. order' = [order EXCEPT ![o] = row]
    BY <1>1, <1>2 DEF SetStatus, StockShapes
  <1> QED
    BY <1>1, <1>3, <1>4 DEF StockShapes

(* The update of a status: it ends an order only once, and then nobody     *)
(* else follows it.                                                        *)
LEMMA FinishKeeps ==
  ASSUME StockInv, NEW u \in Users, FinishStatus(u)
  PROVE  StockShapes' /\ Boards'
  <1> USE DEF StockInv
  <1>1. PICK o \in Orders : o = req[u].what
    BY DEF FinishStatus, StockShapes, Asking
  <1>2. PICK to \in Statuses : to = req[u].to
    BY DEF FinishStatus, IInv, Checked, Legal
  <1>3. UNCHANGED <<moved, snaps, lock, by, create, died>> /\ req[u].at = "status"
    BY DEF FinishStatus
  <1>4. PICK row \in Request : /\ req' = [req EXCEPT ![u] = row]
                               /\ row = Idle \/ /\ order' = SetStatus(o, to) /\ Matches(o, req[u].saw) /\ row.what = o
                                                /\ \/ to = "CANCELLED" /\ row.at = "release"
                                                   \/ to = "DELIVERED" /\ row.at = "consume"
                               /\ order' # order => order' = SetStatus(o, to) /\ Matches(o, req[u].saw)
                               /\ row = Idle => order' = order \/ to \notin {"CANCELLED", "DELIVERED"}
    <2>1. CASE Matches(o, req[u].saw) /\ to = "CANCELLED"
      <3>1. order' = SetStatus(o, to) /\ Go(u, "release")
        BY <1>1, <1>2, <2>1 DEF FinishStatus
      <3>2. PICK row \in Request : req' = [req EXCEPT ![u] = row] /\ row.at = "release" /\ row.what = req[u].what
        BY <3>1, GoRow DEF After
      <3> QED
        BY <1>1, <2>1, <3>1, <3>2, IdleRow
    <2>2. CASE Matches(o, req[u].saw) /\ to = "DELIVERED"
      <3>1. order' = SetStatus(o, to) /\ Go(u, "consume")
        BY <1>1, <1>2, <2>2 DEF FinishStatus
      <3>2. PICK row \in Request : req' = [req EXCEPT ![u] = row] /\ row.at = "consume" /\ row.what = req[u].what
        BY <3>1, GoRow DEF After
      <3> QED
        BY <1>1, <2>2, <3>1, <3>2, IdleRow
    <2>3. CASE Matches(o, req[u].saw) /\ to \notin {"CANCELLED", "DELIVERED"}
      <3>1. order' = SetStatus(o, to) /\ req' = [req EXCEPT ![u] = Idle]
        BY <1>1, <1>2, <2>3 DEF FinishStatus, End
      <3> QED
        BY <2>3, <3>1, IdleRow
    <2>4. CASE ~Matches(o, req[u].saw)
      <3>1. order' = order /\ req' = [req EXCEPT ![u] = Idle]
        BY <1>1, <2>4 DEF FinishStatus, End
      <3> QED
        BY <3>1, IdleRow
    <2> QED
      BY <2>1, <2>2, <2>3, <2>4
  <1>5. order' \in [Orders -> Row] /\ \A p \in Orders \ {o} : order'[p] = order[p]
    BY <1>4, StatusSet DEF StockShapes
  <1>6. req' \in [Users -> Request] /\ (\A v \in Users : Asking(v)') /\ Locks'
    <2>1. row.at \notin {"edit", "remove", "status"} /\ IF row.at = "idle" THEN row = Idle ELSE row.what \in Orders
      BY <1>4, IdleRow
    <2> QED
      BY <1>3, <1>4, <2>1, RequestMoves
  <1>7. StockShapes'
    BY <1>3, <1>5, <1>6 DEF StockShapes
  <1>8. ASSUME by[o] = "board"
        PROVE  Stocked(o)' /\ Followed(o)'
    <2>1. Stocked(o) /\ Followed(o)
      BY <1>8 DEF Boards
    <2>2. CASE order' = order /\ row = Idle
      <3>1. Following(o)' = Following(o) /\ \A v \in Following(o) : req'[v] = req[v]
        BY <1>3, <1>4, <2>2, IdleRow DEF Following, StockShapes, After
      <3>2. Stocked(o)'
        BY <1>3, <2>1, <2>2, <3>1 DEF Stocked
      <3>3. \A v \in Following(o) : Pursuing(v, o)'
        BY <1>3, <2>1, <2>2, <3>1 DEF Followed, Pursuing
      <3> QED
        BY <1>3, <2>1, <2>2, <3>1, <3>2, <3>3 DEF Followed
    <2>3. CASE order' = SetStatus(o, to) /\ Matches(o, req[u].saw)
      <3>1. req[u].saw # None
        BY <1>1, <1>3, <1>8 DEF StockShapes, Asking
      <3>2. to \in Transitions(order[o].status, req[u].how)
        BY <1>1, <1>2, <1>3, <2>3, <3>1 DEF IInv, Checked, Legal, Matches
      <3>3. order[o].status \in Active
        BY <3>2, NoneIs DEF Transitions, Statuses, Active
      <3>4. /\ Following(o) = {} /\ moved[o].rel = 0 /\ moved[o].cons = 0 /\ snaps[o] = 0
            /\ order[o].item = 1 /\ moved[o].oldRes = 0 /\ moved[o].oldRel = 0
        BY <2>1, <3>3, NoneIs DEF Stocked, Active, Statuses
      <3>5. order'[o].status = to /\ order'[o].item = order[o].item /\ order'[o].need = order[o].need
        BY <2>3, StatusSet
      <3>6. to \in {"CANCELLED", "DELIVERED"} => Following(o)' = {u} /\ row.what = o
        <4>1. to \in {"CANCELLED", "DELIVERED"} => row.what = o /\ row.at \in After
          <5>1. order'[o].status # order[o].status \/ to \notin {"CANCELLED", "DELIVERED"}
            BY <3>3, <3>5 DEF Active
          <5>2. row # Idle \/ to \notin {"CANCELLED", "DELIVERED"}
            BY <1>4, <5>1
          <5> QED
            BY <1>4, <5>2 DEF After
        <4>2. row.what = o /\ row.at \in After => Following(o)' = {u}
          BY <1>4, <3>4, Follows
        <4> QED
          BY <4>1, <4>2
      <3>7. to \notin {"CANCELLED", "DELIVERED"} => Following(o)' = {}
        <4>1. to \notin {"CANCELLED", "DELIVERED"} => row.at \notin After
          BY <1>4, IdleRow DEF After
        <4>2. row.at \notin After => Following(o)' = {}
          BY <1>4, <3>4, Follows
        <4> QED
          BY <4>1, <4>2
      <3>8. Stocked(o)'
        BY <1>3, <2>1, <3>4, <3>5, <3>7, NoneIs DEF Stocked, Statuses
      <3>9. \A v \in Following(o)' : Pursuing(v, o)'
        <4> SUFFICES ASSUME NEW v \in Following(o)'
                     PROVE  Pursuing(v, o)'
          OBVIOUS
        <4>1. v = u /\ to \in {"CANCELLED", "DELIVERED"}
          BY <3>6, <3>7
        <4>2. req'[u] = row
          BY <1>4 DEF StockShapes
        <4>3. \/ to = "CANCELLED" /\ row.at = "release"
              \/ to = "DELIVERED" /\ row.at = "consume"
          <5>1. row # Idle
            BY <1>4, <3>6, <4>1, <4>2, IdleRow DEF Following, After
          <5> QED
            BY <1>4, <5>1
        <4> QED
          BY <1>3, <3>4, <3>5, <4>1, <4>2, <4>3 DEF Pursuing
      <3>10. Followed(o)'
        BY <3>5, <3>6, <3>7, <3>9 DEF Followed
      <3> QED
        BY <3>8, <3>10
    <2> QED
      BY <1>4, <2>2, <2>3
  <1>9. \A v \in Users : \/ req'[v] = req[v]
                         \/ /\ req[v].what = o \/ req[v].at \notin After
                            /\ req'[v].what = o \/ req'[v].at \notin After
    BY <1>1, <1>4, IdleRow DEF StockShapes, After
  <1>10. Boards'
    BY <1>3, <1>5, <1>8, <1>9, OneOrder
  <1> QED
    BY <1>7, <1>10
(* What is reserved for an order of the board: all of it, until it is      *)
(* released or consumed.                                                   *)
LEMMA ReservedIs ==
  ASSUME NEW m \in Movements, m.oldRes = 0, m.oldRel = 0, m.rel = 0
  PROVE  /\ Reserved(m) \in Movements /\ Reserved(m).res = m.res /\ Reserved(m).oldRes = 0
         /\ m.res = 0 => Reserved(m) = Nothing
  <1>1. Positive(m.res - m.rel) = m.res /\ Positive(m.oldRes - m.oldRel) = 0 /\ m.res \in Nat
    BY DEF Movements, Positive
  <1>2. Reserved(m) = [Nothing EXCEPT !.res = m.res, !.oldRes = 0]
    BY <1>1 DEF Reserved
  <1>3. Reserved(m) = [res |-> m.res, rel |-> 0, oldRes |-> 0, oldRel |-> 0, cons |-> 0]
    BY <1>2 DEF Nothing
  <1> QED
    BY <1>1, <1>3 DEF Movements, Nothing

LEMMA ReservedType ==
  ASSUME NEW m \in Movements
  PROVE  Reserved(m) \in Movements
  <1>1. Positive(m.res - m.rel) \in Nat /\ Positive(m.oldRes - m.oldRel) \in Nat
    BY DEF Movements, Positive
  <1> QED
    BY <1>1 DEF Reserved, Nothing, Movements

(* A step of a request that follows an order, and changes no order.        *)
LEMMA FollowKeeps ==
  ASSUME StockInv, NEW u \in Users, NEW o \in Orders, o = req[u].what, req[u].at \in After,
         NEW row \in Request, req' = [req EXCEPT ![u] = row],
         row = Idle \/ (row.at \in After /\ row.what = o),
         UNCHANGED <<order, lock, by, create>>, died \subseteq died', died' \subseteq Orders,
         moved' \in [Orders -> Movements], snaps' \in [Orders -> Nat],
         \A p \in Orders \ {o} : moved'[p] = moved[p] /\ snaps'[p] = snaps[p],
         by[o] = "board" /\ Stocked(o) /\ Pursuing(u, o) =>
           /\ Stocked(o)'
           /\ row # Idle => Pursuing(u, o)'
           /\ row = Idle /\ order[o].status = "DELIVERED" => o \in died' \/ snaps'[o] = 1
  PROVE  StockShapes' /\ Boards'
  <1> USE DEF StockInv
  <1>2. req' \in [Users -> Request] /\ (\A v \in Users : Asking(v)') /\ Locks'
    BY RequestMoves, IdleRow DEF After
  <1>3. StockShapes'
    BY <1>2 DEF StockShapes
  <1>4. ASSUME by[o] = "board"
        PROVE  Stocked(o)' /\ Followed(o)'
    <2>1. Stocked(o) /\ Followed(o) /\ u \in Following(o)
      BY <1>4 DEF Boards, Following
    <2>2. Pursuing(u, o) /\ Following(o) \subseteq {u}
      BY <2>1 DEF Followed
    <2>3. Stocked(o)'
      BY <1>4, <2>1, <2>2
    <2>4. /\ row.at \in After => Following(o)' = {u} /\ Pursuing(u, o)'
          /\ row.at \notin After => Following(o)' = {}
      <3>1. /\ row.what = o /\ row.at \in After => Following(o)' = {u}
            /\ row.at \notin After => Following(o)' = {}
        BY <2>2, Follows
      <3>2. row.at \in After => row # Idle
        BY IdleRow DEF After
      <3>3. row.at \in After => row.what = o /\ Pursuing(u, o)'
        BY <1>4, <2>1, <2>2, <3>2
      <3> QED
        BY <3>1, <3>3
    <2>5. ASSUME order'[o].status = "DELIVERED", Following(o)' = {}, o \notin died'
          PROVE  snaps'[o] = 1
      <3>1. row = Idle /\ order[o].status = "DELIVERED"
        BY <2>4, <2>5
      <3> QED
        BY <1>4, <2>1, <2>2, <2>5, <3>1
    <2>6. Followed(o)'
      BY <2>4, <2>5 DEF Followed
    <2> QED
      BY <2>3, <2>6
  <1>5. \A v \in Users : \/ req'[v] = req[v]
                         \/ /\ req[v].what = o \/ req[v].at \notin After
                            /\ req'[v].what = o \/ req'[v].at \notin After
    BY IdleRow DEF StockShapes, After
  <1>6. Boards'
    BY <1>4, <1>5, OneOrder
  <1> QED
    BY <1>3, <1>6
(* A request that ended an order is about to move its stock.               *)
LEMMA Pursued ==
  ASSUME StockInv, NEW u \in Users, req[u].at \in After
  PROVE  \E o \in Orders : o = req[u].what
  BY DEF StockInv, StockShapes, Asking, After

LEMMA ReadReservedKeeps ==
  ASSUME StockInv, NEW u \in Users, ReadReserved(u)
  PROVE  StockShapes' /\ Boards'
  <1> USE DEF StockInv
  <1>1. PICK o \in Orders : o = req[u].what
    BY Pursued DEF ReadReserved, After
  <1>2. /\ UNCHANGED <<order, moved, snaps, lock, by, create, died>> /\ req[u].at \in {"release", "consume"}
    BY DEF ReadReserved
  <1>3. PICK m \in Movements : m = moved[o]
    BY DEF StockShapes
  <1>4. PICK held \in Movements : held = Reserved(m)
    BY ReservedType
  <1>5. PICK row \in Request :
          /\ req' = [req EXCEPT ![u] = row]
          /\ \/ /\ held # Nothing /\ row.what = o /\ row.item = order[o].item /\ row.held = held
                /\ row.at = IF req[u].at = "release" THEN "releasing" ELSE "consuming"
             \/ held = Nothing /\ req[u].at = "release" /\ row = Idle
             \/ held = Nothing /\ req[u].at = "consume" /\ row.at = "snapshot" /\ row.what = o
    <2>1. CASE held # Nothing
      <3>1. PICK old \in Request : old = req[u]
        BY DEF StockShapes
      <3>2. PICK at : at = IF req[u].at = "release" THEN "releasing" ELSE "consuming"
        OBVIOUS
      <3>3. PICK row : row = [old EXCEPT !.at = at, !.item = order[o].item, !.held = held]
        OBVIOUS
      <3>4. order[o].item \in Nat /\ at \in After
        BY <3>2 DEF StockShapes, Row, After
      <3>5. row \in Request /\ row.at = at /\ row.what = old.what /\ row.item = order[o].item /\ row.held = held
        BY <3>3, <3>4 DEF Request
      <3>6. req' = [req EXCEPT ![u] = row]
        BY <1>1, <1>3, <1>4, <2>1, <3>1, <3>2, <3>3 DEF ReadReserved, StockShapes
      <3> QED
        BY <1>1, <2>1, <3>1, <3>2, <3>5, <3>6
    <2>2. CASE held = Nothing /\ req[u].at = "release"
      BY <1>1, <1>3, <1>4, <2>2, IdleRow DEF ReadReserved, End
    <2>3. CASE held = Nothing /\ req[u].at = "consume"
      <3>1. Go(u, "snapshot")
        BY <1>1, <1>3, <1>4, <2>3 DEF ReadReserved
      <3>2. PICK row \in Request : req' = [req EXCEPT ![u] = row] /\ row.at = "snapshot" /\ row.what = req[u].what
        BY <3>1, GoRow DEF After
      <3> QED
        BY <1>1, <2>3, <3>2
    <2> QED
      BY <1>2, <2>1, <2>2, <2>3
  <1>6. row = Idle \/ (row.at \in After /\ row.what = o)
    <2>1. row = Idle \/ (row.at \in {"releasing", "consuming", "snapshot"} /\ row.what = o)
      BY <1>5
    <2> QED
      BY <2>1 DEF After
  <1>7. ASSUME by[o] = "board", Stocked(o), Pursuing(u, o)
        PROVE  /\ Stocked(o)'
               /\ row # Idle => Pursuing(u, o)'
               /\ row = Idle => order[o].status # "DELIVERED"
    <2>1. order[o].status = IF req[u].at = "release" THEN "CANCELLED" ELSE "DELIVERED"
      BY <1>2, <1>7 DEF Pursuing
    <2>2. Stocked(o)'
      BY <1>2, <1>7, <2>1 DEF Stocked
    <2>3. m.oldRes = 0 /\ m.oldRel = 0 /\ m.rel = 0
      BY <1>2, <1>3, <1>7 DEF Stocked, Pursuing
    <2>4. held.res = m.res /\ held.oldRes = 0 /\ (m.res = 0 => held = Nothing)
      BY <1>4, <2>3, ReservedIs
    <2>5. order[o].item = 1
      BY <1>7, <2>1, NoneIs DEF Stocked, Statuses
    <2>6. row # Idle => Pursuing(u, o)'
      <3> SUFFICES ASSUME row # Idle
                   PROVE  Pursuing(u, o)'
        OBVIOUS
      <3>1. req'[u] = row
        BY <1>5 DEF StockShapes
      <3>2. CASE /\ held # Nothing /\ row.item = order[o].item /\ row.held = held
                 /\ row.at = IF req[u].at = "release" THEN "releasing" ELSE "consuming"
        BY <1>2, <1>3, <1>7, <2>1, <2>3, <2>4, <2>5, <3>1, <3>2 DEF Pursuing
      <3>3. CASE held = Nothing /\ req[u].at = "consume" /\ row.at = "snapshot"
        BY <1>2, <1>7, <2>1, <3>1, <3>3 DEF Pursuing
      <3> QED
        BY <1>5, <3>2, <3>3
    <2>7. row = Idle => order[o].status # "DELIVERED"
      BY <1>2, <1>5, <2>1, IdleRow
    <2> QED
      BY <2>2, <2>6, <2>7
  <1>8. req[u].at \in After
    BY <1>2 DEF After
  <1>9. /\ died \subseteq died' /\ died' \subseteq Orders /\ moved' \in [Orders -> Movements] /\ snaps' \in [Orders -> Nat]
        /\ \A p \in Orders \ {o} : moved'[p] = moved[p] /\ snaps'[p] = snaps[p]
    BY <1>2 DEF StockShapes
  <1> QED
    BY <1>1, <1>2, <1>5, <1>6, <1>7, <1>8, <1>9, FollowKeeps

(* The movements of a release and of a consumption.                        *)
LEMMA ReleasedIs ==
  ASSUME NEW m \in Movements, NEW held \in Movements
  PROVE  /\ Released(m, held) \in Movements /\ Consumed(m, held) \in Movements
         /\ Released(m, held).rel = m.rel + held.res /\ Released(m, held).oldRel = m.oldRel + held.oldRes
         /\ Released(m, held).res = m.res /\ Released(m, held).oldRes = m.oldRes /\ Released(m, held).cons = m.cons
         /\ Consumed(m, held).rel = m.rel + held.res /\ Consumed(m, held).oldRel = m.oldRel + held.oldRes
         /\ Consumed(m, held).res = m.res /\ Consumed(m, held).oldRes = m.oldRes
         /\ Consumed(m, held).cons = m.cons + held.res + held.oldRes
  <1>1. /\ m.res \in Nat /\ m.rel \in Nat /\ m.oldRes \in Nat /\ m.oldRel \in Nat /\ m.cons \in Nat
        /\ held.res \in Nat /\ held.oldRes \in Nat
    BY DEF Movements
  <1>2. PICK a \in Nat : a = m.rel + held.res
    BY <1>1
  <1>3. PICK b \in Nat : b = m.oldRel + held.oldRes
    BY <1>1
  <1>4. PICK c \in Nat : c = m.cons + held.res + held.oldRes
    BY <1>1
  <1>5. Released(m, held) = [m EXCEPT !.rel = a, !.oldRel = b]
    BY <1>2, <1>3 DEF Released
  <1>6. Released(m, held) = [res |-> m.res, rel |-> a, oldRes |-> m.oldRes, oldRel |-> b, cons |-> m.cons]
    BY <1>5 DEF Movements
  <1>7. Consumed(m, held) = [res |-> m.res, rel |-> a, oldRes |-> m.oldRes, oldRel |-> b, cons |-> c]
    BY <1>4, <1>6 DEF Consumed
  <1>8. Released(m, held) \in Movements /\ Consumed(m, held) \in Movements
    BY <1>1, <1>6, <1>7 DEF Movements
  <1> QED
    BY <1>2, <1>3, <1>4, <1>6, <1>7, <1>8
LEMMA ReleaseKeeps ==
  ASSUME StockInv, NEW u \in Users, Release(u) \/ Consume(u)
  PROVE  StockShapes' /\ Boards'
  <1> USE DEF StockInv
  <1>1. PICK o \in Orders : o = req[u].what
    BY Pursued DEF Release, Consume, After
  <1>2. UNCHANGED <<order, snaps, lock, by, create, died>> /\ req[u].at \in {"releasing", "consuming"}
    BY DEF Release, Consume
  <1>3. PICK m \in Movements : m = moved[o]
    BY DEF StockShapes
  <1>4. PICK held \in Movements : held = req[u].held
    BY DEF StockShapes, Request
  <1>5. PICK n \in Movements : n = IF req[u].at = "releasing" THEN Released(m, held) ELSE Consumed(m, held)
    BY ReleasedIs
  <1>6. PICK exists \in BOOLEAN : exists = ItemExists(o, req[u].item, held)
    BY DEF ItemExists
  <1>7. moved' = IF exists THEN [moved EXCEPT ![o] = n] ELSE moved
    BY <1>1, <1>2, <1>3, <1>4, <1>5, <1>6 DEF Release, Consume
  <1>8. PICK row \in Request : /\ req' = [req EXCEPT ![u] = row]
                               /\ row = Idle \/ (req[u].at = "consuming" /\ row.at = "snapshot" /\ row.what = o)
                               /\ row = Idle /\ req[u].at = "consuming" => ~exists
    <2>1. CASE Release(u) \/ (Consume(u) /\ ~exists)
      BY <1>1, <1>4, <1>6, <2>1, IdleRow DEF Release, Consume, End
    <2>2. CASE Consume(u) /\ exists
      <3>1. Go(u, "snapshot")
        BY <1>1, <1>4, <1>6, <2>2 DEF Consume
      <3>2. PICK row \in Request : req' = [req EXCEPT ![u] = row] /\ row.at = "snapshot" /\ row.what = req[u].what
        BY <3>1, GoRow DEF After
      <3> QED
        BY <1>1, <2>2, <3>2, IdleRow DEF Consume
    <2> QED
      BY <2>1, <2>2
  <1>9. row = Idle \/ (row.at \in After /\ row.what = o)
    BY <1>8 DEF After
  <1>10. req[u].at \in After
    BY <1>2 DEF After
  <1>11. /\ died \subseteq died' /\ died' \subseteq Orders /\ moved' \in [Orders -> Movements] /\ snaps' \in [Orders -> Nat]
         /\ \A p \in Orders \ {o} : moved'[p] = moved[p] /\ snaps'[p] = snaps[p]
    BY <1>2, <1>7 DEF StockShapes
  <1>12. ASSUME by[o] = "board", Stocked(o), Pursuing(u, o)
         PROVE  /\ Stocked(o)'
                /\ row # Idle => Pursuing(u, o)'
                /\ row = Idle => order[o].status # "DELIVERED"
    <2>1. order[o].status = IF req[u].at = "releasing" THEN "CANCELLED" ELSE "DELIVERED"
      BY <1>2, <1>12 DEF Pursuing
    <2>2. order[o].item = 1 /\ req[u].item = 1
      BY <1>2, <1>12, <2>1, NoneIs DEF Stocked, Pursuing, Statuses
    <2>3. exists
      BY <1>6, <2>2 DEF ItemExists
    <2>4. /\ held.res = m.res /\ held.oldRes = 0 /\ m.res # 0 /\ m.rel = 0 /\ m.oldRes = 0 /\ m.oldRel = 0
          /\ m.res \in Nat /\ m.cons = 0
      BY <1>2, <1>3, <1>4, <1>12, <2>1 DEF Stocked, Pursuing, Movements
    <2>5. /\ n.res = m.res /\ n.rel = m.res /\ n.oldRes = 0 /\ n.oldRel = 0
          /\ n.cons = IF req[u].at = "releasing" THEN 0 ELSE m.res
      <3>1. CASE req[u].at = "releasing"
        BY <1>5, <2>4, <3>1, ReleasedIs
      <3>2. CASE req[u].at # "releasing"
        BY <1>5, <2>4, <3>2, ReleasedIs
      <3> QED
        BY <3>1, <3>2
    <2>6. moved'[o] = n
      BY <1>7, <2>3 DEF StockShapes
    <2>7. Stocked(o)'
      <3>1. order' = order /\ snaps' = snaps /\ create' = create /\ died' = died
        BY <1>2
      <3>2. order[o].status \in {"CANCELLED", "DELIVERED"}
        BY <2>1
      <3>3. n.cons = IF order[o].status = "DELIVERED" THEN n.rel ELSE 0
        BY <1>2, <2>1, <2>5
      <3>4. n.res = moved[o].res /\ n.rel \in {0, n.res} /\ n.oldRes = 0 /\ n.oldRel = 0
        BY <1>3, <2>5
      <3> QED
        BY <1>12, <2>6, <3>1, <3>2, <3>3, <3>4 DEF Stocked
    <2>8. row # Idle => Pursuing(u, o)'
      <3> SUFFICES ASSUME row # Idle
                   PROVE  Pursuing(u, o)'
        OBVIOUS
      <3>1. req'[u] = row /\ row.at = "snapshot" /\ req[u].at = "consuming"
        BY <1>8 DEF StockShapes
      <3> QED
        BY <1>2, <1>12, <2>1, <3>1 DEF Pursuing
    <2>9. row = Idle => order[o].status # "DELIVERED"
      BY <1>2, <1>8, <2>1, <2>3
    <2> QED
      BY <2>7, <2>8, <2>9
  <1> QED
    BY <1>1, <1>2, <1>8, <1>9, <1>10, <1>11, <1>12, FollowKeeps

LEMMA SnapshotKeeps ==
  ASSUME StockInv, NEW u \in Users, ReadSnapshots(u) \/ Snapshot(u)
  PROVE  StockShapes' /\ Boards'
  <1> USE DEF StockInv
  <1>1. PICK o \in Orders : o = req[u].what
    BY Pursued DEF ReadSnapshots, Snapshot, After
  <1>2. UNCHANGED <<order, moved, lock, by, create, died>> /\ req[u].at \in {"snapshot", "snapping"}
    BY DEF ReadSnapshots, Snapshot
  <1>3. CASE ReadSnapshots(u)
    <2>1. PICK row \in Request :
            /\ req' = [req EXCEPT ![u] = row]
            /\ \/ /\ snaps[o] = 0 /\ order[o].status = "DELIVERED"
                  /\ row.at = "snapping" /\ row.what = o /\ row.item = order[o].item
               \/ ~(snaps[o] = 0 /\ order[o].status = "DELIVERED") /\ row = Idle
      <3>1. CASE snaps[o] = 0 /\ order[o].status = "DELIVERED"
        <4>1. PICK old \in Request : old = req[u]
          BY DEF StockShapes
        <4>2. PICK row : row = [old EXCEPT !.at = "snapping", !.item = order[o].item]
          OBVIOUS
        <4>3. order[o].item \in Nat
          BY DEF StockShapes, Row
        <4>4. row \in Request /\ row.at = "snapping" /\ row.what = old.what /\ row.item = order[o].item
          BY <4>2, <4>3 DEF Request, After
        <4>5. req' = [req EXCEPT ![u] = row]
          BY <1>1, <1>3, <3>1, <4>1, <4>2 DEF ReadSnapshots, StockShapes
        <4> QED
          BY <1>1, <3>1, <4>1, <4>4, <4>5
      <3>2. CASE ~(snaps[o] = 0 /\ order[o].status = "DELIVERED")
        BY <1>1, <1>3, <3>2, IdleRow DEF ReadSnapshots, End
      <3> QED
        BY <3>1, <3>2
    <2>2. snaps' = snaps /\ req[u].at = "snapshot"
      BY <1>3 DEF ReadSnapshots
    <2>3. ASSUME by[o] = "board", Stocked(o), Pursuing(u, o)
          PROVE  /\ Stocked(o)'
                 /\ row # Idle => Pursuing(u, o)'
                 /\ row # Idle
      <3>1. order[o].status = "DELIVERED" /\ snaps[o] = 0
        BY <2>2, <2>3 DEF Pursuing
      <3>2. Stocked(o)'
        BY <1>2, <2>2, <2>3, <3>1 DEF Stocked
      <3>3. row.at = "snapping" /\ row.item = order[o].item /\ req'[u] = row
        BY <2>1, <3>1 DEF StockShapes
      <3>4. order[o].item = 1
        BY <2>3, <3>1, NoneIs DEF Stocked, Statuses
      <3>5. Pursuing(u, o)'
        BY <1>2, <2>2, <3>1, <3>3, <3>4 DEF Pursuing
      <3>6. row # Idle
        BY <3>3, IdleRow
      <3> QED
        BY <3>2, <3>5, <3>6
    <2>4. row = Idle \/ (row.at \in After /\ row.what = o)
      BY <2>1 DEF After
    <2>5. req[u].at \in After
      BY <1>2 DEF After
    <2>6. /\ died \subseteq died' /\ died' \subseteq Orders /\ moved' \in [Orders -> Movements] /\ snaps' \in [Orders -> Nat]
          /\ \A p \in Orders \ {o} : moved'[p] = moved[p] /\ snaps'[p] = snaps[p]
      BY <1>2, <2>2 DEF StockShapes
    <2> QED
      BY <1>1, <1>2, <2>1, <2>3, <2>4, <2>5, <2>6, FollowKeeps
  <1>4. CASE Snapshot(u)
    <2>1. req' = [req EXCEPT ![u] = Idle] /\ req[u].at = "snapping"
      BY <1>4 DEF Snapshot, End
    <2>2. snaps' = IF order[o].item = req[u].item THEN [snaps EXCEPT ![o] = snaps[o] + 1] ELSE snaps
      BY <1>1, <1>4 DEF Snapshot
    <2>3. ASSUME by[o] = "board", Stocked(o), Pursuing(u, o)
          PROVE  Stocked(o)' /\ snaps'[o] = 1
      <3>1. order[o].status = "DELIVERED" /\ snaps[o] = 0 /\ req[u].item = 1
        BY <2>1, <2>3 DEF Pursuing
      <3>2. order[o].item = 1
        BY <2>3, <3>1, NoneIs DEF Stocked, Statuses
      <3>3. snaps'[o] = 1
        BY <2>2, <3>1, <3>2 DEF StockShapes
      <3>4. Stocked(o)'
        BY <1>2, <2>3, <3>1, <3>3 DEF Stocked
      <3> QED
        BY <3>3, <3>4
    <2>4. req[u].at \in After /\ Idle \in Request
      BY <1>2, IdleRow DEF After
    <2>5. /\ died \subseteq died' /\ died' \subseteq Orders /\ moved' \in [Orders -> Movements]
          /\ \A p \in Orders \ {o} : moved'[p] = moved[p] /\ snaps'[p] = snaps[p]
      BY <1>2, <2>2 DEF StockShapes
    <2>6. snaps' \in [Orders -> Nat]
      BY <2>2 DEF StockShapes
    <2> QED
      BY <1>1, <1>2, <2>1, <2>3, <2>4, <2>5, <2>6, FollowKeeps
  <1> QED
    BY <1>3, <1>4
(* The lock of an order is given back when its maintenance ends.           *)
LEMMA Unlocks ==
  ASSUME StockShapes, NEW u \in Users, NEW o \in Orders, o = req[u].what, req' = [req EXCEPT ![u] = Idle],
         lock' = [lock EXCEPT ![o] = None] \/ lock' = [lock EXCEPT ![o] = IF lock[o] = u THEN None ELSE lock[o]],
         by' = by
  PROVE  /\ lock' \in [Orders -> Users \cup {None}] /\ Locks'
         /\ req' \in [Users -> Request] /\ \A v \in Users : Asking(v)'
  <1>1. req'[u] = Idle /\ \A v \in Users \ {u} : req'[v] = req[v]
    BY DEF StockShapes
  <1>2. lock' \in [Orders -> Users \cup {None}]
    BY DEF StockShapes
  <1>3. \A v \in Users : Asking(v)'
    BY <1>1, IdleRow DEF StockShapes, Asking
  <1>4. Locks'
    <2> SUFFICES ASSUME NEW p \in Orders, lock'[p] # None
                 PROVE  req'[lock'[p]].at \in {"edit", "remove"} /\ req'[lock'[p]].what = p
      BY DEF Locks
    <2>1. lock'[p] = lock[p] /\ (p = o => lock[p] # u)
      BY DEF StockShapes
    <2>2. lock[p] \in Users /\ req[lock[p]].at \in {"edit", "remove"} /\ req[lock[p]].what = p
      BY <2>1 DEF StockShapes, Locks
    <2>3. lock[p] # u
      BY <2>1, <2>2
    <2> QED
      BY <1>1, <2>1, <2>2, <2>3
  <1>5. req' \in [Users -> Request]
    BY IdleRow DEF StockShapes
  <1> QED
    BY <1>2, <1>3, <1>4, <1>5

(* Corrections and deletions happen to orders of the desk.                 *)
LEMMA MaintenanceKeeps ==
  ASSUME StockInv, NEW u \in Users, Edit(u) \/ Remove(u)
  PROVE  StockShapes' /\ Boards'
  <1> USE DEF StockInv
  <1>1. PICK o \in Orders : o = req[u].what
    BY DEF Edit, Remove, StockShapes, Asking
  <1>2. /\ req' = [req EXCEPT ![u] = Idle] /\ lock' = [lock EXCEPT ![o] = None] /\ UNCHANGED <<by, create, died>>
        /\ req[u].at \in {"edit", "remove"} /\ by[o] = "desk"
    BY <1>1 DEF Edit, Remove, End, StockShapes, Asking
  <1>3. order' \in [Orders -> Row]
    <2>1. Next
      BY DEF Next
    <2> QED
      BY <2>1, StepEffects DEF IInv, Effects, Typed
  <1>4. PICK m \in Movements : m = moved[o]
    BY DEF StockShapes
  <1>5. PICK held \in Movements : held = req[u].held
    BY DEF StockShapes, Request
  <1>6. /\ m.res \in Nat /\ m.rel \in Nat /\ m.oldRes \in Nat /\ m.oldRel \in Nat /\ m.cons \in Nat /\ held.oldRes \in Nat
    BY DEF Movements
  <1>7. PICK n : n = Neutralized(m, held)
    OBVIOUS
  <1>8. n \in Movements
    <2>1. n = [res |-> m.res, rel |-> m.rel, oldRes |-> m.oldRes, oldRel |-> m.oldRel + held.oldRes, cons |-> m.cons]
      BY <1>7 DEF Neutralized, Movements
    <2>2. m.oldRel + held.oldRes \in Nat
      BY <1>6
    <2> QED
      BY <1>6, <2>1, <2>2 DEF Movements
  <1>9. /\ moved' \in [Orders -> Movements] /\ snaps' \in [Orders -> Nat]
        /\ \A p \in Orders \ {o} : order'[p] = order[p] /\ moved'[p] = moved[p] /\ snaps'[p] = snaps[p]
    <2>1. CASE Edit(u)
      <3>1. PICK k \in 1..MaxNeed, d \in BOOLEAN :
              /\ order' = [order EXCEPT ![o].item = order[o].item + 1, ![o].need = k, ![o].delivery = d]
              /\ moved' = [moved EXCEPT ![o] = Applied(WithoutItem(n), order[o].status, k)]
        BY <1>1, <1>4, <1>5, <1>7, <2>1 DEF Edit
      <3>2. k \in Nat
        BY ParametersAssumption
      <3>3. PICK w : w = WithoutItem(n)
        OBVIOUS
      <3>4. w \in Movements
        <4>1. w = [res |-> 0, rel |-> 0, oldRes |-> n.oldRes + n.res, oldRel |-> n.oldRel + n.rel, cons |-> n.cons]
          BY <1>8, <3>3 DEF WithoutItem, Movements
        <4>2. n.oldRes + n.res \in Nat /\ n.oldRel + n.rel \in Nat /\ n.cons \in Nat
          BY <1>8 DEF Movements
        <4> QED
          BY <4>1, <4>2 DEF Movements
      <3>5. Applied(w, order[o].status, k) \in Movements
        <4>1. PICK a \in Nat : a = w.res + (IF order[o].status \in {"PENDING", "PREPARING", "SHIPPED"} THEN k ELSE 0)
          BY <3>2, <3>4 DEF Movements
        <4>2. PICK b \in Nat : b = w.cons + (IF order[o].status = "DELIVERED" THEN k ELSE 0)
          BY <3>2, <3>4 DEF Movements
        <4>3. Applied(w, order[o].status, k) = [w EXCEPT !.res = a, !.cons = b]
          BY <4>1, <4>2 DEF Applied
        <4> QED
          BY <3>4, <4>3 DEF Movements
      <3>6. snaps' \in [Orders -> Nat] /\ \A p \in Orders \ {o} : snaps'[p] = snaps[p]
        BY <1>1, <2>1 DEF Edit, StockShapes
      <3> QED
        BY <3>1, <3>3, <3>5, <3>6 DEF StockShapes
    <2>2. CASE Remove(u)
      <3>1. /\ moved' = [moved EXCEPT ![o] = n] /\ snaps' = [snaps EXCEPT ![o] = 0]
            /\ order' = [order EXCEPT ![o].deleted = TRUE]
        BY <1>1, <1>4, <1>5, <1>7, <2>2 DEF Remove
      <3> QED
        BY <1>8, <3>1 DEF StockShapes
    <2> QED
      BY <2>1, <2>2
  <1>10. /\ lock' \in [Orders -> Users \cup {None}] /\ Locks'
         /\ req' \in [Users -> Request] /\ \A v \in Users : Asking(v)'
    BY <1>1, <1>2, Unlocks
  <1>11. StockShapes'
    BY <1>2, <1>3, <1>9, <1>10 DEF StockShapes
  <1>12. \A v \in Users : \/ req'[v] = req[v]
                          \/ /\ req[v].what = o \/ req[v].at \notin After
                             /\ req'[v].what = o \/ req'[v].at \notin After
    BY <1>1, <1>2, IdleRow DEF StockShapes, After
  <1>13. by[o] # "board"
    BY <1>2
  <1>14. Boards'
    BY <1>2, <1>9, <1>12, <1>13, OneOrder
  <1> QED
    BY <1>11, <1>14

(* A request that dies leaves its order to nobody, and is remembered.      *)
LEMMA DeathKeeps ==
  ASSUME StockInv, NEW u \in Users, Die(u)
  PROVE  StockShapes' /\ Boards'
  <1> USE DEF StockInv
  <1>1. PICK o \in Orders : o = req[u].what
    BY DEF Die, StockShapes, Asking
  <1>2. /\ UNCHANGED <<order, moved, snaps, by, create>> /\ req' = [req EXCEPT ![u] = Idle]
        /\ lock' = [lock EXCEPT ![o] = IF lock[o] = u THEN None ELSE lock[o]] /\ died' = died \cup {o}
    BY <1>1 DEF Die, End
  <1>3. /\ lock' \in [Orders -> Users \cup {None}] /\ Locks'
        /\ req' \in [Users -> Request] /\ \A v \in Users : Asking(v)'
    BY <1>1, <1>2, Unlocks
  <1>4. StockShapes'
    BY <1>2, <1>3 DEF StockShapes
  <1>5. \A v \in Users : \/ req'[v] = req[v]
                         \/ /\ req[v].what = o \/ req[v].at \notin After
                            /\ req'[v].what = o \/ req'[v].at \notin After
    BY <1>1, <1>2, IdleRow DEF StockShapes, After
  <1>6. ASSUME by[o] = "board"
        PROVE  Stocked(o)' /\ Followed(o)'
    <2>1. Stocked(o) /\ Followed(o)
      BY <1>6 DEF Boards
    <2>2. \A v \in Following(o)' : v \in Following(o) /\ req'[v] = req[v]
      BY <1>2, IdleRow DEF StockShapes, Following, After
    <2>3. Stocked(o)'
      BY <1>2, <2>1, <2>2 DEF Stocked
    <2>4. \A v \in Following(o)' : Pursuing(v, o)'
      BY <1>2, <2>1, <2>2 DEF Followed, Pursuing
    <2>5. Followed(o)'
      BY <1>2, <2>1, <2>2, <2>4 DEF Followed
    <2> QED
      BY <2>3, <2>5
  <1>7. died \subseteq died' /\ \A p \in Orders \ {o} : /\ order'[p] = order[p] /\ moved'[p] = moved[p]
                                                        /\ snaps'[p] = snaps[p] /\ create'[p] = create[p]
    BY <1>2
  <1>8. Boards'
    BY <1>2, <1>5, <1>6, <1>7, OneOrder
  <1> QED
    BY <1>4, <1>8

LEMMA StockStep == StockInv /\ [Next]_stockVars => StockInv'
  <1> SUFFICES ASSUME StockInv, [Next]_stockVars
               PROVE  StockInv'
    OBVIOUS
  <1>1. IInv'
    BY Inductive DEF StockInv
  <1>2. CASE UNCHANGED stockVars
    <2> USE <1>2 DEF stockVars, StockInv
    <2>1. StockShapes'
      BY DEF StockShapes, Asking, Locks
    <2>2. Boards'
      BY NoOrder
    <2> QED
      BY <1>1, <2>1, <2>2
  <1>3. CASE Next
    <2>1. StockShapes' /\ Boards'
      BY <1>3, CreationKeeps, CommandBegins, FinishKeeps, ReadReservedKeeps, ReleaseKeeps, SnapshotKeeps,
         MaintenanceKeeps, DeathKeeps DEF Next
    <2> QED
      BY <1>1, <2>1 DEF StockInv
  <1> QED
    BY <1>2, <1>3

LEMMA StockIsSafe == StockInv => StockSafe
  <1> SUFFICES ASSUME StockInv
               PROVE  StockSafe
    OBVIOUS
  <1> USE DEF StockInv
  <1>1. TypeOK
    BY DEF TypeOK, StockShapes, Row, Request, Locks
  <1>2. ASSUME NEW o \in Orders, by[o] = "board"
        PROVE  /\ Stocked(o) /\ Followed(o)
               /\ moved[o].res \in Nat /\ moved[o].rel \in {0, moved[o].res} /\ moved[o].cons \in Nat
               /\ moved[o].oldRes = 0 /\ moved[o].oldRel = 0 /\ order[o].need \in Nat
    BY <1>2 DEF Boards, Stocked, StockShapes, Movements, Row
  <1>3. NoOverRelease
    BY <1>2 DEF NoOverRelease, Net
  <1>4. StockMatchesOrder
    <2> SUFFICES ASSUME NEW o \in Orders, by[o] = "board", Resting(o), o \notin died
                 PROVE  IF order[o].status = "CANCELLED" THEN Net(moved[o]) \in {0, order[o].need}
                                                         ELSE Net(moved[o]) = order[o].need
      BY DEF StockMatchesOrder
    <2>1. moved[o].res = order[o].need
      BY <1>2 DEF Resting, Stocked
    <2>2. CASE order[o].status = "DELIVERED"
      <3>1. moved[o].cons = moved[o].rel
        BY <1>2, <2>2 DEF Stocked
      <3> QED
        BY <1>2, <2>1, <2>2, <3>1 DEF Net
    <2>3. CASE order[o].status = "CANCELLED"
      <3>1. moved[o].cons = 0
        BY <1>2, <2>3 DEF Stocked
      <3> QED
        BY <1>2, <2>1, <2>3, <3>1 DEF Net
    <2>4. CASE order[o].status \notin {"DELIVERED", "CANCELLED"}
      <3>1. moved[o].cons = 0 /\ moved[o].rel = 0
        BY <1>2, <2>4 DEF Stocked
      <3> QED
        BY <1>2, <2>1, <2>4, <3>1 DEF Net
    <2> QED
      BY <2>2, <2>3, <2>4
  <1>5. SnapshotOnce
    <2> SUFFICES ASSUME NEW o \in Orders, by[o] = "board"
                 PROVE  /\ snaps[o] <= IF order[o].status = "DELIVERED" THEN 1 ELSE 0
                        /\ order[o].status = "DELIVERED" /\ Resting(o) /\ o \notin died => snaps[o] = 1
      BY DEF SnapshotOnce
    <2>1. Stocked(o) /\ Followed(o)
      BY <1>2
    <2>2. Resting(o) => Following(o) = {}
      BY DEF Resting, Following
    <2>3. snaps[o] <= IF order[o].status = "DELIVERED" THEN 1 ELSE 0
      BY <2>1 DEF Stocked
    <2>4. order[o].status = "DELIVERED" /\ Resting(o) /\ o \notin died => snaps[o] = 1
      BY <2>1, <2>2 DEF Followed
    <2> QED
      BY <2>3, <2>4
  <1> QED
    BY <1>1, <1>3, <1>4, <1>5 DEF StockSafe

(* OrderingService and OrderProfitabilityService for an order commanded    *)
(* from the board: whatever requests overlap or die, its reservation is    *)
(* given back or consumed once at most, at rest stock is what the order    *)
(* says, and a delivery leaves one set of snapshots.                       *)
THEOREM StockCorrect == Spec => []StockSafe
  BY StockStarts, StockStep, StockIsSafe, PTL DEF Spec
=================================================================================
