------------------------------- MODULE StoreSetup -------------------------------
(***************************************************************************)
(* What makes up a store: how it looks (StoreBrandingService), by which    *)
(* codes a platform knows its products (CatalogService), its address and   *)
(* links, its creation with an owner (PlatformStoreService), and the       *)
(* administrators of the platform (PlatformUserService).  Each command is  *)
(* a few statements without a transaction: others run in between, a unique *)
(* index may refuse the last one, or the process ends before it.           *)
(*                                                                         *)
(* The five share nothing, so a behavior is about one of them.             *)
(***************************************************************************)
EXTENDS Naturals, FiniteSets

CONSTANTS
  Desks,     \* requests in progress at one time
  Requests,  \* bound: requests in all
  Looks,     \* visual configurations: also the bound on how many are created
  Products,
  Codes,     \* external product ids of one provider
  Stores,    \* stores that may be created; all with the one address of one owner
  Admins,    \* platform users, SUPER_ADMIN at first
  Nobody

Subjects == {"look", "code", "profile", "store", "admin"}
Fields   == {"address", "links"}

ASSUME SetupAssumption ==
  /\ Requests \in Nat /\ Admins # {} /\ IsFiniteSet(Admins) /\ Products \cap Fields = {}
  /\ Nobody \notin Looks \cup Products \cup Codes \cup Stores \cup Admins

VARIABLES
  subject,   \* what the requests of this behavior are about
  desk,      \* [Desks -> [at, on, to, saw]]
  requests,  \* requests begun
  clock,     \* writes so far
  look,      \* [Looks -> [status, content, updated, published]]
  code,      \* [Products -> Codes \cup {Nobody}]: unique both ways
  profile,   \* [Fields -> Nat]
  store,     \* [Stores -> {"none", "alone", "owned"}]
  admins,    \* the active SUPER_ADMINs
  asked,     \* history: the last change of a code or a field that was answered
  mixed      \* history: what was cut, refused, or changed by two requests at once

setupVars == <<subject, desk, requests, clock, look, code, profile, store, admins, asked, mixed>>

NoRequest == [at |-> "idle", on |-> Nobody, to |-> Nobody, saw |-> Nobody]
NoLook    == [status |-> "none", content |-> 0, updated |-> 0, published |-> 0]

SetupInit ==
  /\ subject \in Subjects
  /\ desk = [d \in Desks |-> NoRequest] /\ requests = 0 /\ clock = 0
  /\ look = [l \in Looks |-> NoLook]
  /\ code = [p \in Products |-> Nobody]
  /\ profile = [f \in Fields |-> 0]
  /\ store = [s \in Stores |-> "none"]
  /\ admins = Admins
  /\ asked = [x \in Products \cup Fields |-> IF x \in Products THEN Nobody ELSE 0]
  /\ mixed = {}

DeskAt(d, at) == desk[d].at = at
Take(d, request) ==
  /\ desk[d] = NoRequest /\ requests < Requests /\ requests' = requests + 1
  /\ desk' = [desk EXCEPT ![d] = request]
Proceeds(d, at) == desk' = [desk EXCEPT ![d].at = at]
Ticks         == clock' = clock + 1
Answer(d)     == desk' = [desk EXCEPT ![d] = NoRequest]
Others(d)     == {desk[e].on : e \in {e \in Desks \ {d} : desk[e] # NoRequest}}

----------------------------------------------------------------------------
(* StoreBrandingService: saveDraft, publishDraft, restorePrevious.         *)

LooksThatAre(status) == {l \in Looks : look[l].status = status}
Newest(set) == CHOOSE l \in set : \A m \in set : look[m].updated <= look[l].updated
LastPublished(set) == CHOOSE l \in set : \A m \in set : look[m].published <= look[l].published

SaveReadMut(d) ==
  LET drafts == LooksThatAre("DRAFT") \cup LooksThatAre("PUBLISHED") IN
  /\ Take(d, [NoRequest EXCEPT !.at = "save", !.on = IF drafts = {} THEN Nobody ELSE Newest(drafts)])
  /\ UNCHANGED <<clock, look, mixed>>

SaveRead(d) ==
  LET drafts == LooksThatAre("DRAFT") IN
  /\ Take(d, [NoRequest EXCEPT !.at = "save", !.on = IF drafts = {} THEN Nobody ELSE Newest(drafts)])
  /\ UNCHANGED <<clock, look, mixed>>

\* The draft that was read is updated by its id, whatever it has become.
SaveWrite(d) ==
  /\ DeskAt(d, "save") /\ Answer(d) /\ Ticks
  /\ IF desk[d].on # Nobody
     THEN look' = [look EXCEPT ![desk[d].on].content = clock', ![desk[d].on].updated = clock']
     ELSE \E l \in LooksThatAre("none") :
            look' = [look EXCEPT ![l] = [NoLook EXCEPT !.status = "DRAFT", !.content = clock', !.updated = clock']]
  /\ UNCHANGED <<requests, mixed>>

PublishRead(d) ==
  /\ LooksThatAre("DRAFT") # {}
  /\ Take(d, [NoRequest EXCEPT !.at = "archive", !.on = Newest(LooksThatAre("DRAFT"))])
  /\ UNCHANGED <<clock, look, mixed>>

RestoreRead(d) ==
  /\ LooksThatAre("ARCHIVED") # {}
  /\ Take(d, [NoRequest EXCEPT !.at = "archive", !.on = LastPublished(LooksThatAre("ARCHIVED"))])
  /\ UNCHANGED <<clock, look, mixed>>

Archive(d) ==
  /\ DeskAt(d, "archive") /\ Proceeds(d, "publish") /\ Ticks
  /\ look' = [l \in Looks |-> IF look[l].status = "PUBLISHED"
                              THEN [look[l] EXCEPT !.status = "ARCHIVED", !.updated = clock'] ELSE look[l]]
  /\ UNCHANGED <<requests, mixed>>

\* A unique index lets one configuration of a store be published; a save that
\* had read this one as a draft will change what is published.
Publish(d) ==
  LET l == desk[d].on IN
  /\ DeskAt(d, "publish") /\ Answer(d) /\ Ticks
  /\ IF l # Nobody /\ LooksThatAre("PUBLISHED") \subseteq {l}
     THEN look' = [look EXCEPT ![l].status = "PUBLISHED", ![l].updated = clock', ![l].published = clock']
     ELSE look' = look
  /\ mixed' = mixed \cup (IF \E e \in Desks : DeskAt(e, "save") /\ desk[e].on = l THEN {l} ELSE {})
  /\ UNCHANGED requests

----------------------------------------------------------------------------
(* CatalogService.updateProduct: replaceExternalMappings.                  *)

MapRead(d, p, c) ==
  /\ Take(d, [NoRequest EXCEPT !.at = "unmap", !.on = p, !.to = c])
  /\ mixed' = mixed \cup ({p} \cap Others(d))
  /\ UNCHANGED <<code, asked>>

UnmapMut(d) ==
  /\ DeskAt(d, "unmap") /\ Proceeds(d, "map")
  /\ code' = [p \in Products |-> Nobody]
  /\ UNCHANGED <<requests, asked, mixed>>

Unmap(d) ==
  /\ DeskAt(d, "unmap") /\ Proceeds(d, "map")
  /\ code' = [code EXCEPT ![desk[d].on] = Nobody]
  /\ UNCHANGED <<requests, asked, mixed>>

\* createMany, refused by the unique indexes when the code or the product has a mapping.
Map(d) ==
  LET p == desk[d].on
      c == desk[d].to
  IN
  /\ DeskAt(d, "map") /\ Answer(d)
  /\ IF c = Nobody \/ (code[p] = Nobody /\ \A q \in Products : code[q] # c)
     THEN /\ code' = IF c = Nobody THEN code ELSE [code EXCEPT ![p] = c]
          /\ asked' = [asked EXCEPT ![p] = c]
          /\ mixed' = IF p \in Others(d) THEN mixed \cup {p} ELSE mixed
     ELSE UNCHANGED <<code, asked>> /\ mixed' = mixed \cup {p}
  /\ UNCHANGED requests

----------------------------------------------------------------------------
(* PlatformStoreService.update: address and links are one JSON column.     *)

ProfileRead(d, f) ==
  /\ Take(d, [NoRequest EXCEPT !.at = "profile", !.on = f, !.saw = profile])
  /\ mixed' = mixed \cup (IF Others(d) # {} THEN Fields ELSE {})
  /\ UNCHANGED <<clock, profile, asked>>

\* mergeStoreProfile: the field that is not sent keeps the value that was read.
MergeStoreProfile(saw, f, value) == [saw EXCEPT ![f] = value]

ProfileWrite(d) ==
  /\ DeskAt(d, "profile") /\ Answer(d) /\ Ticks
  /\ profile' = MergeStoreProfile(desk[d].saw, desk[d].on, clock')
  /\ asked' = [asked EXCEPT ![desk[d].on] = clock']
  /\ UNCHANGED <<requests, mixed>>

----------------------------------------------------------------------------
(* PlatformStoreService.create: the store, then its owner.                 *)

\* assertSlugAvailable, assertOwnerEmailAvailable: one address, one account.
AssertOwnerEmailAvailable(s) == store[s] = "none" /\ \A q \in Stores : store[q] # "owned"

CreateRead(d, s) ==
  /\ AssertOwnerEmailAvailable(s)
  /\ Take(d, [NoRequest EXCEPT !.at = "create", !.on = s])
  /\ mixed' = mixed \cup (IF Others(d) # {} THEN Stores ELSE {})
  /\ UNCHANGED store

CreateTenant(d) ==
  LET s == desk[d].on IN
  /\ DeskAt(d, "create")
  /\ IF store[s] = "none" THEN store' = [store EXCEPT ![s] = "alone"] /\ Proceeds(d, "owner")
     ELSE store' = store /\ Answer(d)
  /\ UNCHANGED <<requests, mixed>>

CreateOwner(d) ==
  /\ DeskAt(d, "owner") /\ Answer(d)
  /\ store' = IF \A q \in Stores : store[q] # "owned" THEN [store EXCEPT ![desk[d].on] = "owned"] ELSE store
  /\ UNCHANGED <<requests, mixed>>

----------------------------------------------------------------------------
(* PlatformUserService.update.  The guard trusts the token: its bearer may *)
(* have been deactivated since.                                            *)

\* assertUpdateKeepsAdministrationAvailable
CountAdmins(d, a) ==
  /\ a \in admins => Cardinality(admins \ {a}) > 0
  /\ Take(d, [NoRequest EXCEPT !.at = "lower", !.on = a])
  /\ mixed' = mixed \cup (IF Others(d) # {} THEN Admins ELSE {})
  /\ UNCHANGED admins

LowerAdmin(d) ==
  /\ DeskAt(d, "lower") /\ Answer(d)
  /\ admins' = admins \ {desk[d].on}
  /\ UNCHANGED <<requests, mixed>>

RaiseAdmin(d, a) ==
  /\ Take(d, NoRequest) /\ admins' = admins \cup {a}
  /\ UNCHANGED mixed

----------------------------------------------------------------------------
(* The end of the process, or of the connection to the database.           *)

Cut(d) ==
  /\ desk[d] # NoRequest /\ Answer(d)
  /\ mixed' = mixed \cup (CASE subject = "look"  -> IF DeskAt(d, "publish") THEN Looks ELSE {}
                            [] subject = "code"  -> IF DeskAt(d, "map") THEN {desk[d].on} ELSE {}
                            [] subject = "store" -> IF DeskAt(d, "owner") THEN {desk[d].on} ELSE {}
                            [] OTHER             -> {})
  /\ UNCHANGED <<requests, clock, look, code, profile, store, admins, asked>>

SetupNext ==
  /\ UNCHANGED subject
  /\ \/ /\ subject = "look" /\ UNCHANGED <<code, profile, store, admins, asked>>
        /\ \E d \in Desks : \/ SaveRead(d) \/ SaveWrite(d) \/ PublishRead(d) \/ RestoreRead(d)
                            \/ Archive(d) \/ Publish(d)
     \/ /\ subject = "code" /\ UNCHANGED <<clock, look, profile, store, admins>>
        /\ \E d \in Desks : \/ Unmap(d) \/ Map(d)
                            \/ \E p \in Products, c \in Codes \cup {Nobody} : MapRead(d, p, c)
     \/ /\ subject = "profile" /\ UNCHANGED <<look, code, store, admins>>
        /\ \E d \in Desks : ProfileWrite(d) \/ \E f \in Fields : ProfileRead(d, f)
     \/ /\ subject = "store" /\ UNCHANGED <<clock, look, code, profile, admins, asked>>
        /\ \E d \in Desks : CreateTenant(d) \/ CreateOwner(d) \/ \E s \in Stores : CreateRead(d, s)
     \/ /\ subject = "admin" /\ UNCHANGED <<clock, look, code, profile, store, asked>>
        /\ \E d \in Desks : LowerAdmin(d) \/ \E a \in Admins : CountAdmins(d, a) \/ RaiseAdmin(d, a)
     \/ \E d \in Desks : Cut(d)

SetupSpec == SetupInit /\ [][SetupNext]_setupVars

----------------------------------------------------------------------------
SetupTypeOK ==
  /\ subject \in Subjects /\ requests \in 0..Requests /\ clock \in 0..2 * Requests
  /\ \A l \in Looks : look[l].status \in {"none", "DRAFT", "PUBLISHED", "ARCHIVED"} /\ look[l].content \in 0..clock
  /\ code \in [Products -> Codes \cup {Nobody}] /\ profile \in [Fields -> 0..clock]
  /\ store \in [Stores -> {"none", "alone", "owned"}] /\ admins \subseteq Admins
  /\ \A d \in Desks : desk[d].at \in {"idle", "save", "archive", "publish", "unmap", "map", "profile", "create", "owner", "lower"}

(* A store that has published its look shows one, unless a publication is  *)
(* between archiving the old and publishing the new, or was cut there.     *)
StaysPublished ==
  (\E l \in Looks : look[l].published > 0) /\ mixed # Looks =>
    \/ Cardinality(LooksThatAre("PUBLISHED")) = 1
    \/ \E d \in Desks : DeskAt(d, "publish")

(* What is published changes by a publication only; a save of the draft    *)
(* does not reach it, unless it read the draft before that was published.  *)
DraftsApart ==
  [][\A l \in Looks \ mixed :
       look[l].status = "PUBLISHED" /\ look'[l].status = "PUBLISHED" => look'[l].content = look[l].content]_setupVars

(* A product has the code that was last asked for it, and no change of     *)
(* another product takes it away, unless a replacement of its own was cut, *)
(* refused after it had deleted, or met another.                           *)
CodeKept ==
  \A p \in Products \ mixed : code[p] = asked[p] \/ \E d \in Desks : DeskAt(d, "map") /\ desk[d].on = p

(* Address and links each keep their last change, unless two patches of    *)
(* the store were in progress at once: each writes both.                   *)
ProfileKept == mixed = {} => \A f \in Fields : profile[f] = asked[f]

(* A store has an owner, unless its creation is on its way, was cut, or    *)
(* met another for the same owner: it holds its slug without one then.     *)
StoreHasOwner ==
  \A s \in Stores \ mixed : store[s] = "alone" => \E d \in Desks : DeskAt(d, "owner") /\ desk[d].on = s

(* The platform keeps an administrator, whoever bears an old token, unless *)
(* two changes were in progress at once: each may have counted the other.  *)
AdminRemains == mixed = {} /\ subject = "admin" => admins # {}

(* What a store is set up with is what was last asked for.                 *)
SetupSafe == SetupTypeOK /\ StaysPublished /\ CodeKept /\ ProfileKept /\ StoreHasOwner /\ AdminRemains
================================================================================
