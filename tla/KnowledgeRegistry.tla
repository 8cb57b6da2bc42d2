--------------------------- MODULE KnowledgeRegistry ---------------------------
(***************************************************************************)
(* The registry of knowledge sources and wiki authorities:                 *)
(* KnowledgeRegistryStore (src/src/knowledge-registry.ts) and the tools    *)
(* register_knowledge_source and register_wiki_authority that call it      *)
(* (src/src/kernel.ts).                                                    *)
(*                                                                         *)
(* Calls run concurrently.  Each first takes a snapshot of the registry,   *)
(* from which it works out the documents its caller has access to, and     *)
(* then appends a mutation to a promise chain.  A mutation reads the file, *)
(* computes the new registry and puts it.  A put takes effect before it is *)
(* answered or never; when the plugin is restarted it may take effect at   *)
(* any later time.                                                         *)
(*                                                                         *)
(* A source is a record under its sourceId; an authority, a wiki page, is  *)
(* the set of its sourceIds and its source container, under its document.  *)
(* Titles, paths, aliases, types and times are left out.  Where the code   *)
(* takes the first record with a hash or a URL, the model takes any; where *)
(* it looks for pages of the same name, any page may be one.               *)
(***************************************************************************)
EXTENDS Naturals, Sequences

CONSTANTS
  SourceIds, Documents,
  Keys,             \* hashes and URLs, "none" among them
  Sources,          \* the calls of register_knowledge_source
  Authorities,      \* the calls of register_wiki_authority
  SourceInputs,     \* what a source may be registered with: [id, doc, hash, url, state, relinks, links]
  AuthorityInputs,  \* what an authority may be registered with: [doc, relinks, sources, container]
  InitialFiles,     \* what the registry file may hold at first
  Boundaries,       \* the sets of documents the caller may have access to
  ReadsFail,        \* whether reading an existing file may fail
  MaxRestarts,      \* bound: restarts of the plugin
  MaxChanges        \* bound: changes of the access boundary

Call == Sources \cup Authorities

(* SOURCE_STATES: of the five, the two that the code tells apart. *)
States == {"registered", "ingested"}

Ids(reg) == DOMAIN reg.sources
Pages(reg) == DOMAIN reg.authorities
SourceDocs(reg) == {reg.sources[s].doc : s \in Ids(reg)}

(* KnowledgeSourceRecord, KnowledgeRegistry *)
Record == [doc : Documents, hash : Keys, url : Keys, state : States, links : SUBSET Documents]

IsRegistry(reg) ==
  /\ reg \in [schema : {"current", "future"}, revision : Nat,
             sources : {reg.sources}, authorities : {reg.authorities}, containers : {reg.containers}]
  /\ Ids(reg) \subseteq SourceIds /\ reg.sources \in [Ids(reg) -> Record]
  /\ Pages(reg) \subseteq Documents /\ reg.authorities \in [Pages(reg) -> SUBSET SourceIds]
  /\ reg.containers \in [Pages(reg) -> Documents \cup {"none"}]

(* A page names a source exactly if the source names the page. *)
LinksAgreeIn(reg) ==
  /\ \A s \in Ids(reg) : \A a \in reg.sources[s].links : a \in Pages(reg) /\ s \in reg.authorities[a]
  /\ \A a \in Pages(reg) : \A s \in reg.authorities[a] : s \in Ids(reg) /\ a \in reg.sources[s].links

(* A document is one source, or a page, or neither. *)
OneRoleIn(reg) ==
  /\ \A s, t \in Ids(reg) : reg.sources[s].doc = reg.sources[t].doc => s = t
  /\ SourceDocs(reg) \cap Pages(reg) = {}

IngestedIsLinkedIn(reg) ==
  \A s \in Ids(reg) : reg.sources[s].state = "ingested" => reg.sources[s].links # {}

Consistent(reg) == LinksAgreeIn(reg) /\ OneRoleIn(reg) /\ IngestedIsLinkedIn(reg)

ASSUME FilesAssumption == \A reg \in InitialFiles : IsRegistry(reg) /\ Consistent(reg)

ASSUME RegistryAssumption ==
  /\ Sources \cap Authorities = {}
  /\ "none" \in Keys
  /\ SourceInputs \subseteq [id : SourceIds, doc : Documents, hash : Keys, url : Keys, state : States,
                            relinks : BOOLEAN, links : SUBSET Documents]
  /\ AuthorityInputs \subseteq [doc : Documents, relinks : BOOLEAN, sources : SUBSET SourceIds,
                               container : Documents \cup {"none"}]
  /\ "none" \notin Documents /\ \A i \in AuthorityInputs : i.container # i.doc
  /\ Boundaries \subseteq SUBSET Documents
  /\ ReadsFail \in BOOLEAN
  /\ MaxRestarts \in Nat /\ MaxChanges \in Nat

VARIABLES
  file,            \* the registry file
  allowed,         \* the documents accessible now: they exist, in allowed notebooks
  sourceInput,     \* the input of each call
  authorityInput,
  pc,              \* what each call awaits
  barrier,         \* the mutations each snapshot waits for
  accessible,      \* accessibleDocumentIds of each call
  chain,           \* writeTail: the mutations not settled yet, oldest first
  sent,            \* the registry each call puts
  flight,          \* the calls whose put may still take effect
  blind,           \* the mutations whose read failed
  left,            \* the calls whose put was in flight when the plugin was restarted
  shown,           \* the documents named in the answer of each call that puts
  kept,            \* the container that its page had, if the call keeps it
  inReach,         \* the documents accessible at some time of each call under way
  restarts, changes

inputVars == <<sourceInput, authorityInput>>
callVars == <<pc, barrier, accessible, shown, kept>>
putVars == <<sent, flight, blind, left>>
countVars == <<restarts, changes>>
vars == <<file, allowed, inputVars, callVars, chain, putVars, inReach, countVars>>

None == [x \in {} |-> {}]

(* emptyKnowledgeRegistry *)
Empty ==
  [schema |-> "current", revision |-> 0, sources |-> None, authorities |-> None, containers |-> None]

Init ==
  /\ file \in InitialFiles
  /\ allowed \in Boundaries
  /\ sourceInput \in [Sources -> SourceInputs]
  /\ authorityInput \in [Authorities -> AuthorityInputs]
  /\ pc = [c \in Call |-> "idle"]
  /\ barrier = [c \in Call |-> {}]
  /\ accessible = [c \in Call |-> {}]
  /\ chain = <<>>
  /\ sent = [c \in Call |-> Empty]
  /\ flight = {}
  /\ blind = {}
  /\ left = {}
  /\ shown = [c \in Call |-> {}]
  /\ kept = [c \in Call |-> {}]
  /\ inReach = [c \in Call |-> {}]
  /\ restarts = 0
  /\ changes = 0

-----------------------------------------------------------------------------
(* Registries. *)

WithLinks(record, links) ==
  [doc |-> record.doc, hash |-> record.hash, url |-> record.url, state |-> record.state,
   links |-> links]

(* normalizeKnowledgeRegistry: links to nothing are dropped, one-sided ones completed. *)
Normalized(reg) ==
  LET Linked(s, a) == a \in reg.sources[s].links \/ s \in reg.authorities[a]
  IN [schema |-> reg.schema,
      revision |-> reg.revision,
      sources |-> [s \in Ids(reg) |-> WithLinks(reg.sources[s], {a \in Pages(reg) : Linked(s, a)})],
      authorities |-> [a \in Pages(reg) |-> {s \in Ids(reg) : Linked(s, a)}],
      containers |-> reg.containers]

(* registerSource: the record the input is taken for: bySourceId ?? byDocument *)
(* ?? byHash ?? byUrl, or a new one.                                            *)
SameKey(reg, i, key, acc) ==
  {s \in Ids(reg) : i[key] # "none" /\ reg.sources[s][key] = i[key] /\ reg.sources[s].doc \in acc}

(* Faulty Matches: a duplicate is looked for among all records. *)
MatchesAnywhere(reg, i, acc) ==
  LET byDocument == {s \in Ids(reg) : reg.sources[s].doc = i.doc}
      byHash == SameKey(reg, i, "hash", SourceDocs(reg))
  IN IF i.id \in Ids(reg) THEN {i.id}
     ELSE IF byDocument # {} THEN byDocument
     ELSE IF byHash # {} THEN byHash
     ELSE {i.id}

Matches(reg, i, acc) ==
  LET byDocument == {s \in Ids(reg) : reg.sources[s].doc = i.doc}
      byHash == SameKey(reg, i, "hash", acc)
      byUrl == SameKey(reg, i, "url", acc)
  IN IF i.id \in Ids(reg) THEN {i.id}
     ELSE IF byDocument # {} THEN byDocument
     ELSE IF byHash # {} THEN byHash
     ELSE IF byUrl # {} THEN byUrl
     ELSE {i.id}

Prior(reg, i, s) ==
  IF s \in Ids(reg) THEN reg.sources[s]
  ELSE [doc |-> i.doc, hash |-> "none", url |-> "none", state |-> i.state, links |-> {}]

Either(known, given) == IF known # "none" THEN known ELSE given
Differ(known, given) == known # "none" /\ given # "none" /\ known # given

SourceLinks(reg, i, s) == IF i.relinks THEN i.links ELSE Prior(reg, i, s).links

SourceRecord(reg, i, s) ==
  LET prior == Prior(reg, i, s) IN
  [doc |-> prior.doc, hash |-> Either(prior.hash, i.hash), url |-> Either(prior.url, i.url),
   state |-> i.state, links |-> SourceLinks(reg, i, s)]

SourceRefused(reg, i, acc, s) ==
  LET prior == Prior(reg, i, s) IN
  \/ i.doc \in Pages(reg)
  \/ i.id \in Ids(reg) /\ (reg.sources[i.id].doc \notin acc \/ reg.sources[i.id].doc # i.doc)
  \/ Differ(prior.hash, i.hash) \/ Differ(prior.url, i.url)
  \/ ~ prior.links \subseteq acc
  \/ ~ SourceLinks(reg, i, s) \subseteq Pages(reg) \cap acc
  \/ i.state = "ingested" /\ SourceLinks(reg, i, s) = {}

WithSource(reg, i, s) ==
  [schema |-> reg.schema,
   revision |-> reg.revision + 1,
   sources |-> [x \in Ids(reg) \cup {s} |->
      IF x = s THEN SourceRecord(reg, i, s) ELSE reg.sources[x]],
   authorities |-> [a \in Pages(reg) |->
      IF a \in SourceLinks(reg, i, s) THEN reg.authorities[a] \cup {s}
      ELSE reg.authorities[a] \ {s}],
   containers |-> reg.containers]

(* registerAuthority *)
PageSources(reg, i) ==
  IF i.relinks THEN i.sources
  ELSE IF i.doc \in Pages(reg) THEN reg.authorities[i.doc] ELSE {}

(* Faulty AuthorityRefused: an ingested source may lose its last page. *)
AuthorityRefusedLoosely(reg, i, acc) ==
  \/ i.doc \in SourceDocs(reg)
  \/ i.doc \in Pages(reg) /\ \E s \in reg.authorities[i.doc] : reg.sources[s].doc \notin acc
  \/ \E s \in PageSources(reg, i) : ~(s \in Ids(reg) /\ reg.sources[s].doc \in acc)

AuthorityRefused(reg, i, acc) ==
  \/ i.doc \in SourceDocs(reg)
  \/ i.doc \in Pages(reg) /\ \E s \in reg.authorities[i.doc] : reg.sources[s].doc \notin acc
  \/ \E s \in PageSources(reg, i) : ~(s \in Ids(reg) /\ reg.sources[s].doc \in acc)
  \/ \E s \in Ids(reg) \ PageSources(reg, i) :
       reg.sources[s].state = "ingested" /\ reg.sources[s].links = {i.doc}

Container(reg, a) == IF a \in Pages(reg) THEN reg.containers[a] ELSE "none"

WithAuthority(reg, i) ==
  [schema |-> reg.schema,
   revision |-> reg.revision + 1,
   authorities |-> [a \in Pages(reg) \cup {i.doc} |->
      IF a = i.doc THEN PageSources(reg, i) ELSE reg.authorities[a]],
   sources |-> [s \in Ids(reg) |->
      WithLinks(reg.sources[s],
        IF s \in PageSources(reg, i) THEN reg.sources[s].links \cup {i.doc}
        ELSE reg.sources[s].links \ {i.doc})],
   containers |-> [a \in Pages(reg) \cup {i.doc} |->
      IF a = i.doc THEN Either(i.container, Container(reg, a)) ELSE reg.containers[a]]]

-----------------------------------------------------------------------------
(* A call of a tool. *)

Goto(c, where) == pc' = [pc EXCEPT ![c] = where]

(* A call that ends drops its locals. *)
Ends(c) ==
  /\ Goto(c, "done")
  /\ accessible' = [accessible EXCEPT ![c] = {}]
  /\ shown' = [shown EXCEPT ![c] = {}]
  /\ kept' = [kept EXCEPT ![c] = {}]
  /\ inReach' = [inReach EXCEPT ![c] = {}]

(* The documents the call names, which the tool checks. *)
Named(c) ==
  IF c \in Sources
  THEN {sourceInput[c].doc} \cup (IF sourceInput[c].relinks THEN sourceInput[c].links ELSE {})
  ELSE {authorityInput[c].doc, authorityInput[c].container} \ {"none"}

InChain(c) == \E i \in DOMAIN chain : chain[i] = c

(* The checks of the documents, here in one step, up to the call of snapshot().  A *)
(* call they refuse does nothing: it stays idle.                                   *)
Invoke(c) ==
  /\ pc[c] = "idle"
  /\ Named(c) \subseteq allowed
  /\ barrier' = [barrier EXCEPT ![c] = {chain[i] : i \in DOMAIN chain}]
  /\ Goto(c, "barrier")
  /\ inReach' = [inReach EXCEPT ![c] = allowed]
  /\ UNCHANGED <<file, allowed, inputVars, accessible, shown, kept, chain, putVars, countVars>>

(* readSnapshot: a read that fails, and a file that is not there, give an empty *)
(* registry.                                                                    *)
Readings == {Normalized(file)} \cup (IF ReadsFail THEN {Empty} ELSE {})
Readable == file.schema = "current"

(* snapshot(): the mutations queued before it have settled. *)
Snapshot(c) ==
  /\ pc[c] = "barrier"
  /\ \A x \in barrier[c] : ~InChain(x)
  /\ barrier' = [barrier EXCEPT ![c] = {}]
  /\ \/ ~Readable /\ Ends(c)
     \/ \E reg \in Readings :
          /\ reg.schema = "current"
          /\ accessible' = [accessible EXCEPT ![c] = SourceDocs(reg) \cup Pages(reg)]
          /\ Goto(c, "listing")
          /\ UNCHANGED <<shown, kept, inReach>>
  /\ UNCHANGED <<file, allowed, inputVars, chain, putVars, countVars>>

(* refreshAccessibleKnowledgeRegistry leaves the documents that exist in allowed *)
(* notebooks; mutate() appends to the chain.                                      *)
Enqueue(c) ==
  /\ pc[c] = "listing"
  /\ \/ Ends(c) /\ UNCHANGED chain
     \/ /\ accessible' = [accessible EXCEPT ![c] = Named(c) \cup (@ \cap allowed)]
        /\ chain' = Append(chain, c)
        /\ Goto(c, "queued")
        /\ UNCHANGED <<shown, kept, inReach>>
  /\ UNCHANGED <<file, allowed, inputVars, barrier, putVars, countVars>>

(* What a mutation may find itself to be about: the id of a source, or its page. *)
Targets(c, reg) ==
  IF c \in Sources THEN Matches(reg, sourceInput[c], accessible[c]) ELSE {authorityInput[c].doc}

Refused(c, reg, x) ==
  IF c \in Sources THEN SourceRefused(reg, sourceInput[c], accessible[c], x)
  ELSE AuthorityRefused(reg, authorityInput[c], accessible[c])

Registered(c, reg, x) ==
  IF c \in Sources THEN WithSource(reg, sourceInput[c], x) ELSE WithAuthority(reg, authorityInput[c])

(* competingAuthorities: the other pages that may have the name of page x. *)
Rivals(c, reg, x) ==
  IF c \in Sources THEN {} ELSE (Pages(reg) \cap accessible[c]) \ {x}

(* The documents of the record registered, of those linked to it, and of the *)
(* pages of its name.                                                         *)
Answer(c, reg, x, rivals) ==
  IF c \in Sources THEN {reg.sources[x].doc} \cup reg.sources[x].links
  ELSE {x} \cup {reg.sources[s].doc : s \in reg.authorities[x]} \cup ({reg.containers[x]} \ {"none"})
       \cup rivals

(* The container that a page keeps when it is registered again without one. *)
KeptContainer(c, reg, x) ==
  IF c \in Authorities /\ authorityInput[c].container = "none" THEN {Container(reg, x)} \ {"none"}
  ELSE {}

Put(c, reg, x) ==
  /\ sent' = [sent EXCEPT ![c] = Registered(c, reg, x)]
  /\ flight' = flight \cup {c}
  /\ \E rivals \in SUBSET Rivals(c, reg, x) :
       shown' = [shown EXCEPT ![c] = Answer(c, Registered(c, reg, x), x, rivals)]
  /\ kept' = [kept EXCEPT ![c] = KeptContainer(c, reg, x)]
  /\ Goto(c, "putting")
  /\ UNCHANGED <<accessible, inReach>>

(* Faulty Mutate: a mutation does not wait for the one before it. *)
MutateUnchained(c) ==
  /\ pc[c] = "queued"
  /\ Readable
  /\ \E x \in Targets(c, Normalized(file)) :
       ~Refused(c, Normalized(file), x) /\ Put(c, Normalized(file), x)
  /\ UNCHANGED <<file, allowed, inputVars, barrier, chain, blind, left, countVars>>

(* The mutation at the head of the chain reads the file; it is refused, or its *)
(* put is sent.                                                                 *)
Mutate(c) ==
  /\ pc[c] = "queued" /\ Head(chain) = c
  /\ \/ /\ ~Readable
        /\ Ends(c)
        /\ chain' = Tail(chain)
        /\ UNCHANGED <<sent, flight, blind>>
     \/ \E reg \in Readings : \E x \in Targets(c, reg) :
          /\ reg.schema = "current"
          /\ \/ /\ Refused(c, reg, x)
                /\ Ends(c)
                /\ chain' = Tail(chain)
                /\ UNCHANGED <<sent, flight, blind>>
             \/ /\ ~Refused(c, reg, x)
                /\ Put(c, reg, x)
                /\ blind' = IF reg = Normalized(file) THEN blind ELSE blind \cup {c}
                /\ UNCHANGED chain
  /\ UNCHANGED <<file, allowed, inputVars, barrier, left, countVars>>

(* The put of a call settles: with an error whether it took effect or not. *)
PutSettles(c) ==
  /\ pc[c] = "putting"
  /\ flight' = flight \ {c}
  /\ sent' = [sent EXCEPT ![c] = Empty]
  /\ Ends(c)
  /\ chain' = Tail(chain)
  /\ UNCHANGED <<file, allowed, inputVars, barrier, blind, left, countVars>>

-----------------------------------------------------------------------------
(* The host and the user. *)

PutLands(c) ==
  /\ c \in flight
  /\ file' = sent[c]
  /\ flight' = flight \ {c}
  /\ sent' = [sent EXCEPT ![c] = Empty]
  /\ UNCHANGED <<allowed, inputVars, callVars, chain, blind, left, inReach, countVars>>

(* onunload, then onload: a new store with an empty chain; the calls under way are *)
(* dropped, their puts are not.                                                     *)
Restart ==
  /\ restarts < MaxRestarts
  /\ restarts' = restarts + 1
  /\ pc' = [c \in Call |-> IF pc[c] = "idle" THEN "idle" ELSE "done"]
  /\ barrier' = [c \in Call |-> {}]
  /\ accessible' = [c \in Call |-> {}]
  /\ shown' = [c \in Call |-> {}]
  /\ kept' = [c \in Call |-> {}]
  /\ inReach' = [c \in Call |-> {}]
  /\ chain' = <<>>
  /\ left' = left \cup flight
  /\ UNCHANGED <<file, allowed, inputVars, sent, flight, blind, changes>>

(* Documents are removed, or the policy allows other notebooks. *)
BoundaryChanges(docs) ==
  /\ changes < MaxChanges
  /\ changes' = changes + 1
  /\ allowed' = docs
  /\ inReach' = [c \in Call |-> IF pc[c] \in {"idle", "done"} THEN {} ELSE inReach[c] \cup docs]
  /\ UNCHANGED <<file, inputVars, callVars, chain, putVars, restarts>>

Step(c) ==
  \/ Invoke(c)
  \/ Snapshot(c)
  \/ Enqueue(c)
  \/ Mutate(c)
  \/ PutSettles(c)
  \/ PutLands(c)

Next ==
  \/ \E c \in Call : Step(c)
  \/ \E docs \in Boundaries : BoundaryChanges(docs)
  \/ Restart

Spec == Init /\ [][Next]_vars

-----------------------------------------------------------------------------
(* The variables have the types the code gives them; the chain holds each call whose *)
(* mutation has not settled, once, and only its head has a put under way.            *)
RegistryTypeOK ==
  /\ IsRegistry(file)
  /\ allowed \in Boundaries
  /\ sourceInput \in [Sources -> SourceInputs]
  /\ authorityInput \in [Authorities -> AuthorityInputs]
  /\ pc \in [Call -> {"idle", "barrier", "listing", "queued", "putting", "done"}]
  /\ barrier \in [Call -> SUBSET Call]
  /\ accessible \in [Call -> SUBSET Documents]
  /\ chain \in Seq(Call)
  /\ \A i, j \in DOMAIN chain : chain[i] = chain[j] => i = j
  /\ \A c \in Call : pc[c] \in {"queued", "putting"} <=> InChain(c)
  /\ \A c \in Call : pc[c] = "putting" => c = Head(chain)
  /\ sent = [c \in Call |-> sent[c]] /\ \A c \in Call : IsRegistry(sent[c])
  /\ flight \subseteq Call /\ blind \subseteq Call /\ left \subseteq Call
  /\ shown \in [Call -> SUBSET Documents] /\ kept \in [Call -> SUBSET Documents]
  /\ inReach \in [Call -> SUBSET Documents]
  /\ restarts \in 0..MaxRestarts /\ changes \in 0..MaxChanges

(* A page names a source exactly if the source names the page, and only records *)
(* that exist are named ("maintains bidirectional links to registered sources",  *)
(* kernel.ts), whichever registrations, failed reads and late puts come in which *)
(* order.                                                                        *)
LinksAgree == LinksAgreeIn(file)

(* A document is registered as at most one source, and not as an authority too  *)
(* (invalid_role_overlap, and the search by document in registerSource).         *)
DocumentsHaveOneRole == OneRoleIn(file)

(* "An ingested source must link to at least one registered authority page"      *)
(* (knowledge-registry.ts:557), however its pages are registered again.          *)
IngestedIsLinked == IngestedIsLinkedIn(file)

(* The registry is consistent as a whole. *)
RegistryConsistent == LinksAgree /\ DocumentsHaveOneRole /\ IngestedIsLinked

(* An answer names only documents that were accessible at some time of the call, *)
(* also when a duplicate is found and when the boundary changes while the         *)
(* mutation waits (record_outside_access).  There is one exception: a page that   *)
(* is registered again without a container keeps the one it had, and the answer   *)
(* names it unchecked (knowledge-registry.ts:670-672).                            *)
AnswersAccessible == \A c \in Call : shown[c] \subseteq inReach[c] \cup kept[c]

Keeps(old, new) ==
  /\ new.schema = old.schema
  /\ Ids(old) \subseteq Ids(new) /\ Pages(old) \subseteq Pages(new)
  /\ new.revision = old.revision + 1

(* "serializes concurrent writes without losing records"                         *)
(* (knowledge-registry.test.ts:111): each write is the next revision and keeps    *)
(* every record, unless its mutation failed to read the file, or a put outlived a *)
(* restart.                                                                       *)
LossHasCause ==
  [][file' # file => Keeps(file, file') \/ left # {} \/ \E c \in blind : file' = sent[c]]_vars

(* The same without the exceptions. *)
RecordsKept == [][file' # file => Keeps(file, file')]_vars

-----------------------------------------------------------------------------
(* The inductive invariant: what is about to be put is as consistent as the file;  *)
(* until a put outlives a restart it is the file's successor unless it is blind;    *)
(* a mutation is decided with documents that were in reach of its call.             *)
AllConsistent == Consistent(file) /\ \A c \in Call : Consistent(sent[c])

PutsFollowFile ==
  left = {} => \A c \in flight : pc[c] = "putting" /\ (c \in blind \/ Keeps(file, sent[c]))

AccessFollowsReach ==
  \A c \in Call :
    /\ pc[c] \in {"idle", "done"} => shown[c] = {} /\ kept[c] = {}
    /\ pc[c] \in {"barrier", "listing", "queued", "putting"} => allowed \cup Named(c) \subseteq inReach[c]
    /\ pc[c] = "queued" => Named(c) \subseteq accessible[c] /\ accessible[c] \subseteq inReach[c]
    /\ shown[c] \subseteq inReach[c] \cup kept[c]

RegistryInv == RegistryTypeOK /\ AllConsistent /\ PutsFollowFile /\ AccessFollowsReach
=============================================================================
