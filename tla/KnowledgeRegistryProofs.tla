----------------------- MODULE KnowledgeRegistryProofs -----------------------
(***************************************************************************)
(* Proofs about KnowledgeRegistry, for every set of calls, inputs, files   *)
(* and documents.  The lemmas about registries come first: normalisation   *)
(* and both registrations lead from consistent registries to consistent    *)
(* ones.  Then each step preserves RegistryInv.                            *)
(***************************************************************************)
EXTENDS KnowledgeRegistry, TLAPS

(* The registry of a missing file. *)
LEMMA EmptyOK == IsRegistry(Empty) /\ Consistent(Empty)
BY DEF Empty, None, IsRegistry, Consistent, LinksAgreeIn, OneRoleIn, IngestedIsLinkedIn, Ids, Pages,
       SourceDocs

(* Normalising a consistent registry keeps its records and its consistency. *)
LEMMA NormalizedOK ==
  ASSUME NEW reg, IsRegistry(reg), Consistent(reg)
  PROVE  /\ IsRegistry(Normalized(reg))
         /\ Consistent(Normalized(reg))
         /\ Normalized(reg).schema = reg.schema
         /\ Normalized(reg).revision = reg.revision
         /\ Ids(Normalized(reg)) = Ids(reg)
         /\ Pages(Normalized(reg)) = Pages(reg)
<1> DEFINE new == Normalized(reg)
           Linked(s, a) == a \in reg.sources[s].links \/ s \in reg.authorities[a]
<1>1. /\ reg.sources \in [Ids(reg) -> Record] /\ reg.authorities \in [Pages(reg) -> SUBSET SourceIds]
      /\ Ids(reg) \subseteq SourceIds /\ Pages(reg) \subseteq Documents
      BY DEF IsRegistry
<1>2. /\ new.schema = reg.schema /\ new.revision = reg.revision
      /\ new.sources = [s \in Ids(reg) |->
           WithLinks(reg.sources[s], {a \in Pages(reg) : Linked(s, a)})]
      /\ new.authorities = [a \in Pages(reg) |-> {s \in Ids(reg) : Linked(s, a)}]
      /\ new.containers = reg.containers
      BY DEF IsRegistry, Normalized
<1>3. /\ Ids(new) = Ids(reg) /\ Pages(new) = Pages(reg)
      BY <1>2 DEF Ids, Pages
<1>4. ASSUME NEW s \in Ids(reg)
      PROVE  /\ new.sources[s] \in Record
             /\ new.sources[s].doc = reg.sources[s].doc
             /\ new.sources[s].state = reg.sources[s].state
             /\ new.sources[s].links = {a \in Pages(reg) : Linked(s, a)}
  <2>1. reg.sources[s] \in Record
        BY <1>1
  <2>2. new.sources[s] = WithLinks(reg.sources[s], {a \in Pages(reg) : Linked(s, a)})
        BY <1>2
  <2> HIDE DEF new, Linked
  <2>. QED BY <1>1, <2>1, <2>2 DEF Record, WithLinks
<1>5. \A a \in Pages(reg) : new.authorities[a] = {s \in Ids(reg) : Linked(s, a)}
      BY <1>2
<1>6. IsRegistry(new)
  <2>1. new \in [schema : {"current", "future"}, revision : Nat,
                 sources : {new.sources}, authorities : {new.authorities},
                 containers : {new.containers}]
        BY DEF IsRegistry, Normalized
  <2>2. new.sources \in [Ids(new) -> Record]
        BY <1>2, <1>3, <1>4
  <2>3. new.authorities \in [Pages(new) -> SUBSET SourceIds]
        BY <1>1, <1>2, <1>3
  <2>4. new.containers \in [Pages(new) -> Documents \cup {"none"}]
        BY <1>2, <1>3 DEF IsRegistry
  <2> HIDE DEF new
  <2>. QED BY <1>1, <1>3, <2>1, <2>2, <2>3, <2>4 DEF IsRegistry
<1> HIDE DEF new
<1>7. LinksAgreeIn(new)
      BY <1>3, <1>4, <1>5 DEF LinksAgreeIn
<1>8. OneRoleIn(new)
      BY <1>3, <1>4 DEF Consistent, OneRoleIn, SourceDocs
<1>9. IngestedIsLinkedIn(new)
  <2> SUFFICES ASSUME NEW s \in Ids(new), new.sources[s].state = "ingested"
               PROVE  new.sources[s].links # {}
      BY DEF IngestedIsLinkedIn
  <2>1. PICK a \in reg.sources[s].links : TRUE
        BY <1>3, <1>4 DEF Consistent, IngestedIsLinkedIn
  <2>2. a \in Pages(reg)
        BY <1>3, <2>1 DEF Consistent, LinksAgreeIn
  <2>. QED BY <1>3, <1>4, <2>1, <2>2
<1>. QED BY <1>2, <1>3, <1>6, <1>7, <1>8, <1>9 DEF new, Consistent

(* A source that is not refused is added to, or replaced in, a registry that stays *)
(* consistent and keeps every record.                                              *)
LEMMA SourceOK ==
  ASSUME NEW reg, IsRegistry(reg), Consistent(reg), NEW i \in SourceInputs, NEW acc,
         NEW s \in Matches(reg, i, acc), ~SourceRefused(reg, i, acc, s)
  PROVE  /\ IsRegistry(WithSource(reg, i, s))
         /\ Consistent(WithSource(reg, i, s))
         /\ Keeps(reg, WithSource(reg, i, s))
         /\ s \in Ids(WithSource(reg, i, s))
<1> DEFINE new == WithSource(reg, i, s)
           links == SourceLinks(reg, i, s)
           record == SourceRecord(reg, i, s)
<1>1. /\ i \in [id : SourceIds, doc : Documents, hash : Keys, url : Keys, state : States,
                relinks : BOOLEAN, links : SUBSET Documents]
      /\ "none" \in Keys
      BY RegistryAssumption
<1>2. /\ reg.sources \in [Ids(reg) -> Record] /\ reg.authorities \in [Pages(reg) -> SUBSET SourceIds]
      /\ Ids(reg) \subseteq SourceIds /\ Pages(reg) \subseteq Documents
      /\ reg.revision \in Nat /\ reg.schema \in {"current", "future"}
      BY DEF IsRegistry
<1>3. /\ s \in SourceIds
      /\ s \notin Ids(reg) => \A t \in Ids(reg) : reg.sources[t].doc # i.doc
      BY <1>1, <1>2 DEF Matches, SameKey
<1>4. Prior(reg, i, s) \in Record
      BY <1>1, <1>2 DEF Prior, Record
<1>5. record \in Record /\ record.links = links /\ record.state = i.state
      /\ record.doc = Prior(reg, i, s).doc
  <2>1. links \in SUBSET Documents
        BY <1>1, <1>4 DEF SourceLinks, Record
  <2>2. /\ Either(Prior(reg, i, s).hash, i.hash) \in Keys
        /\ Either(Prior(reg, i, s).url, i.url) \in Keys
        BY <1>1, <1>4 DEF Either, Record
  <2>3. i.state \in States /\ Prior(reg, i, s).doc \in Documents
        BY <1>1, <1>4 DEF Record
  <2>. QED BY <2>1, <2>2, <2>3 DEF SourceRecord, Record
<1>6. /\ i.doc \notin Pages(reg)
      /\ links \subseteq Pages(reg)
      /\ i.state = "ingested" => links # {}
      BY DEF SourceRefused
<1>7. /\ Ids(new) = Ids(reg) \cup {s} /\ Pages(new) = Pages(reg)
      /\ new.schema = reg.schema /\ new.revision = reg.revision + 1
      /\ new.sources = [x \in Ids(reg) \cup {s} |-> IF x = s THEN record ELSE reg.sources[x]]
      /\ new.authorities = [a \in Pages(reg) |->
           IF a \in links THEN reg.authorities[a] \cup {s} ELSE reg.authorities[a] \ {s}]
      /\ new.containers = reg.containers
      BY DEF WithSource, Ids, Pages
<1>8. IsRegistry(new)
  <2>1. new \in [schema : {"current", "future"}, revision : Nat,
                 sources : {new.sources}, authorities : {new.authorities},
                 containers : {new.containers}]
        BY <1>2 DEF WithSource
  <2> HIDE DEF new, record, links
  <2>2. new.sources \in [Ids(new) -> Record]
        BY <1>2, <1>5, <1>7
  <2>3. new.authorities \in [Pages(new) -> SUBSET SourceIds]
        BY <1>2, <1>3, <1>7
  <2>4. new.containers \in [Pages(new) -> Documents \cup {"none"}]
        BY <1>7 DEF IsRegistry
  <2>. QED BY <1>2, <1>3, <1>7, <2>1, <2>2, <2>3, <2>4 DEF IsRegistry
<1>9. s \notin Ids(reg) => record.doc = i.doc
      BY <1>5 DEF Prior
<1>10. s \in Ids(reg) => record.doc = reg.sources[s].doc
      BY <1>5 DEF Prior
<1> HIDE DEF new, record, links
<1>11. LinksAgreeIn(new)
      BY <1>5, <1>6, <1>7 DEF Consistent, LinksAgreeIn
<1>12. OneRoleIn(new)
  <2>1. \A x \in Ids(reg) : x # s => new.sources[x].doc = reg.sources[x].doc
        BY <1>7
  <2>2. /\ new.sources[s].doc = IF s \in Ids(reg) THEN reg.sources[s].doc ELSE i.doc
        BY <1>7, <1>9, <1>10
  <2>3. /\ \A x, y \in Ids(reg) : reg.sources[x].doc = reg.sources[y].doc => x = y
        /\ \A x \in Ids(reg) : reg.sources[x].doc \notin Pages(reg)
        BY DEF Consistent, OneRoleIn, SourceDocs
  <2>4. \A x, y \in Ids(new) : new.sources[x].doc = new.sources[y].doc => x = y
        BY <1>3, <1>7, <2>1, <2>2, <2>3
  <2>5. \A x \in Ids(new) : new.sources[x].doc \notin Pages(new)
        BY <1>6, <1>7, <2>1, <2>2, <2>3
  <2>. QED BY <2>4, <2>5 DEF OneRoleIn, SourceDocs
<1>13. IngestedIsLinkedIn(new)
      BY <1>5, <1>6, <1>7 DEF Consistent, IngestedIsLinkedIn
<1>14. Keeps(reg, new)
      BY <1>7 DEF Keeps
<1>. QED BY <1>7, <1>8, <1>11, <1>12, <1>13, <1>14 DEF new, Consistent

(* The same of a page. *)
LEMMA AuthorityOK ==
  ASSUME NEW reg, IsRegistry(reg), Consistent(reg), NEW i \in AuthorityInputs, NEW acc,
         ~AuthorityRefused(reg, i, acc)
  PROVE  /\ IsRegistry(WithAuthority(reg, i))
         /\ Consistent(WithAuthority(reg, i))
         /\ Keeps(reg, WithAuthority(reg, i))
         /\ i.doc \in Pages(WithAuthority(reg, i))
<1> DEFINE new == WithAuthority(reg, i)
           linked == PageSources(reg, i)
           Links(s) == IF s \in linked THEN reg.sources[s].links \cup {i.doc}
                       ELSE reg.sources[s].links \ {i.doc}
<1>1. i \in [doc : Documents, relinks : BOOLEAN, sources : SUBSET SourceIds,
            container : Documents \cup {"none"}]
      BY RegistryAssumption
<1>2. /\ reg.sources \in [Ids(reg) -> Record] /\ reg.authorities \in [Pages(reg) -> SUBSET SourceIds]
      /\ Ids(reg) \subseteq SourceIds /\ Pages(reg) \subseteq Documents
      /\ reg.revision \in Nat /\ reg.schema \in {"current", "future"}
      BY DEF IsRegistry
<1>3. /\ i.doc \notin SourceDocs(reg)
      /\ linked \subseteq Ids(reg)
      /\ \A s \in Ids(reg) \ linked :
           ~(reg.sources[s].state = "ingested" /\ reg.sources[s].links = {i.doc})
      BY DEF AuthorityRefused
<1>4. /\ Ids(new) = Ids(reg) /\ Pages(new) = Pages(reg) \cup {i.doc}
      /\ new.schema = reg.schema /\ new.revision = reg.revision + 1
      /\ new.sources = [s \in Ids(reg) |-> WithLinks(reg.sources[s], Links(s))]
      /\ new.authorities = [a \in Pages(reg) \cup {i.doc} |->
           IF a = i.doc THEN linked ELSE reg.authorities[a]]
      /\ new.containers = [a \in Pages(reg) \cup {i.doc} |->
           IF a = i.doc THEN Either(i.container, Container(reg, a)) ELSE reg.containers[a]]
      BY DEF WithAuthority, Ids, Pages
<1>5. ASSUME NEW s \in Ids(reg)
      PROVE  /\ new.sources[s] \in Record
             /\ new.sources[s].doc = reg.sources[s].doc
             /\ new.sources[s].state = reg.sources[s].state
             /\ new.sources[s].links = Links(s)
  <2>1. reg.sources[s] \in Record /\ new.sources[s] = WithLinks(reg.sources[s], Links(s))
        BY <1>2, <1>4
  <2>2. Links(s) \subseteq Documents
        BY <1>1, <2>1 DEF Record
  <2> HIDE DEF new, Links
  <2>. QED BY <2>1, <2>2 DEF Record, WithLinks
<1>6. IsRegistry(new)
  <2>1. new \in [schema : {"current", "future"}, revision : Nat,
                 sources : {new.sources}, authorities : {new.authorities},
                 containers : {new.containers}]
        BY <1>2 DEF WithAuthority
  <2> HIDE DEF new, linked, Links
  <2>2. new.sources \in [Ids(new) -> Record]
        BY <1>4, <1>5
  <2>3. new.authorities \in [Pages(new) -> SUBSET SourceIds]
        BY <1>2, <1>3, <1>4
  <2>4. new.containers \in [Pages(new) -> Documents \cup {"none"}]
        BY <1>1, <1>4 DEF IsRegistry, Either, Container
  <2>. QED BY <1>1, <1>2, <1>4, <2>1, <2>2, <2>3, <2>4 DEF IsRegistry
<1>6a. \A s \in Ids(reg) : \A a : a \in new.sources[s].links <=>
        \/ a = i.doc /\ s \in linked
        \/ a # i.doc /\ a \in reg.sources[s].links
      BY <1>5
<1>6b. /\ new.authorities[i.doc] = linked
      /\ \A a \in Pages(new) : a # i.doc => a \in Pages(reg) /\ new.authorities[a] = reg.authorities[a]
  <2> HIDE DEF new, linked
  <2>. QED BY <1>4
<1>6c. \A s \in Ids(reg) : new.sources[s].doc = reg.sources[s].doc
                        /\ new.sources[s].state = reg.sources[s].state
      BY <1>5
<1> HIDE DEF new, linked, Links
<1>7. LinksAgreeIn(new)
      BY <1>3, <1>4, <1>6a, <1>6b DEF Consistent, LinksAgreeIn
<1>8. OneRoleIn(new)
      BY <1>3, <1>4, <1>6c DEF Consistent, OneRoleIn, SourceDocs
<1>9. IngestedIsLinkedIn(new)
  <2> SUFFICES ASSUME NEW s \in Ids(new), new.sources[s].state = "ingested"
               PROVE  new.sources[s].links # {}
      BY DEF IngestedIsLinkedIn
  <2>1. CASE s \in linked
        BY <1>4, <1>6a, <2>1
  <2>2. CASE s \notin linked
    <3>1. reg.sources[s].links # {} /\ reg.sources[s].links # {i.doc}
          BY <1>3, <1>4, <1>6c, <2>2 DEF Consistent, IngestedIsLinkedIn
    <3>2. PICK a \in reg.sources[s].links : a # i.doc
          BY <3>1
    <3>. QED BY <1>4, <1>6a, <3>2
  <2>. QED BY <2>1, <2>2
<1>10. Keeps(reg, new)
      BY <1>4 DEF Keeps
<1>. QED BY <1>4, <1>6, <1>7, <1>8, <1>9, <1>10 DEF new, Consistent

-----------------------------------------------------------------------------
(* What a call reads, registers and answers. *)

(* Every reading of a consistent file is consistent. *)
LEMMA ReadingOK ==
  ASSUME IsRegistry(file), Consistent(file), NEW reg \in Readings
  PROVE  IsRegistry(reg) /\ Consistent(reg)
BY EmptyOK, NormalizedOK DEF Readings

(* What a mutation that is not refused puts: well-formed, consistent, and holding *)
(* every record of the registry it read.                                          *)
LEMMA RegisteredOK ==
  ASSUME RegistryTypeOK, NEW c \in Call, NEW reg, IsRegistry(reg), Consistent(reg),
         NEW x \in Targets(c, reg), ~Refused(c, reg, x)
  PROVE  /\ IsRegistry(Registered(c, reg, x))
         /\ Consistent(Registered(c, reg, x))
         /\ Keeps(reg, Registered(c, reg, x))
<1>1. CASE c \in Sources
  <2>1. sourceInput[c] \in SourceInputs
        BY <1>1 DEF RegistryTypeOK
  <2>. QED BY <1>1, <2>1, SourceOK DEF Targets, Refused, Registered
<1>2. CASE c \notin Sources
  <2>1. authorityInput[c] \in AuthorityInputs
        BY <1>2 DEF RegistryTypeOK, Call
  <2>. QED BY <1>2, <2>1, AuthorityOK DEF Targets, Refused, Registered
<1>. QED BY <1>1, <1>2

(* The documents of its answer are the call's own or among those it has access to,  *)
(* but for the container that its page keeps.                                       *)
LEMMA AnswerOK ==
  ASSUME RegistryTypeOK, NEW c \in Call, NEW reg, IsRegistry(reg), Consistent(reg),
         NEW x \in Targets(c, reg), ~Refused(c, reg, x), Named(c) \subseteq accessible[c],
         NEW rivals \in SUBSET Rivals(c, reg, x)
  PROVE  /\ Answer(c, Registered(c, reg, x), x, rivals)
              \subseteq accessible[c] \cup KeptContainer(c, reg, x)
         /\ KeptContainer(c, reg, x) \subseteq Documents
<1> DEFINE acc == accessible[c]
<1>0. KeptContainer(c, reg, x) \subseteq Documents
      BY DEF KeptContainer, Container, IsRegistry
<1>1. CASE c \in Sources
  <2> DEFINE i == sourceInput[c]
             new == WithSource(reg, i, x)
  <2>1. /\ x \in Matches(reg, i, acc) /\ ~SourceRefused(reg, i, acc, x) /\ i.doc \in acc
        BY <1>1 DEF Targets, Refused, Named
  <2>2. new.sources[x] = SourceRecord(reg, i, x)
        BY DEF WithSource
  <2>3. /\ new.sources[x].doc = Prior(reg, i, x).doc
        /\ new.sources[x].links = SourceLinks(reg, i, x)
        BY <2>2 DEF SourceRecord
  <2>4. SourceLinks(reg, i, x) \subseteq acc
        BY <2>1 DEF SourceRefused
  <2>5. Prior(reg, i, x).doc \in acc
    <3>1. CASE x \notin Ids(reg)
          BY <2>1, <3>1 DEF Prior
    <3>2. CASE x \in Ids(reg)
      <4>1. reg.sources[x].doc \in acc
            BY <2>1, <3>2 DEF Matches, SameKey, SourceRefused
      <4>. QED BY <3>2, <4>1 DEF Prior
    <3>. QED BY <3>1, <3>2
  <2>. QED BY <1>0, <1>1, <2>3, <2>4, <2>5 DEF Answer, Registered
<1>2. CASE c \notin Sources
  <2> DEFINE i == authorityInput[c]
             new == WithAuthority(reg, i)
  <2>0. c \in Authorities /\ i.doc # "none"
        BY <1>2, RegistryAssumption DEF Call, RegistryTypeOK
  <2>1. x = i.doc /\ ~AuthorityRefused(reg, i, acc) /\ i.doc \in acc
        BY <1>2, <2>0 DEF Targets, Refused, Named
  <2>2. new.authorities[x] = PageSources(reg, i)
        BY <2>1 DEF WithAuthority
  <2>3. \A s \in PageSources(reg, i) :
          s \in Ids(reg) /\ reg.sources[s].doc \in acc /\ new.sources[s].doc = reg.sources[s].doc
        BY <2>1 DEF AuthorityRefused, WithAuthority, WithLinks
  <2>4. new.containers[x] = Either(i.container, Container(reg, x))
        BY <2>1 DEF WithAuthority
  <2>5. c \in Authorities /\ (i.container = "none" \/ i.container \in acc)
        BY <1>2, <2>0 DEF Named
  <2>6. {new.containers[x]} \ {"none"} \subseteq acc \cup KeptContainer(c, reg, x)
        BY <2>4, <2>5 DEF Either, KeptContainer
  <2>7. rivals \subseteq acc
        BY <1>2 DEF Rivals
  <2>8. {new.sources[s].doc : s \in new.authorities[x]} \subseteq acc
        BY <2>2, <2>3
  <2> HIDE DEF new
  <2>. QED BY <1>0, <1>2, <2>1, <2>6, <2>7, <2>8 DEF Answer, Registered, new
<1>. QED BY <1>1, <1>2

(* Appending to a sequence without repetition. *)
LEMMA JoinsTail ==
  ASSUME NEW s \in Seq(Call), NEW c \in Call, \A i \in DOMAIN s : s[i] # c,
         \A i, j \in DOMAIN s : s[i] = s[j] => i = j
  PROVE  LET t == Append(s, c) IN
         /\ t \in Seq(Call)
         /\ \A i, j \in DOMAIN t : t[i] = t[j] => i = j
         /\ \A x : (\E i \in DOMAIN t : t[i] = x) <=> x = c \/ \E i \in DOMAIN s : s[i] = x
         /\ DOMAIN s # {} => Head(t) = Head(s)
<1> DEFINE t == Append(s, c)
<1>1. /\ t \in Seq(Call) /\ Len(s) \in Nat
      /\ DOMAIN s = 1..Len(s) /\ DOMAIN t = 1..(Len(s) + 1)
      /\ \A i \in DOMAIN s : t[i] = s[i]
      /\ t[Len(s) + 1] = c
      OBVIOUS
<1>2. DOMAIN s # {} => Head(t) = Head(s)
      OBVIOUS
<1> HIDE DEF t
<1>3. \A i, j \in DOMAIN t : t[i] = t[j] => i = j
      BY <1>1
<1>4. \A x : (\E i \in DOMAIN t : t[i] = x) <=> x = c \/ \E i \in DOMAIN s : s[i] = x
      BY <1>1
<1>. QED BY <1>1, <1>2, <1>3, <1>4 DEF t

(* Removing the head of a sequence without repetition removes it from its elements. *)
LEMMA HeadLeaves ==
  ASSUME NEW s \in Seq(Call), DOMAIN s # {},
         \A i, j \in DOMAIN s : s[i] = s[j] => i = j
  PROVE  LET t == Tail(s) IN
         /\ t \in Seq(Call)
         /\ \A i, j \in DOMAIN t : t[i] = t[j] => i = j
         /\ \A x : (\E i \in DOMAIN t : t[i] = x) <=> x # Head(s) /\ \E i \in DOMAIN s : s[i] = x
<1> DEFINE t == Tail(s)
<1>1. /\ t \in Seq(Call) /\ Len(s) \in Nat \ {0}
      /\ DOMAIN s = 1..Len(s) /\ DOMAIN t = 1..(Len(s) - 1)
      /\ \A i \in DOMAIN t : t[i] = s[i + 1]
      /\ Head(s) = s[1]
      OBVIOUS
<1> HIDE DEF t
<1>2. \A i, j \in DOMAIN t : t[i] = t[j] => i = j
      BY <1>1
<1>3. \A x : (\E i \in DOMAIN t : t[i] = x) => x # Head(s) /\ \E i \in DOMAIN s : s[i] = x
      BY <1>1
<1>4. ASSUME NEW j \in DOMAIN s, s[j] # Head(s)
      PROVE  \E i \in DOMAIN t : t[i] = s[j]
  <2>1. j - 1 \in DOMAIN t /\ t[j - 1] = s[j]
        BY <1>1, <1>4
  <2>. QED BY <2>1
<1>. QED BY <1>1, <1>2, <1>3, <1>4 DEF t

-----------------------------------------------------------------------------
(* RegistryInv is inductive. *)

(* The initial states satisfy it. *)
LEMMA InitInv == Init => RegistryInv
<1> SUFFICES ASSUME Init PROVE RegistryInv
    OBVIOUS
<1> USE RegistryAssumption, FilesAssumption DEF Init
<1>1. RegistryTypeOK
  <2>1. IsRegistry(file) /\ \A c \in Call : IsRegistry(sent[c])
        BY EmptyOK
  <2>2. /\ chain \in Seq(Call) /\ \A i, j \in DOMAIN chain : chain[i] = chain[j] => i = j
        /\ \A c \in Call : ~InChain(c)
        BY DEF InChain
  <2>. QED BY <2>1, <2>2 DEF RegistryTypeOK
<1>2. AllConsistent
      BY EmptyOK DEF AllConsistent
<1>3. PutsFollowFile
      BY DEF PutsFollowFile
<1>4. AccessFollowsReach
      BY DEF AccessFollowsReach
<1>. QED BY <1>1, <1>2, <1>3, <1>4 DEF RegistryInv

(* An action that leaves the chain and the registries alone, and moves no call into *)
(* or out of the chain.                                                             *)
LEMMA FileUntouched ==
  ASSUME AllConsistent, PutsFollowFile, UNCHANGED <<file, sent, flight, blind, left>>,
         \A c \in Call : pc[c] = "putting" => pc'[c] = "putting", RegistryTypeOK
  PROVE  AllConsistent' /\ PutsFollowFile'
BY DEF AllConsistent, PutsFollowFile, RegistryTypeOK

(* The start of a call leaves file and chain alone. *)
LEMMA InvokeInv ==
  ASSUME RegistryInv, NEW c \in Call, Invoke(c)
  PROVE  RegistryInv'
<1> USE DEF Invoke, Goto, inputVars, putVars, countVars
<1>1. RegistryTypeOK'
  <2>1. /\ pc' \in [Call -> {"idle", "barrier", "listing", "queued", "putting", "done"}]
        /\ barrier' \in [Call -> SUBSET Call]
        /\ inReach' \in [Call -> SUBSET Documents]
        BY RegistryAssumption DEF RegistryInv, RegistryTypeOK
  <2>2. \A x \in Call : pc'[x] \in {"queued", "putting"} <=> InChain(x)'
        BY DEF RegistryInv, RegistryTypeOK, InChain
  <2>. QED BY <2>1, <2>2 DEF RegistryInv, RegistryTypeOK
<1>2. AllConsistent' /\ PutsFollowFile'
      BY FileUntouched DEF RegistryInv, RegistryTypeOK
<1>3. AccessFollowsReach'
      BY DEF RegistryInv, RegistryTypeOK, AccessFollowsReach, Named
<1>. QED BY <1>1, <1>2, <1>3 DEF RegistryInv

(* So does its snapshot: reading a consistent file names known documents. *)
LEMMA SnapshotInv ==
  ASSUME RegistryInv, NEW c \in Call, Snapshot(c)
  PROVE  RegistryInv'
<1> USE DEF Snapshot, Goto, Ends, inputVars, putVars, countVars
<1>1. RegistryTypeOK'
  <2>1. ASSUME NEW reg \in Readings
        PROVE  SourceDocs(reg) \cup Pages(reg) \subseteq Documents
        BY ReadingOK DEF RegistryInv, RegistryTypeOK, AllConsistent, IsRegistry, SourceDocs, Record
  <2>2. /\ pc' \in [Call -> {"idle", "barrier", "listing", "queued", "putting", "done"}]
        /\ barrier' \in [Call -> SUBSET Call]
        BY DEF RegistryInv, RegistryTypeOK
  <2>2b. shown' \in [Call -> SUBSET Documents] /\ inReach' \in [Call -> SUBSET Documents]
        BY DEF RegistryInv, RegistryTypeOK
  <2>2a. kept' \in [Call -> SUBSET Documents]
        BY DEF RegistryInv, RegistryTypeOK
  <2>3. accessible' \in [Call -> SUBSET Documents]
        BY <2>1 DEF RegistryInv, RegistryTypeOK
  <2>4. \A x \in Call : pc'[x] \in {"queued", "putting"} <=> InChain(x)'
        BY DEF RegistryInv, RegistryTypeOK, InChain
  <2>5. \A x \in Call : pc'[x] = "putting" => pc[x] = "putting"
        BY DEF RegistryInv, RegistryTypeOK
  <2>. QED BY <2>2, <2>2a, <2>2b, <2>3, <2>4, <2>5 DEF RegistryInv, RegistryTypeOK
<1>2. AllConsistent' /\ PutsFollowFile'
      BY FileUntouched DEF RegistryInv, RegistryTypeOK
<1>3. AccessFollowsReach'
      BY DEF RegistryInv, RegistryTypeOK, AccessFollowsReach, Named
<1>. QED BY <1>1, <1>2, <1>3 DEF RegistryInv

(* A call enters the chain once, with accessible documents in its reach. *)
LEMMA EnqueueInv ==
  ASSUME RegistryInv, NEW c \in Call, Enqueue(c)
  PROVE  RegistryInv'
<1> USE DEF Goto, Ends, inputVars, putVars, countVars
<1>1. Named(c) \subseteq Documents
      BY RegistryAssumption DEF RegistryInv, RegistryTypeOK, Named, Call
<1>2. CASE Ends(c) /\ UNCHANGED chain
  <2>1. RegistryTypeOK'
    <3>1. \A x \in Call : pc'[x] \in {"queued", "putting"} <=> InChain(x)'
          BY <1>2 DEF Enqueue, RegistryInv, RegistryTypeOK, InChain
    <3>. QED BY <1>2, <3>1 DEF Enqueue, RegistryInv, RegistryTypeOK
  <2>2. AllConsistent' /\ PutsFollowFile'
        BY <1>2, FileUntouched DEF Enqueue, RegistryInv, RegistryTypeOK
  <2>3. AccessFollowsReach'
        BY <1>2 DEF Enqueue, RegistryInv, RegistryTypeOK, AccessFollowsReach, Named
  <2>. QED BY <2>1, <2>2, <2>3 DEF RegistryInv
<1>3. CASE chain' = Append(chain, c)
  <2>1. /\ pc[c] = "listing" /\ pc' = [pc EXCEPT ![c] = "queued"]
        /\ accessible' = [accessible EXCEPT ![c] = Named(c) \cup (accessible[c] \cap allowed)]
        /\ UNCHANGED <<file, allowed, sourceInput, authorityInput, barrier, shown, kept, inReach,
                       sent, flight, blind, left, restarts, changes>>
        BY <1>3 DEF Enqueue, RegistryInv, RegistryTypeOK
  <2>2. ~InChain(c)
        BY <2>1 DEF RegistryInv, RegistryTypeOK
  <2>3. /\ chain' \in Seq(Call)
        /\ \A i, j \in DOMAIN chain' : chain'[i] = chain'[j] => i = j
        /\ \A x \in Call : InChain(x)' <=> x = c \/ InChain(x)
        /\ DOMAIN chain # {} => Head(chain') = Head(chain)
    <3>1. /\ chain \in Seq(Call)
          /\ \A i, j \in DOMAIN chain : chain[i] = chain[j] => i = j
          /\ \A i \in DOMAIN chain : chain[i] # c
          BY <2>2 DEF RegistryInv, RegistryTypeOK, InChain
    <3>2. /\ Append(chain, c) \in Seq(Call)
          /\ \A i, j \in DOMAIN Append(chain, c) : Append(chain, c)[i] = Append(chain, c)[j] => i = j
          /\ \A x : (\E i \in DOMAIN Append(chain, c) : Append(chain, c)[i] = x)
                  <=> x = c \/ \E i \in DOMAIN chain : chain[i] = x
          /\ DOMAIN chain # {} => Head(Append(chain, c)) = Head(chain)
          BY <3>1, JoinsTail, Zenon
    <3>. QED BY <1>3, <3>2, Zenon DEF InChain
  <2>4. RegistryTypeOK'
    <3>1. \A x \in Call : pc'[x] \in {"queued", "putting"} <=> InChain(x)'
          BY <2>1, <2>3 DEF RegistryInv, RegistryTypeOK
    <3>2. \A x \in Call : pc'[x] = "putting" => x = Head(chain')
          BY <2>1, <2>3 DEF RegistryInv, RegistryTypeOK, InChain
    <3>. QED BY <1>1, <2>1, <2>3, <3>1, <3>2 DEF RegistryInv, RegistryTypeOK
  <2>5. AllConsistent' /\ PutsFollowFile'
        BY <2>1, FileUntouched DEF RegistryInv, RegistryTypeOK
  <2>6. AccessFollowsReach'
        BY <2>1 DEF RegistryInv, RegistryTypeOK, AccessFollowsReach, Named
  <2>. QED BY <2>4, <2>5, <2>6 DEF RegistryInv
<1>. QED BY <1>2, <1>3 DEF Enqueue

(* The mutation at the head of the chain settles. *)
LEMMA HeadSettles ==
  ASSUME RegistryTypeOK, NEW c \in Call, pc[c] \in {"queued", "putting"}, c = Head(chain),
         chain' = Tail(chain), pc' = [pc EXCEPT ![c] = "done"]
  PROVE  /\ chain' \in Seq(Call)
         /\ \A i, j \in DOMAIN chain' : chain'[i] = chain'[j] => i = j
         /\ \A x \in Call : pc'[x] \in {"queued", "putting"} <=> InChain(x)'
         /\ \A x \in Call : pc'[x] # "putting"
<1>1. /\ chain \in Seq(Call) /\ DOMAIN chain # {}
      /\ \A i, j \in DOMAIN chain : chain[i] = chain[j] => i = j
      BY DEF RegistryTypeOK, InChain
<1>2. /\ Tail(chain) \in Seq(Call)
      /\ \A i, j \in DOMAIN Tail(chain) : Tail(chain)[i] = Tail(chain)[j] => i = j
      /\ \A x : (\E i \in DOMAIN Tail(chain) : Tail(chain)[i] = x)
              <=> x # Head(chain) /\ \E i \in DOMAIN chain : chain[i] = x
      BY <1>1, HeadLeaves, Zenon
<1>3. \A x \in Call : InChain(x)' <=> x # c /\ InChain(x)
      BY <1>2, Zenon DEF InChain
<1>4. \A x \in Call : pc'[x] \in {"queued", "putting"} <=> InChain(x)'
      BY <1>3 DEF RegistryTypeOK
<1>5. \A x \in Call : pc'[x] # "putting"
      BY DEF RegistryTypeOK
<1>. QED BY <1>2, <1>4, <1>5

(* While no put has outlived a restart, only the head of the chain has one in flight. *)
LEMMA OnlyHeadInFlight ==
  ASSUME RegistryInv, left = {}
  PROVE  \A x \in flight : x \in Call /\ pc[x] = "putting" /\ x = Head(chain)
BY DEF RegistryInv, RegistryTypeOK, PutsFollowFile

(* The head of the chain leaves it, or puts a consistent successor of what it read. *)
LEMMA MutateInv ==
  ASSUME RegistryInv, NEW c \in Call, Mutate(c)
  PROVE  RegistryInv'
<1>1. /\ pc[c] = "queued" /\ c = Head(chain)
      /\ UNCHANGED <<file, allowed, sourceInput, authorityInput, barrier, left, restarts, changes>>
      BY DEF Mutate, inputVars, countVars
<1>2. CASE Ends(c) /\ chain' = Tail(chain) /\ UNCHANGED <<sent, flight, blind>>
  <2>1. RegistryTypeOK'
    <3>1. pc' = [pc EXCEPT ![c] = "done"] /\ RegistryTypeOK
          BY <1>2 DEF Ends, Goto, RegistryInv
    <3>2. /\ chain' \in Seq(Call)
          /\ \A i, j \in DOMAIN chain' : chain'[i] = chain'[j] => i = j
          /\ \A x \in Call : pc'[x] \in {"queued", "putting"} <=> InChain(x)'
          /\ \A x \in Call : pc'[x] # "putting"
          BY <1>1, <1>2, <3>1, HeadSettles
    <3>. QED BY <1>1, <1>2, <3>1, <3>2 DEF Ends, RegistryTypeOK
  <2>2. AllConsistent' /\ PutsFollowFile'
        BY <1>1, <1>2, FileUntouched DEF Ends, Goto, RegistryInv, RegistryTypeOK
  <2>3. AccessFollowsReach'
        BY <1>1, <1>2 DEF Ends, Goto, RegistryInv, RegistryTypeOK, AccessFollowsReach, Named
  <2>. QED BY <2>1, <2>2, <2>3 DEF RegistryInv
<1>3. ASSUME NEW reg \in Readings, NEW x \in Targets(c, reg), ~Refused(c, reg, x), Put(c, reg, x),
             blind' = IF reg = Normalized(file) THEN blind ELSE blind \cup {c}, UNCHANGED chain
      PROVE  RegistryInv'
  <2> DEFINE new == Registered(c, reg, x)
  <2>1. /\ sent' = [sent EXCEPT ![c] = new] /\ flight' = flight \cup {c}
        /\ kept' = [kept EXCEPT ![c] = KeptContainer(c, reg, x)]
        /\ pc' = [pc EXCEPT ![c] = "putting"]
        /\ UNCHANGED <<accessible, inReach>>
        BY <1>3 DEF Put, Goto
  <2>2. IsRegistry(reg) /\ Consistent(reg)
        BY ReadingOK DEF RegistryInv, RegistryTypeOK, AllConsistent
  <2>3. IsRegistry(new) /\ Consistent(new) /\ Keeps(reg, new)
        BY <1>3, <2>2, RegisteredOK DEF RegistryInv
  <2>4. PICK rivals \in SUBSET Rivals(c, reg, x) :
          shown' = [shown EXCEPT ![c] = Answer(c, new, x, rivals)]
        BY <1>3 DEF Put
  <2>4a. /\ Answer(c, new, x, rivals) \subseteq accessible[c] \cup KeptContainer(c, reg, x)
         /\ KeptContainer(c, reg, x) \subseteq Documents /\ accessible[c] \subseteq inReach[c]
         /\ accessible[c] \subseteq Documents
        BY <1>1, <1>3, <2>2, AnswerOK DEF RegistryInv, RegistryTypeOK, AccessFollowsReach
  <2> HIDE DEF new
  <2>5. RegistryTypeOK'
    <3>1. sent' = [y \in Call |-> sent'[y]] /\ \A y \in Call : IsRegistry(sent'[y])
          BY <2>1, <2>3 DEF RegistryInv, RegistryTypeOK
    <3>2. shown' \in [Call -> SUBSET Documents] /\ kept' \in [Call -> SUBSET Documents]
          BY <2>1, <2>4, <2>4a DEF RegistryInv, RegistryTypeOK
    <3>3. \A y \in Call : pc'[y] \in {"queued", "putting"} <=> InChain(y)'
          BY <1>1, <1>3, <2>1 DEF RegistryInv, RegistryTypeOK, InChain
    <3>4. blind' \subseteq Call
          BY <1>3 DEF RegistryInv, RegistryTypeOK
    <3>. QED BY <1>1, <1>3, <2>1, <3>1, <3>2, <3>3, <3>4 DEF RegistryInv, RegistryTypeOK
  <2>6. AllConsistent'
        BY <1>1, <2>1, <2>3 DEF RegistryInv, RegistryTypeOK, AllConsistent
  <2>7. PutsFollowFile'
    <3> SUFFICES ASSUME left' = {}, NEW y \in flight'
                 PROVE  pc'[y] = "putting" /\ (y \in blind' \/ Keeps(file', sent'[y]))
        BY DEF PutsFollowFile
    <3>1. y = c
          BY <1>1, <2>1, OnlyHeadInFlight
    <3>2. pc'[c] = "putting" /\ sent'[c] = new
          BY <2>1 DEF RegistryInv, RegistryTypeOK
    <3>3. CASE reg = Normalized(file)
          BY <1>1, <2>3, <3>1, <3>2, <3>3, NormalizedOK
          DEF RegistryInv, RegistryTypeOK, AllConsistent, Keeps
    <3>4. CASE reg # Normalized(file)
          BY <1>3, <3>1, <3>2, <3>4
    <3>. QED BY <3>3, <3>4
  <2>8. AccessFollowsReach'
        BY <1>1, <2>1, <2>4, <2>4a DEF RegistryInv, RegistryTypeOK, AccessFollowsReach, Named
  <2>. QED BY <2>5, <2>6, <2>7, <2>8 DEF RegistryInv
<1>. QED BY <1>2, <1>3 DEF Mutate

(* When a put is answered its call leaves the chain, and nothing else is in flight. *)
LEMMA PutSettlesInv ==
  ASSUME RegistryInv, NEW c \in Call, PutSettles(c)
  PROVE  RegistryInv'
<1>1. /\ pc[c] = "putting" /\ flight' = flight \ {c} /\ sent' = [sent EXCEPT ![c] = Empty]
      /\ Ends(c) /\ pc' = [pc EXCEPT ![c] = "done"] /\ chain' = Tail(chain)
      /\ UNCHANGED <<file, allowed, sourceInput, authorityInput, barrier, blind, left, restarts, changes>>
      BY DEF PutSettles, Ends, Goto, inputVars, countVars
<1>2. RegistryTypeOK'
  <2>1. c = Head(chain) /\ RegistryTypeOK
        BY <1>1 DEF RegistryInv, RegistryTypeOK
  <2>2. /\ chain' \in Seq(Call)
        /\ \A i, j \in DOMAIN chain' : chain'[i] = chain'[j] => i = j
        /\ \A x \in Call : pc'[x] \in {"queued", "putting"} <=> InChain(x)'
        /\ \A x \in Call : pc'[x] # "putting"
        BY <1>1, <2>1, HeadSettles
  <2>3. sent' = [y \in Call |-> sent'[y]] /\ \A y \in Call : IsRegistry(sent'[y])
        BY <1>1, <2>1, EmptyOK DEF RegistryTypeOK
  <2>. QED BY <1>1, <2>1, <2>2, <2>3 DEF Ends, RegistryTypeOK
<1>3. AllConsistent'
      BY <1>1, EmptyOK DEF RegistryInv, RegistryTypeOK, AllConsistent
<1>4. PutsFollowFile'
  <2>1. left' = {} => flight' = {}
        BY <1>1, OnlyHeadInFlight DEF RegistryInv, RegistryTypeOK
  <2>. QED BY <2>1 DEF PutsFollowFile
<1>5. AccessFollowsReach'
      BY <1>1 DEF Ends, Goto, RegistryInv, RegistryTypeOK, AccessFollowsReach, Named
<1>. QED BY <1>2, <1>3, <1>4, <1>5 DEF RegistryInv

(* When a put takes effect the file is what was put. *)
LEMMA PutLandsInv ==
  ASSUME RegistryInv, NEW c \in Call, PutLands(c)
  PROVE  RegistryInv'
<1>1. /\ c \in flight /\ file' = sent[c] /\ flight' = flight \ {c}
      /\ sent' = [sent EXCEPT ![c] = Empty]
      /\ UNCHANGED <<allowed, sourceInput, authorityInput, pc, barrier, accessible, shown, kept, chain, blind,
                     left, inReach, restarts, changes>>
      BY DEF PutLands, inputVars, callVars, countVars
<1>2. RegistryTypeOK'
  <2>1. sent' = [y \in Call |-> sent'[y]] /\ \A y \in Call : IsRegistry(sent'[y])
        BY <1>1, EmptyOK DEF RegistryInv, RegistryTypeOK
  <2>. QED BY <1>1, <2>1 DEF RegistryInv, RegistryTypeOK, InChain
<1>3. AllConsistent'
      BY <1>1, EmptyOK DEF RegistryInv, RegistryTypeOK, AllConsistent
<1>4. PutsFollowFile'
  <2>1. left' = {} => flight' = {}
        BY <1>1, OnlyHeadInFlight
  <2>. QED BY <2>1 DEF PutsFollowFile
<1>5. AccessFollowsReach'
      BY <1>1 DEF RegistryInv, AccessFollowsReach, Named
<1>. QED BY <1>2, <1>3, <1>4, <1>5 DEF RegistryInv

(* A restart empties the chain; puts in flight are remembered in left. *)
LEMMA RestartInv ==
  ASSUME RegistryInv, Restart
  PROVE  RegistryInv'
<1> USE DEF Restart, inputVars
<1>1. RegistryTypeOK'
  <2>1. chain' \in Seq(Call) /\ DOMAIN chain' = {}
        OBVIOUS
  <2>2. \A x \in Call : pc'[x] \notin {"queued", "putting"} /\ ~InChain(x)'
        BY <2>1 DEF InChain
  <2>3. restarts' \in 0..MaxRestarts
        BY RegistryAssumption DEF RegistryInv, RegistryTypeOK
  <2>. QED BY <2>1, <2>2, <2>3 DEF RegistryInv, RegistryTypeOK
<1>2. AllConsistent'
      BY DEF RegistryInv, AllConsistent
<1>3. PutsFollowFile'
      BY DEF PutsFollowFile
<1>4. AccessFollowsReach'
      BY DEF AccessFollowsReach
<1>. QED BY <1>1, <1>2, <1>3, <1>4 DEF RegistryInv

(* A new boundary is in the reach of every call under way. *)
LEMMA BoundaryInv ==
  ASSUME RegistryInv, NEW docs \in Boundaries, BoundaryChanges(docs)
  PROVE  RegistryInv'
<1> USE DEF BoundaryChanges, inputVars, callVars, putVars
<1>1. RegistryTypeOK'
  <2>1. inReach' \in [Call -> SUBSET Documents] /\ changes' \in 0..MaxChanges
        BY RegistryAssumption DEF RegistryInv, RegistryTypeOK
  <2>. QED BY <2>1 DEF RegistryInv, RegistryTypeOK, InChain
<1>2. AllConsistent' /\ PutsFollowFile'
      BY FileUntouched DEF RegistryInv
<1>3. AccessFollowsReach'
      BY DEF RegistryInv, RegistryTypeOK, AccessFollowsReach, Named
<1>. QED BY <1>1, <1>2, <1>3 DEF RegistryInv

(* Every step preserves RegistryInv. *)
LEMMA StepInv == RegistryInv /\ [Next]_vars => RegistryInv'
<1> SUFFICES ASSUME RegistryInv, [Next]_vars PROVE RegistryInv'
    OBVIOUS
<1>1. ASSUME NEW c \in Call, Step(c) PROVE RegistryInv'
      BY <1>1, InvokeInv, SnapshotInv, EnqueueInv, MutateInv, PutSettlesInv, PutLandsInv DEF Step
<1>2. CASE UNCHANGED vars
      BY <1>2 DEF vars, inputVars, callVars, putVars, countVars, RegistryInv, RegistryTypeOK, InChain,
               AllConsistent, PutsFollowFile, AccessFollowsReach, Named
<1>. QED BY <1>1, <1>2, BoundaryInv, RestartInv DEF Next

-----------------------------------------------------------------------------
(* RegistryInv holds of every behaviour: a registry that is consistent at first is *)
(* consistent for ever, in the file and on its way to it.                           *)
THEOREM RegistryCorrect == Spec => []RegistryInv
BY InitInv, StepInv, PTL DEF Spec

(* Type correctness: KnowledgeRegistryStore's chain holds what it should. *)
THEOREM TypeCorrect == Spec => []RegistryTypeOK
<1>1. RegistryInv => RegistryTypeOK
      BY DEF RegistryInv
<1>. QED BY <1>1, RegistryCorrect, PTL

(* Sources and pages name each other on both sides. *)
THEOREM LinksStayTwoSided == Spec => []LinksAgree
<1>1. RegistryInv => LinksAgree
      BY DEF RegistryInv, AllConsistent, Consistent, LinksAgree
<1>. QED BY <1>1, RegistryCorrect, PTL

(* No document is registered twice. *)
THEOREM OneRoleEach == Spec => []DocumentsHaveOneRole
<1>1. RegistryInv => DocumentsHaveOneRole
      BY DEF RegistryInv, AllConsistent, Consistent, DocumentsHaveOneRole
<1>. QED BY <1>1, RegistryCorrect, PTL

(* An ingested source keeps a page. *)
THEOREM IngestedKeepsPage == Spec => []IngestedIsLinked
<1>1. RegistryInv => IngestedIsLinked
      BY DEF RegistryInv, AllConsistent, Consistent, IngestedIsLinked
<1>. QED BY <1>1, RegistryCorrect, PTL

(* The registry on disk is consistent, whatever fails, restarts or lands late. *)
THEOREM ConsistentRegistry == Spec => []RegistryConsistent
BY LinksStayTwoSided, OneRoleEach, IngestedKeepsPage, PTL DEF RegistryConsistent

(* Answers name only documents that were accessible during the call, but for the *)
(* container that a page keeps when it is registered again.                       *)
THEOREM AnswersInReach == Spec => []AnswersAccessible
<1>1. RegistryInv => AnswersAccessible
      BY DEF RegistryInv, AccessFollowsReach, AnswersAccessible
<1>. QED BY <1>1, RegistryCorrect, PTL

(* A record is lost only by a failed read or by a put that outlived a restart. *)
THEOREM LossesExplained == Spec => LossHasCause
<1>1. RegistryInv /\ [Next]_vars =>
        [file' # file => Keeps(file, file') \/ left # {} \/ \E c \in blind : file' = sent[c]]_vars
  <2> SUFFICES ASSUME RegistryInv, Next, file' # file
               PROVE  Keeps(file, file') \/ left # {} \/ \E c \in blind : file' = sent[c]
      BY DEF vars
  <2>1. PICK c \in Call : PutLands(c)
        BY DEF Next, Step, Invoke, Snapshot, Enqueue, Mutate, PutSettles, Restart, BoundaryChanges
  <2>. QED BY <2>1 DEF PutLands, RegistryInv, PutsFollowFile
<1>. QED BY <1>1, RegistryCorrect, PTL DEF Spec, LossHasCause
=============================================================================
