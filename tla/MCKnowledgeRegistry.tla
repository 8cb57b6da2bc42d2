------------------------- MODULE MCKnowledgeRegistry -------------------------
(***************************************************************************)
(* Instances of KnowledgeRegistry: documents d1 and d2 may become sources, *)
(* w is a wiki page; another source, on d2, may be in the file already.    *)
(***************************************************************************)
EXTENDS KnowledgeRegistry

MCSourceIds == {"s1", "s2", "s3"}
MCDocuments == {"d1", "d2", "w"}
MCKeys == {"none", "h", "u"}

Source(doc, hash, state, links) ==
  [doc |-> doc, hash |-> hash, url |-> "none", state |-> state, links |-> links]

File(sources, authorities, containers) ==
  [schema |-> "current", revision |-> 1, sources |-> sources, authorities |-> authorities,
   containers |-> containers]

MCFiles ==
  { Empty,
    File([s \in {"s2"} |-> Source("d2", "h", "ingested", {"w"})], [a \in {"w"} |-> {"s2"}],
         [a \in {"w"} |-> "d2"]),
    [Empty EXCEPT !.schema = "future"] }

Input(id, doc, hash, url, state, relinks, links) ==
  [id |-> id, doc |-> doc, hash |-> hash, url |-> url, state |-> state,
   relinks |-> relinks, links |-> links]

MCSourceInputs ==
  { Input("s1", "d1", "h", "none", "registered", FALSE, {}),
    Input("s1", "d1", "none", "u", "ingested", TRUE, {"w"}),
    Input("s2", "d2", "none", "u", "registered", TRUE, {}),
    Input("s3", "d1", "none", "none", "registered", FALSE, {}) }

Page(doc, relinks, sources, container) ==
  [doc |-> doc, relinks |-> relinks, sources |-> sources, container |-> container]

MCAuthorityInputs ==
  { Page("w", FALSE, {}, "none"),
    Page("w", TRUE, {}, "none"),
    Page("w", TRUE, {"s1"}, "d2"),
    Page("d1", TRUE, {"s2"}, "none") }

MCBoundaries == { {"d1", "d2", "w"}, {"d1", "w"} }
=============================================================================
