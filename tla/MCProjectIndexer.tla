---------------------------- MODULE MCProjectIndexer ----------------------------
(***************************************************************************)
(* Three keys: a symbol of the language server, one of the adapter's other *)
(* sources, and a term of the user.  Every request is made of the first    *)
(* project; the second competes with it for the cache and the lease.       *)
(***************************************************************************)
EXTENDS ProjectIndexer, TLC

CONSTANTS p1, p2, symbol, other, term

MCKeys == {symbol, other, term}
MCApproved == {symbol, term}

MCRequests ==
  [op: {"Upsert"}, project: {p1},
   batch: {symbol :> 2, (symbol :> 1) @@ (other :> 1)}]
  \cup [op: {"UpsertTerm"}, project: {p1}, batch: {term :> 1}]
  \cup [op: {"RemoveEntry"}, project: {p1}, key: {symbol}]
  \cup [op: {"SetEnabled"}, project: {p1}, enabled: BOOLEAN]
  \cup [op: {"Upsert"}, project: {p2}, batch: {symbol :> 1}]
  \cup [op: {"Remove"}, project: Projects]
=============================================================================
