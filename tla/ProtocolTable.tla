---------------------------- MODULE ProtocolTable ----------------------------
(* protocols_ of the ListenerManager: handlers by protocol name.  A name is  *)
(* a sequence of letters, since names are looked up by prefix.               *)
EXTENDS Naturals, Sequences, SequencesExt, FiniteSets, TLC

EmptyTable == << >>

Faulty_emplace(table, ids, protocol) == [id \in ids |-> protocol] @@ table

(* protocols_.emplace for each id: a name that is there keeps its handler    *)
emplace(table, ids, protocol) ==
    [id \in DOMAIN table \cup ids |-> IF id \in DOMAIN table THEN table[id] ELSE protocol]

getSupportedProtocols(table) == DOMAIN table

Longest(names) == {n \in names : \A m \in names : Len(m) <= Len(n)}

(* All names that share two letters with the given one; the longest are      *)
(* candidates, and the order of the trie chooses between them                *)
fallback(table, name) == Longest({n \in DOMAIN table : IsPrefix(SubSeq(name, 1, 2), n)})

(* getProtocol: the names whose handler it may return, none for              *)
(* NO_HANDLER_FOUND                                                          *)
matches(table, name) ==
    IF ~ \E n \in DOMAIN table : IsPrefix(n, name) THEN {}
    ELSE IF name \in DOMAIN table THEN {name}
    ELSE fallback(table, name)
getProtocol(table, name) == {table[n] : n \in matches(table, name)}

==============================================================================
