----------------------------- MODULE LinkedList -----------------------------
(***************************************************************************)
(* The intrusive doubly linked lists of include/geekos/list.h.  A node    *)
(* type has one pair of link fields (DEFINE_LINK), so every list of that  *)
(* node type threads through the same next and prev fields: a node is on *)
(* at most one of them at a time, and nothing in list.h checks it.        *)
(*                                                                         *)
(* L is the link state of one node type: for each list (struct           *)
(* list_type) its head and tail, for each node its list_type##_next and   *)
(* list_type##_prev.  Nil is the null pointer.  The operators are the    *)
(* IMPLEMENT_LIST_* functions the kernel instantiates, each a function    *)
(* from the link state before the call to the one after it.              *)
(***************************************************************************)
EXTENDS Naturals, Sequences, FiniteSets

CONSTANTS
  Nodes,   \* the nodes (struct node_type) of the type
  Lists,   \* the lists (struct list_type) of the type
  Nil      \* the null pointer

LinkType ==
  [head : [Lists -> Nodes \cup {Nil}], tail : [Lists -> Nodes \cup {Nil}],
   next : [Nodes -> Nodes \cup {Nil}], prev : [Nodes -> Nodes \cup {Nil}]]

\* Zero-filled lists and nodes (static storage, or a memset frame array).
EmptyLinks ==
  [head |-> [l \in Lists |-> Nil], tail |-> [l \in Lists |-> Nil],
   next |-> [n \in Nodes |-> Nil], prev |-> [n \in Nodes |-> Nil]]

\* IMPLEMENT_LIST_IS_EMPTY
list_is_empty(L, l) == L.head[l] = Nil

\* IMPLEMENT_LIST_CLEAR: the nodes keep whatever links they had.
list_clear(L, l) == [L EXCEPT !.head[l] = Nil, !.tail[l] = Nil]

\* IMPLEMENT_LIST_GET_FIRST and IMPLEMENT_LIST_NEXT
list_get_first(L, l) == L.head[l]
list_next(L, n) == L.next[n]

\* Mutant: append without clearing the node's own links first.
AppendKeepLinks(L, l, n) ==
  IF L.head[l] = Nil
    THEN [L EXCEPT !.head[l] = n, !.tail[l] = n]
    ELSE [L EXCEPT !.prev[n] = L.tail[l], !.next[L.tail[l]] = n, !.tail[l] = n]

\* IMPLEMENT_LIST_APPEND: clear the node's links, then link it after the
\* tail, or make it the only node.
list_append(L, l, n) ==
  LET C == [L EXCEPT !.next[n] = Nil, !.prev[n] = Nil]
  IN  IF C.head[l] = Nil
        THEN [C EXCEPT !.head[l] = n, !.tail[l] = n]
        ELSE [C EXCEPT !.prev[n] = C.tail[l], !.next[C.tail[l]] = n, !.tail[l] = n]

\* IMPLEMENT_LIST_REMOVE_FIRST, once its KASSERT(list->head != 0) holds:
\* the removed node keeps its next link.
list_remove_first(L, l) ==
  LET h == L.head[l]
  IN  IF h = L.tail[l]
        THEN [L EXCEPT !.head[l] = Nil, !.tail[l] = Nil]
        ELSE [L EXCEPT !.head[l] = L.next[h], !.prev[L.next[h]] = Nil]

\* IMPLEMENT_LIST_REMOVE: unlink n from its neighbours, or move the head or
\* tail past it; n keeps both of its links.  The node is taken to be on l.
list_remove(L, l, n) ==
  LET p == L.prev[n]
      s == L.next[n]
      L1 == IF p # Nil THEN [L EXCEPT !.next[p] = s] ELSE [L EXCEPT !.head[l] = s]
  IN  IF s # Nil THEN [L1 EXCEPT !.prev[s] = p] ELSE [L1 EXCEPT !.tail[l] = p]

\* The nodes met walking from the head of l along next links, at most one
\* more than there are nodes (so that a cycle shows as too long a walk).
Walk(L, l) ==
  LET RECURSIVE From(_, _)
      From(n, k) == IF n = Nil \/ k = 0 THEN << >>
                    ELSE << n >> \o From(L.next[n], k - 1)
  IN  From(L.head[l], Cardinality(Nodes) + 1)

\* The links of L are those of the lists holding the sequences seqs[l]:
\* walking l forward gives seqs[l], and tail and prev links agree with it.
Represents(L, seqs) ==
  \A l \in Lists :
    LET s == seqs[l] IN
    /\ Walk(L, l) = s
    /\ L.tail[l] = IF s = << >> THEN Nil ELSE s[Len(s)]
    /\ \A i \in 1..Len(s) : L.prev[s[i]] = IF i = 1 THEN Nil ELSE s[i - 1]

=============================================================================
