------------------------------ MODULE OrderedMap ------------------------------
(***************************************************************************)
(* What a Sere `dict[K, V]` promises its user (docs/reference/dicts.md): a *)
(* map that enumerates its entries in the order their keys were first      *)
(* inserted.  The map is the sequence of its entries <<key, value>>.       *)
(***************************************************************************)
EXTENDS SequencesExt

CONSTANTS Keys, Vals

VARIABLE items

KeyAt(i) == items[i][1]
HasKey(k) == \E i \in DOMAIN items : KeyAt(i) = k

MapInit == items = << >>

\* Overwriting keeps the key's place; a new key goes to the end.
Put(k, v) ==
    \/ /\ ~HasKey(k)
       /\ items' = Append(items, <<k, v>>)
    \/ \E i \in DOMAIN items :
          /\ KeyAt(i) = k
          /\ items' = [items EXCEPT ![i] = <<k, v>>]

Discard(k) == \E i \in DOMAIN items :
                /\ KeyAt(i) = k
                /\ items' = RemoveAt(items, i)

Empty == items' = << >>

MapNext == \/ \E k \in Keys, v \in Vals : Put(k, v)
           \/ \E k \in Keys : Discard(k)
           \/ Empty

MapSpec == MapInit /\ [][MapNext]_items
===============================================================================
