------------------------------- MODULE SereDict -------------------------------
(***************************************************************************)
(* runtime/sere_rt.c: the open-addressing table behind `dict[K, V]`.       *)
(* Slots are probed linearly from the key's hash; a deleted slot becomes a *)
(* tombstone; `order` lists the live slots in insertion order.  Keys and   *)
(* values are opaque: what matters is which slot a key lands in.           *)
(***************************************************************************)
EXTENDS Integers, SequencesExt

CONSTANTS
    Keys, Vals,
    Hash,       \* hashKey: a function Keys -> Nat
    InitCap,    \* the capacity dictGrow gives an empty table (8 in the code)
    MaxLen      \* model bound: no insertion beyond this many live entries

\* Holds of the constants (assumed where they get their values)
DictAssumption == /\ Hash \in [Keys -> Nat]
                  /\ InitCap \in Nat \ {0}
                  /\ MaxLen \in Nat

VARIABLE dict   \* the SereDict struct; `len` is Len(dict.order)

Blank == << >>
Fresh(cap) == [cap   |-> cap,
               state |-> [i \in 0 .. cap - 1 |-> "empty"],
               entry |-> [i \in 0 .. cap - 1 |-> Blank],
               order |-> << >>]

\* The entries in insertion order
Items(t) == [p \in DOMAIN t.order |-> t.entry[t.order[p]]]

Slot(t, k, n) == (Hash[k] + n) % t.cap
Holds(t, i, k) == t.state[i] = "live" /\ t.entry[i][1] = k

\* The probe lengths at which the loop of set, get and del stops.
Stops(t, k) == {n \in 0 .. t.cap - 1 : \/ t.state[Slot(t, k, n)] = "empty"
                                       \/ Holds(t, Slot(t, k, n), k)}
Graves(t, k, n) == {m \in 0 .. n - 1 : t.state[Slot(t, k, m)] = "tomb"}

Fill(t, i, k, v) == [t EXCEPT !.state[i] = "live",
                              !.entry[i] = <<k, v>>,
                              !.order = Append(@, i)]

\* Mutant: a tombstone ends the probe, though the key may live further on.
StoreAtGrave(t, k, v) ==
    LET open == {n \in 0 .. t.cap - 1 : t.state[Slot(t, k, n)] # "live"}
                    \cup Stops(t, k)
    IN IF open = {} THEN t
       ELSE LET i == Slot(t, k, Min(open))
            IN IF Holds(t, i, k) THEN [t EXCEPT !.entry[i] = <<k, v>>]
               ELSE Fill(t, i, k, v)

\* sere_dict_set after its growth test.  The insertion happens only when the
\* probe meets an empty slot: with none left, the loop ends and stores nothing.
Store(t, k, v) ==
    IF Stops(t, k) = {} THEN t
    ELSE LET n == Min(Stops(t, k))
             i == Slot(t, k, n)
             graves == Graves(t, k, n)
         IN IF Holds(t, i, k) THEN [t EXCEPT !.entry[i] = <<k, v>>]
            ELSE Fill(t, IF graves = {} THEN i ELSE Slot(t, k, Min(graves)), k, v)

\* dictGrow: reinsert in insertion order, which also drops the tombstones.
Grow(t) ==
    LET e == Items(t)
        new[n \in 0 .. Len(e)] == IF n = 0 THEN Fresh(2 * t.cap)
                                  ELSE Store(new[n - 1], e[n][1], e[n][2])
    IN  new[Len(e)]

Crowded(t) == 2 * Len(t.order) >= t.cap
Set(t, k, v) == Store(IF Crowded(t) THEN Grow(t) ELSE t, k, v)

\* The slot sere_dict_get answers from, or -1.
Find(t, k) == IF Stops(t, k) = {} THEN -1
              ELSE LET i == Slot(t, k, Min(Stops(t, k)))
                   IN IF Holds(t, i, k) THEN i ELSE -1

\* Mutant: the slot becomes empty again.
DelToEmpty(t, k) == LET i == Find(t, k)
                    IN IF i = -1 THEN t
                       ELSE [t EXCEPT !.state[i] = "empty", !.entry[i] = Blank,
                                      !.order = RemoveFirst(@, i)]
Del(t, k) == LET i == Find(t, k)
             IN IF i = -1 THEN t
                ELSE [t EXCEPT !.state[i] = "tomb",
                               !.entry[i] = Blank,
                               !.order = RemoveFirst(@, i)]

Clear(t) == Fresh(t.cap)

Copy(t) ==
    LET e == Items(t)
        new[n \in 0 .. Len(e)] == IF n = 0 THEN Fresh(InitCap)
                                  ELSE Set(new[n - 1], e[n][1], e[n][2])
    IN  new[Len(e)]
-------------------------------------------------------------------------------
Init == dict = Fresh(InitCap)

DictSet(k, v) == /\ Len(dict.order) < MaxLen \/ Find(dict, k) # -1
                 /\ dict' = Set(dict, k, v)

\* sere_dict_del; sere_dict_pop is the same step after a successful get.
DictDel(k) == dict' = Del(dict, k)

DictClear == dict' = Clear(dict)

\* The program goes on with the copy.
DictCopy == dict' = Copy(dict)

Next == \/ \E k \in Keys, v \in Vals : DictSet(k, v)
        \/ \E k \in Keys : DictDel(k)
        \/ DictClear
        \/ DictCopy

Spec == Init /\ [][Next]_dict
-------------------------------------------------------------------------------
Live == {i \in DOMAIN dict.state : dict.state[i] = "live"}

\* The struct is well formed: `order` names each live slot exactly once.
TypeOK == /\ dict.cap \in Nat
          /\ DOMAIN dict.state = 0 .. dict.cap - 1
          /\ \A i \in DOMAIN dict.state :
                dict.state[i] \in {"empty", "live", "tomb"}
          /\ IsInjective(dict.order) /\ Range(dict.order) = Live

\* Every entry the dict enumerates is found by its key: a deletion elsewhere
\* on the probe path never hides it (tombstones, sere_dict_del).
EveryEntryFound == \A i \in Live : Find(dict, dict.entry[i][1]) = i

\* The table implements the insertion-ordered map of docs/reference/dicts.md,
\* except that a set may be lost (see StoredIsFound).
Map == INSTANCE OrderedMap WITH items <- Items(dict)
RefinesMap == Map!MapSpec

\* docs/reference/dicts.md:21, `ages["cy"] = 40  # insert or overwrite`: in
\* every state, whatever is set is what the next lookup reads.
StoredIsFound == \A k \in Keys, v \in Vals :
    LET t == Set(dict, k, v)
    IN Find(t, k) # -1 /\ t.entry[Find(t, k)] = <<k, v>>
===============================================================================
